-------------------------- MODULE FdReactorProofs --------------------------
(***************************************************************************)
(* For any number of registrations and any finite set of descriptors: the  *)
(* registry, the handles and the counter of watchers agree, the rendezvous *)
(* of a watcher task with the loop is one to one, a drained descriptor     *)
(* costs one fire an event, and only a registered callback is started.     *)
(***************************************************************************)
EXTENDS FdReactor, FiniteSetTheorems, TLAPS

\* There are finitely many directions to count watchers in.
LEMMA DirFinite == IsFiniteSet(Dir)
<1>1. {"read", "write"} = {"read"} \cup {"write"}
    OBVIOUS
<1>2. IsFiniteSet({"read"})
    BY FS_Singleton
<1>3. IsFiniteSet({"read", "write"})
    BY <1>1, <1>2, FS_AddElement, Zenon
<1> QED BY <1>3, ReactorConstants, FS_Product DEF Dir

-----------------------------------------------------------------------------
(* The registry.                                                           *)

TypeReg ==
    /\ fds \in [Dir -> Reg \cup {None}]
    /\ dirOf \in [Reg -> Dir]
    /\ cb \in [Reg -> BOOLEAN]
    /\ cancelled \in [Reg -> BOOLEAN]
    /\ task \in [Reg -> {"none", "aborted", "gone"} \cup Polled]
    /\ io \in Seq(Reg)
    /\ cur \in Reg \cup {None}

Registered(r) == fds[dirOf[r]] = r

\* A direction holds a registration made for it.
OwnDirection == \A d \in Dir : fds[d] # None => dirOf[fds[d]] = d

\* A registration is registered exactly while its slot holds a callback and
\* exactly while its task has not been aborted.
SlotLive ==
    \A r \in Reg :
        /\ cb[r] <=> Registered(r)
        /\ task[r] \in Polled <=> Registered(r)

\* Its handle is live for as long; a registration not made yet is not cancelled.
HandleLive ==
    \A r \in Reg :
        /\ task[r] # "none" /\ ~cancelled[r] <=> Registered(r)
        /\ task[r] = "none" => ~cancelled[r]

Watched == {d \in Dir : fds[d] # None}

Counter == n_watchers = Cardinality(Watched)

\* The inductive invariant of the registry.
RegInv == TypeReg /\ OwnDirection /\ SlotLive /\ HandleLive /\ Counter

\* The registry is empty when the loop is made.
LEMMA RegInit == Init => RegInv
<1> SUFFICES ASSUME Init PROVE RegInv
    OBVIOUS
<1> USE ReactorConstants DEF Init
<1>1. TypeReg
    BY DEF TypeReg
<1>2. OwnDirection
    BY DEF OwnDirection
<1>3. SlotLive /\ HandleLive
    BY <1>1 DEF SlotLive, HandleLive, Registered, TypeReg, Polled
<1>4. Watched = {}
    BY DEF Watched
<1>5. Counter
    BY <1>4, FS_EmptySet DEF Counter
<1> QED BY <1>1, <1>2, <1>3, <1>5 DEF RegInv

\* A step that leaves the registry alone, and moves no task into or out of its
\* watched life, keeps the invariant.
LEMMA RegSame ==
    ASSUME RegInv, UNCHANGED <<fds, slots, n_watchers>>,
           task' \in [Reg -> {"none", "aborted", "gone"} \cup Polled],
           \A r \in Reg : task'[r] \in Polled <=> task[r] \in Polled,
           \A r \in Reg : task'[r] = "none" <=> task[r] = "none",
           io' \in Seq(Reg), cur' \in Reg \cup {None}
    PROVE  RegInv'
<1> USE DEF slots, RegInv
<1>1. TypeReg'
    BY DEF TypeReg
<1>2. OwnDirection'
    BY DEF OwnDirection
<1>3. SlotLive'
    BY DEF SlotLive, Registered
<1>4. HandleLive'
    BY DEF HandleLive, Registered
<1>5. Counter'
    BY DEF Counter, Watched
<1> QED BY <1>1, <1>2, <1>3, <1>4, <1>5

\* add_watcher: the new registration takes the place of the old one, which is
\* cancelled; the counter moves only when there was none.
LEMMA AddReg ==
    ASSUME RegInv, NEW r \in Reg, add_watcher(r)
    PROVE  RegInv'
<1> DEFINE d == dirOf[r]
           old == {fds[d]} \ {None}
<1> USE ReactorConstants DEF RegInv
<1>0. /\ d \in Dir /\ r # None /\ task[r] = "none" /\ fds[d] # r
      /\ fds[d] \in Reg \cup {None} /\ dirOf' = dirOf /\ r \notin old
      /\ fds' = [fds EXCEPT ![d] = r]
      /\ task' = [Aborted(old) EXCEPT ![r] = "spawned"]
      /\ cancelled' = [q \in Reg |-> cancelled[q] \/ q \in old]
      /\ cb' = [q \in Reg |-> (cb[q] \/ q = r) /\ q \notin old]
      /\ n_watchers' = n_watchers + Counted(old)
      /\ UNCHANGED <<io, cur>>
    BY DEF add_watcher, CancelHandles, TypeReg, HandleLive, Registered
<1>1. TypeReg'
    BY <1>0 DEF TypeReg, Aborted, Polled
<1>2. OwnDirection'
    BY <1>0 DEF OwnDirection, TypeReg
<1>3. \A q \in Reg : Registered(q)' <=> q = r \/ (Registered(q) /\ q \notin old)
    <2> SUFFICES ASSUME NEW q \in Reg
                 PROVE  fds'[dirOf[q]] = q
                            <=> q = r \/ (fds[dirOf[q]] = q /\ q \notin old)
        BY <1>0 DEF Registered
    <2> dirOf[q] \in Dir /\ q # None
        BY DEF TypeReg
    <2>1. CASE dirOf[q] = d
        BY <1>0, <2>1 DEF TypeReg
    <2>2. CASE dirOf[q] # d
        <3>1. fds'[dirOf[q]] = fds[dirOf[q]] /\ q # r
            BY <1>0, <2>2 DEF TypeReg
        <3>2. q \notin old
            BY <1>0, <2>2 DEF OwnDirection
        <3> QED BY <3>1, <3>2
    <2> QED BY <2>1, <2>2
<1>4. SlotLive'
    BY <1>0, <1>3 DEF SlotLive, Aborted, Polled, TypeReg
<1>5. HandleLive'
    <2> SUFFICES ASSUME NEW q \in Reg
                 PROVE  /\ task'[q] # "none" /\ ~cancelled'[q] <=> Registered(q)'
                        /\ task'[q] = "none" => ~cancelled'[q]
        BY DEF HandleLive, Registered
    <2>1. CASE q = r
        BY <1>0, <1>3, <2>1 DEF HandleLive, Aborted, TypeReg
    <2>2. CASE q # r /\ q \in old
        BY <1>0, <1>3, <2>2 DEF HandleLive, Aborted, TypeReg
    <2>3. CASE q # r /\ q \notin old
        BY <1>0, <1>3, <2>3 DEF HandleLive, Aborted, TypeReg
    <2> QED BY <2>1, <2>2, <2>3
<1>6. Counter'
    <2>1. IsFiniteSet(Watched)
        BY DirFinite, FS_Subset DEF Watched
    <2>2. Watched' = Watched \cup {d}
        BY <1>0 DEF Watched, TypeReg
    <2>3. Cardinality(Watched \cup {d})
            = IF d \in Watched THEN Cardinality(Watched) ELSE Cardinality(Watched) + 1
        BY <2>1, FS_AddElement
    <2>4. Cardinality(Watched) \in Nat
        BY <2>1, FS_CardinalityType
    <2>5. CASE fds[d] = None
        BY <1>0, <2>2, <2>3, <2>4, <2>5 DEF Counter, Counted, Watched
    <2>6. CASE fds[d] # None
        <3>1. d \in Watched /\ Counted(old) = 0
            BY <1>0, <2>6 DEF Counted, Watched
        <3> QED BY <1>0, <2>2, <2>3, <2>4, <3>1 DEF Counter
    <2> QED BY <2>5, <2>6
<1> QED BY <1>1, <1>2, <1>4, <1>5, <1>6

\* Removing the registrations of a set of directions, as remove_reader and
\* close() do, ends the life of exactly those registrations.
LEMMA DetachReg ==
    ASSUME RegInv, NEW D \in SUBSET Dir, Detach({fds[d] : d \in D} \ {None}),
           fds' = [d \in Dir |-> IF d \in D THEN None ELSE fds[d]],
           UNCHANGED <<dirOf, cur>>, io' \in Seq(Reg), Counter'
    PROVE  RegInv'
<1> DEFINE R == {fds[d] : d \in D} \ {None}
<1> USE ReactorConstants DEF RegInv
<1>0. /\ task' = Aborted(R)
      /\ cancelled' = [q \in Reg |-> cancelled[q] \/ q \in R]
      /\ cb' = [q \in Reg |-> cb[q] /\ q \notin R]
    BY DEF Detach, CancelHandles
<1>1. TypeReg'
    BY <1>0 DEF TypeReg, Aborted
<1>2. OwnDirection'
    BY <1>0 DEF OwnDirection, TypeReg
<1>3. \A q \in Reg : q \in R <=> Registered(q) /\ dirOf[q] \in D
    BY DEF Registered, TypeReg, OwnDirection
<1>4. \A q \in Reg : Registered(q)' <=> Registered(q) /\ q \notin R
    BY <1>3 DEF Registered, TypeReg
<1>5. SlotLive'
    BY <1>0, <1>4 DEF SlotLive, Aborted, Polled, TypeReg
<1>6. HandleLive'
    <2> SUFFICES ASSUME NEW q \in Reg
                 PROVE  /\ task'[q] # "none" /\ ~cancelled'[q] <=> Registered(q)'
                        /\ task'[q] = "none" => ~cancelled'[q]
        BY DEF HandleLive, Registered
    <2>1. CASE q \in R
        BY <1>0, <1>3, <1>4, <2>1 DEF HandleLive, Aborted, TypeReg
    <2>2. CASE q \notin R
        BY <1>0, <1>4, <2>2 DEF HandleLive, Aborted, TypeReg
    <2> QED BY <2>1, <2>2
<1> QED BY <1>1, <1>2, <1>5, <1>6

\* remove_reader and remove_writer count one watcher less.
LEMMA RemoveReg ==
    ASSUME RegInv, NEW d \in Dir, detach_watcher(d)
    PROVE  RegInv'
<1> USE ReactorConstants DEF RegInv
<1>1. /\ fds[d] # None /\ fds' = [fds EXCEPT ![d] = None]
      /\ Detach({fds[d]}) /\ n_watchers' = n_watchers - 1
      /\ UNCHANGED <<dirOf, io, cur>>
    BY DEF detach_watcher
<1>2. {fds[e] : e \in {d}} \ {None} = {fds[d]}
    BY <1>1
<1>3. fds' = [e \in Dir |-> IF e \in {d} THEN None ELSE fds[e]]
    BY <1>1 DEF TypeReg
<1>4. Counter'
    <2>1. IsFiniteSet(Watched) /\ d \in Watched
        BY <1>1, DirFinite, FS_Subset DEF Watched
    <2>2. Watched' = Watched \ {d}
        BY <1>3 DEF Watched
    <2>3. Cardinality(Watched \ {d}) = Cardinality(Watched) - 1
        BY <2>1, FS_RemoveElement
    <2> QED BY <1>1, <2>2, <2>3 DEF Counter
<1>5. io' \in Seq(Reg)
    BY <1>1 DEF TypeReg
<1> QED BY <1>1, <1>2, <1>3, <1>4, <1>5, DetachReg

\* close() removes every watcher.
LEMMA CloseReg ==
    ASSUME RegInv, close
    PROVE  RegInv'
<1>1. /\ fds' = [d \in Dir |-> None]
      /\ Detach({fds[d] : d \in Dir} \ {None})
      /\ n_watchers' = 0 /\ io' = <<>> /\ UNCHANGED <<dirOf, cur>>
    BY DEF close
<1>2. fds' = [d \in Dir |-> IF d \in Dir THEN None ELSE fds[d]]
    BY <1>1
<1>3. Watched' = {}
    BY <1>1 DEF Watched
<1>4. Counter'
    BY <1>1, <1>3, FS_EmptySet DEF Counter
<1>5. io' \in Seq(Reg)
    BY <1>1
<1> QED BY <1>1, <1>2, <1>4, <1>5, DetachReg

\* A fire moves a task that is polled to its rendezvous and queues it once.
LEMMA FireMoves ==
    ASSUME RegInv, NEW r \in Reg, Fire(r)
    PROVE  /\ task' = [task EXCEPT ![r] = "hs"] /\ task[r] \in Polled
           /\ io' = Append(io, r) /\ io' \in Seq(Reg)
<1>1. io' = Append(io, r) /\ task' = [task EXCEPT ![r] = "hs"] /\ cb[r]
    BY DEF Fire
<1>2. task[r] \in Polled
    BY <1>1 DEF RegInv, SlotLive
<1> QED BY <1>1, <1>2 DEF RegInv, TypeReg

\* The steps of a watcher task keep the registry as it is.
LEMMA PollReg ==
    ASSUME RegInv, NEW r \in Reg, Poll(r)
    PROVE  RegInv'
<1> USE DEF RegInv
<1>1. UNCHANGED <<fds, slots, n_watchers, cur>>
    BY DEF Poll, Prime, Readable, Rendezvous, Reap
<1>2. CASE Fire(r)
    <2>1. /\ task' = [task EXCEPT ![r] = "hs"] /\ task[r] \in Polled
          /\ io' \in Seq(Reg)
        BY <1>2, FireMoves
    <2>2. /\ task' \in [Reg -> {"none", "aborted", "gone"} \cup Polled]
          /\ \A q \in Reg : task'[q] \in Polled <=> task[q] \in Polled
          /\ \A q \in Reg : task'[q] = "none" <=> task[q] = "none"
        BY <2>1 DEF TypeReg, Polled
    <2>3. cur' \in Reg \cup {None}
        BY <1>1 DEF TypeReg
    <2> QED BY <1>1, <2>1, <2>2, <2>3, RegSame
<1>3. CASE ~Fire(r)
    <2>1. /\ io' = io
          /\ \/ task[r] \in Polled /\ task' = [task EXCEPT ![r] = "parked"]
             \/ task[r] = "aborted" /\ task' = [task EXCEPT ![r] = "gone"]
        BY <1>3 DEF Poll, Prime, Readable, Rendezvous, Reap, Polled
    <2>2. /\ task' \in [Reg -> {"none", "aborted", "gone"} \cup Polled]
          /\ \A q \in Reg : task'[q] \in Polled <=> task[q] \in Polled
          /\ \A q \in Reg : task'[q] = "none" <=> task[q] = "none"
        BY <2>1 DEF TypeReg, Polled
    <2>3. io' \in Seq(Reg) /\ cur' \in Reg \cup {None}
        BY <1>1, <2>1 DEF TypeReg
    <2> QED BY <1>1, <2>2, <2>3, RegSame
<1> QED BY <1>2, <1>3

\* Every step of the reactor keeps the registry consistent.
LEMMA RegStep == RegInv /\ [Next]_vars => RegInv'
<1> SUFFICES ASSUME RegInv, [Next]_vars PROVE RegInv'
    OBVIOUS
<1>1. ASSUME UNCHANGED <<fds, slots, task, n_watchers>>,
             io' \in Seq(Reg), cur' \in Reg \cup {None}
      PROVE  RegInv'
    BY <1>1, RegSame DEF RegInv, TypeReg
<1>2. io \in Seq(Reg) /\ cur \in Reg \cup {None}
    BY DEF RegInv, TypeReg
<1>3. ASSUME NEW r \in Reg, add_watcher(r) PROVE RegInv'
    BY <1>3, AddReg
<1>4. ASSUME NEW d \in Dir, detach_watcher(d) PROVE RegInv'
    BY <1>4, RemoveReg
<1>5. ASSUME NEW r \in Reg, cancel(r) PROVE RegInv'
    <2>1. dirOf[r] \in Dir
        BY DEF RegInv, TypeReg
    <2> QED BY <1>5, <2>1, RemoveReg DEF cancel
<1>6. ASSUME NEW r \in Reg, Poll(r) PROVE RegInv'
    BY <1>6, PollReg
<1>7. ASSUME NEW r \in Reg, DriverTurn(r) PROVE RegInv'
    BY <1>1, <1>2, <1>7 DEF DriverTurn
<1>8. ASSUME NEW d \in Dir, Arrive(d) \/ Consume(d) PROVE RegInv'
    BY <1>1, <1>2, <1>8 DEF Arrive, Consume
<1>9. CASE close
    BY <1>9, CloseReg
<1>10. CASE run_forever \/ EnterIo \/ EndBatch \/ BeginBatch
    BY <1>1, <1>2, <1>10 DEF run_forever, EnterIo, EndBatch, BeginBatch, Goto
<1>11. CASE RunIo
    <2>1. Head(io) \in Reg /\ Tail(io) \in Seq(Reg)
        BY <1>2, <1>11 DEF RunIo
    <2> QED BY <1>1, <1>2, <1>11, <2>1 DEF RunIo
<1>12. CASE Return
    BY <1>1, <1>2, <1>12 DEF Return
<1>13. CASE UNCHANGED vars
    BY <1>1, <1>2, <1>13 DEF vars
<1> QED BY <1>3, <1>4, <1>5, <1>6, <1>7, <1>8, <1>9, <1>10, <1>11, <1>12, <1>13
        DEF Next

\* The registry's invariant holds in every reachable state.
THEOREM RegistryInvariant == Spec => []RegInv
    BY RegInit, RegStep, PTL DEF Spec

\* A handle is live exactly while it is the registered one, and n_watchers
\* counts the registered watchers, for any number of either.
THEOREM RegistryConsistent == Spec => []RegistryAgrees
<1>1. RegInv => RegistryAgrees
    BY DEF RegInv, HandleLive, Registered, Counter, Watched, RegistryAgrees
<1> QED BY <1>1, RegistryInvariant, PTL

\* _process_io starts the callback of a registered watcher only.
THEOREM OnlyRegisteredRun == Spec => RunsRegistered
<1> DEFINE Starts == \A r \in Reg : cur' = r /\ cur # r => fds[dirOf[r]] = r
<1>1. RegInv /\ [Next]_vars => [Starts]_vars
    <2> SUFFICES ASSUME RegInv, Next, NEW r \in Reg, cur' = r, cur # r
                 PROVE  fds[dirOf[r]] = r
        BY DEF vars
    <2>1. RunIo
        BY ReactorConstants DEF Next, add_watcher, cancel, detach_watcher, Poll, Prime,
           Readable, Rendezvous, Reap, DriverTurn, Arrive, Consume, close, run_forever,
           EnterIo, Return, EndBatch, BeginBatch, Goto
    <2>2. cb[r]
        BY <2>1 DEF RunIo, SlotCallback
    <2> QED BY <2>2 DEF RegInv, SlotLive, Registered
<1>2. Spec => [][Starts]_vars
    BY <1>1, RegistryInvariant, PTL DEF Spec
<1> QED BY <1>2 DEF RunsRegistered

-----------------------------------------------------------------------------
(* The rendezvous.                                                         *)

Queued(r) == \E i \in DOMAIN io : io[i] = r

\* The queue of completions holds a registration at most once.
Distinct == \A i, j \in DOMAIN io : io[i] = io[j] => i = j

\* Completion queued, callback on the stack, permit stored: at most one of
\* them for any registration, one while its task waits, none before.
Exclusive ==
    \A r \in Reg :
        /\ ~(Queued(r) /\ cur = r)
        /\ ~(Queued(r) /\ hs[r])
        /\ ~(cur = r /\ hs[r])

Waits ==
    \A r \in Reg : task[r] = "hs" => Queued(r) \/ cur = r \/ hs[r]

Rests ==
    \A r \in Reg : task[r] \in {"none", "spawned", "parked"} =>
        ~Queued(r) /\ cur # r /\ ~hs[r]

\* The inductive invariant of the rendezvous, on top of the registry's.
MeetInv ==
    hs \in [Reg -> BOOLEAN] /\ Distinct /\ Exclusive /\ Waits /\ Rests

\* Nothing is outstanding when the loop is made.
LEMMA MeetInit == Init => MeetInv
    BY ReactorConstants
       DEF Init, MeetInv, Distinct, Exclusive, Waits, Rests, Queued

\* Appending to the queue adds one position, with the new element.
LEMMA AppendPositions ==
    ASSUME NEW s \in Seq(Reg), NEW r \in Reg
    PROVE  LET n == Len(s) + 1 IN
           /\ DOMAIN Append(s, r) = DOMAIN s \cup {n} /\ n \notin DOMAIN s
           /\ \A i \in DOMAIN s : Append(s, r)[i] = s[i]
           /\ Append(s, r)[n] = r
    OBVIOUS

\* Popping the queue removes the first position and shifts the others.
LEMMA TailPositions ==
    ASSUME NEW s \in Seq(Reg), s # <<>>
    PROVE  /\ 1 \in DOMAIN s /\ Head(s) = s[1]
           /\ \A i \in DOMAIN Tail(s) :
                  i + 1 \in DOMAIN s /\ i + 1 # 1 /\ Tail(s)[i] = s[i + 1]
           /\ \A i \in DOMAIN s :
                  i # 1 => i - 1 \in DOMAIN Tail(s) /\ Tail(s)[i - 1] = s[i]
           /\ \A i, j \in DOMAIN Tail(s) : i + 1 = j + 1 => i = j
    OBVIOUS

\* A fire that consumes what was outstanding leaves one completion queued.
LEMMA FireMeets ==
    ASSUME RegInv, MeetInv, NEW r \in Reg, Fire(r), cur' = cur,
           task[r] \in {"spawned", "parked"} \/ (task[r] = "hs" /\ hs[r]),
           hs' = [hs EXCEPT ![r] = FALSE]
    PROVE  MeetInv'
<1> USE DEF MeetInv
<1>1. /\ task' = [task EXCEPT ![r] = "hs"]
      /\ io' = Append(io, r) /\ io \in Seq(Reg) /\ task \in [Reg -> {"none", "aborted", "gone"} \cup Polled]
    BY FireMoves DEF RegInv, TypeReg
<1>2. ~Queued(r) /\ cur # r
    BY DEF Exclusive, Rests
<1>p. LET n == Len(io) + 1 IN
      /\ DOMAIN io' = DOMAIN io \cup {n} /\ n \notin DOMAIN io
      /\ \A i \in DOMAIN io : io'[i] = io[i]
      /\ io'[n] = r
    BY <1>1, AppendPositions
<1>3. \A q \in Reg : Queued(q)' <=> Queued(q) \/ q = r
    BY <1>p DEF Queued
<1>4. Distinct'
    BY <1>2, <1>p DEF Distinct, Queued
<1>5. hs' \in [Reg -> BOOLEAN] /\ ~hs'[r] /\ \A q \in Reg : q # r => hs'[q] = hs[q]
    OBVIOUS
<1>6. Exclusive'
    BY <1>2, <1>3, <1>5 DEF Exclusive
<1>7. Waits' /\ Rests'
    BY <1>1, <1>3, <1>5 DEF Waits, Rests
<1> QED BY <1>4, <1>5, <1>6, <1>7

\* A step that leaves the queue, the stack and the permits alone, and puts no
\* task to rest or to wait, keeps the rendezvous.
LEMMA MeetSame ==
    ASSUME MeetInv, UNCHANGED <<io, cur, hs>>,
           \A r \in Reg : task'[r] = "hs" => task[r] = "hs",
           \A r \in Reg : task'[r] \in {"none", "spawned", "parked"} =>
                              task[r] \in {"none", "spawned", "parked"}
    PROVE  MeetInv'
    BY DEF MeetInv, Distinct, Exclusive, Waits, Rests, Queued

\* The steps of a watcher task keep the rendezvous.
LEMMA PollMeets ==
    ASSUME RegInv, MeetInv, NEW r \in Reg, Poll(r)
    PROVE  MeetInv'
<1>0. task \in [Reg -> {"none", "aborted", "gone"} \cup Polled]
    BY DEF RegInv, TypeReg
<1>1. CASE Prime(r)
    <2>1. cur' = cur /\ hs' = hs /\ task[r] = "spawned"
        BY <1>1 DEF Prime, tokio
    <2>2. CASE Fire(r)
        <3>1. hs' = [hs EXCEPT ![r] = FALSE]
            BY <2>1 DEF MeetInv, Rests
        <3> QED BY <2>1, <2>2, <3>1, FireMeets
    <2>3. CASE ~Fire(r)
        BY <1>0, <1>1, <2>1, <2>3, MeetSame DEF Prime
    <2> QED BY <2>2, <2>3
<1>2. CASE Readable(r)
    <2>1. cur' = cur /\ hs' = hs /\ task[r] = "parked" /\ Fire(r)
        BY <1>2 DEF Readable
    <2>2. hs' = [hs EXCEPT ![r] = FALSE]
        BY <2>1 DEF MeetInv, Rests
    <2> QED BY <2>1, <2>2, FireMeets
<1>3. CASE Rendezvous(r)
    <2>1. /\ cur' = cur /\ hs' = [hs EXCEPT ![r] = FALSE]
          /\ task[r] = "hs" /\ hs[r]
        BY <1>3 DEF Rendezvous
    <2>2. CASE Fire(r)
        BY <2>1, <2>2, FireMeets
    <2>3. CASE ~Fire(r)
        <3>1. io' = io /\ task' = [task EXCEPT ![r] = "parked"]
            BY <1>3, <2>3 DEF Rendezvous
        <3>2. ~Queued(r) /\ cur # r
            BY <2>1 DEF MeetInv, Exclusive
        <3>3. \A q \in Reg : Queued(q)' <=> Queued(q)
            BY <3>1 DEF Queued
        <3>4. hs' \in [Reg -> BOOLEAN] /\ ~hs'[r] /\ \A q \in Reg : q # r => hs'[q] = hs[q]
            BY <2>1 DEF MeetInv
        <3>5. Distinct' /\ Exclusive'
            BY <2>1, <3>1, <3>2, <3>3, <3>4 DEF MeetInv, Distinct, Exclusive
        <3>6. Waits' /\ Rests'
            BY <1>0, <2>1, <3>1, <3>2, <3>3, <3>4 DEF MeetInv, Waits, Rests
        <3> QED BY <3>4, <3>5, <3>6 DEF MeetInv
    <2> QED BY <2>2, <2>3
<1>4. CASE Reap(r)
    BY <1>0, <1>4, MeetSame DEF Reap
<1> QED BY <1>1, <1>2, <1>3, <1>4 DEF Poll

\* _process_io moves a completion to the stack, or stores the permit when its
\* slot is empty.
LEMMA RunMeets ==
    ASSUME RegInv, MeetInv, RunIo
    PROVE  MeetInv'
<1> DEFINE h == Head(io)
<1>1. /\ io \in Seq(Reg) /\ io # <<>> /\ io' = Tail(io) /\ cur = None
      /\ task' = task /\ h \in Reg
    BY DEF RunIo, RegInv, TypeReg
<1>p. /\ 1 \in DOMAIN io /\ h = io[1]
      /\ \A i \in DOMAIN io' : i + 1 \in DOMAIN io /\ i + 1 # 1 /\ io'[i] = io[i + 1]
      /\ \A i \in DOMAIN io : i # 1 => i - 1 \in DOMAIN io' /\ io'[i - 1] = io[i]
      /\ \A i, j \in DOMAIN io' : i + 1 = j + 1 => i = j
    BY <1>1, TailPositions
<1>2. /\ Queued(h) /\ \A q \in Reg : Queued(q)' => Queued(q)
      /\ \A q \in Reg : q # h /\ Queued(q) => Queued(q)'
    BY <1>p DEF Queued
<1>3. Distinct' /\ \A q \in Reg : q = h => ~Queued(q)'
    <2>1. \A i, j \in DOMAIN io : io[i] = io[j] => i = j
        BY DEF MeetInv, Distinct
    <2>2. Distinct'
        BY <1>p, <2>1 DEF Distinct
    <2>3. ASSUME NEW i \in DOMAIN io' PROVE io'[i] # h
        BY <1>p, <2>1
    <2> QED BY <2>2, <2>3 DEF Queued
<1>t. hs \in [Reg -> BOOLEAN] /\ ~hs[h]
    BY <1>1, <1>2 DEF MeetInv, Exclusive
<1>4. CASE cur' = h /\ hs' = hs
    <2>1. Exclusive'
        BY <1>1, <1>2, <1>3, <1>4, <1>t DEF MeetInv, Exclusive
    <2>2. Waits'
        BY <1>1, <1>2, <1>4, ReactorConstants DEF MeetInv, Waits
    <2>3. Rests'
        BY <1>1, <1>2, <1>4 DEF MeetInv, Rests
    <2> QED BY <1>3, <1>4, <1>t, <2>1, <2>2, <2>3 DEF MeetInv
<1>5. CASE cur' = None /\ hs' = [hs EXCEPT ![h] = TRUE]
    <2>0. hs' \in [Reg -> BOOLEAN] /\ hs'[h] /\ \A q \in Reg : q # h => hs'[q] = hs[q]
        BY <1>1, <1>5, <1>t
    <2>1. Exclusive'
        BY <1>1, <1>2, <1>3, <1>5, <2>0, ReactorConstants DEF MeetInv, Exclusive
    <2>2. Waits'
        BY <1>1, <1>2, <2>0, ReactorConstants DEF MeetInv, Waits
    <2>3. Rests'
        BY <1>1, <1>2, <1>5, <2>0, ReactorConstants DEF MeetInv, Rests
    <2> QED BY <1>3, <2>0, <2>1, <2>2, <2>3 DEF MeetInv
<1> QED BY <1>1, <1>4, <1>5 DEF RunIo, Release

\* Every step of the reactor keeps the rendezvous one to one.
LEMMA MeetStep == RegInv /\ MeetInv /\ [Next]_vars => MeetInv'
<1> SUFFICES ASSUME RegInv, MeetInv, [Next]_vars PROVE MeetInv'
    OBVIOUS
<1>0. task \in [Reg -> {"none", "aborted", "gone"} \cup Polled]
    BY DEF RegInv, TypeReg
<1>1. ASSUME NEW r \in Reg, add_watcher(r) PROVE MeetInv'
    BY <1>0, <1>1, MeetSame DEF add_watcher, Aborted
<1>2. ASSUME NEW d \in Dir, detach_watcher(d) PROVE MeetInv'
    BY <1>0, <1>2, MeetSame DEF detach_watcher, Detach, Aborted, tokio
<1>3. ASSUME NEW r \in Reg, cancel(r) PROVE MeetInv'
    <2>1. dirOf[r] \in Dir
        BY DEF RegInv, TypeReg
    <2> QED BY <1>2, <1>3, <2>1 DEF cancel
<1>4. ASSUME NEW r \in Reg, Poll(r) PROVE MeetInv'
    BY <1>4, PollMeets
<1>5. ASSUME NEW r \in Reg, DriverTurn(r) PROVE MeetInv'
    BY <1>5, MeetSame DEF DriverTurn
<1>6. ASSUME NEW d \in Dir, Arrive(d) \/ Consume(d) PROVE MeetInv'
    BY <1>6, MeetSame DEF Arrive, Consume, tokio
<1>7. CASE close
    <2>1. /\ io' = <<>> /\ UNCHANGED <<cur, hs>>
          /\ task' = Aborted({fds[d] : d \in Dir} \ {None})
        BY <1>7 DEF close, Detach, tokio
    <2>2. \A q \in Reg : task'[q] \notin Polled
        BY <1>0, <2>1, ReactorConstants
           DEF Aborted, RegInv, SlotLive, Registered, TypeReg, Polled
    <2>3. \A q \in Reg : task'[q] = "none" => task[q] = "none"
        BY <2>1 DEF Aborted
    <2>4. \A q \in Reg : ~Queued(q)'
        BY <2>1 DEF Queued
    <2> QED BY <2>1, <2>2, <2>3, <2>4
            DEF MeetInv, Distinct, Exclusive, Waits, Rests, Polled
<1>8. CASE run_forever \/ EnterIo \/ EndBatch \/ BeginBatch
    BY <1>8, MeetSame DEF run_forever, EnterIo, EndBatch, BeginBatch, Goto, tokio
<1>9. CASE RunIo
    BY <1>9, RunMeets
<1>10. CASE Return
    <2>1. /\ cur \in Reg /\ cur' = None /\ hs' = [hs EXCEPT ![cur] = TRUE]
          /\ UNCHANGED <<io, task>>
        BY <1>10 DEF Return, Release, RegInv, TypeReg
    <2>2. \A q \in Reg : Queued(q)' <=> Queued(q)
        BY <2>1 DEF Queued
    <2> QED BY <2>1, <2>2, ReactorConstants
            DEF MeetInv, Distinct, Exclusive, Waits, Rests
<1>11. CASE UNCHANGED vars
    BY <1>11, MeetSame DEF vars, tokio
<1> QED BY <1>1, <1>2, <1>3, <1>4, <1>5, <1>6, <1>7, <1>8, <1>9, <1>10, <1>11
        DEF Next

\* One completion, one callback or one permit for a task that waits: a second
\* one would run its callback twice, none would stop its descriptor for good.
THEOREM RendezvousOneToOne == Spec => []OneOutstanding
<1>1. RegInv /\ MeetInv => OneOutstanding
    <2> SUFFICES ASSUME RegInv, MeetInv, NEW r \in Reg, task[r] = "hs"
                 PROVE  Cardinality({i \in DOMAIN io : io[i] = r})
                          + (IF cur = r THEN 1 ELSE 0) + (IF hs[r] THEN 1 ELSE 0) = 1
        BY DEF OneOutstanding
    <2>1. CASE Queued(r)
        <3>1. PICK i \in DOMAIN io : io[i] = r
            BY <2>1 DEF Queued
        <3>2. {j \in DOMAIN io : io[j] = r} = {i}
            BY <3>1 DEF MeetInv, Distinct
        <3>3. cur # r /\ ~hs[r]
            BY <2>1 DEF MeetInv, Exclusive
        <3>4. Cardinality({i}) = 1
            BY FS_Singleton
        <3> QED BY <3>2, <3>3, <3>4
    <2>2. CASE ~Queued(r)
        <3>1. {j \in DOMAIN io : io[j] = r} = {}
            BY <2>2 DEF Queued
        <3>2. (cur = r /\ ~hs[r]) \/ (cur # r /\ hs[r])
            BY <2>2 DEF MeetInv, Exclusive, Waits
        <3> QED BY <3>1, <3>2, FS_EmptySet
    <2> QED BY <2>1, <2>2
<1>2. Spec => []MeetInv
    BY MeetInit, MeetStep, RegistryInvariant, PTL DEF Spec
<1> QED BY <1>1, <1>2, RegistryInvariant, PTL

-----------------------------------------------------------------------------
(* Fires without I/O.                                                      *)

TypeIdle ==
    /\ idle \in [Reg -> {0, 1}]
    /\ guard \in [Reg -> {"none", "fresh", "stale"}]
    /\ flag \in [Reg -> BOOLEAN]
    /\ level \in [Dir -> BOOLEAN]

\* After a fire without I/O the driver has not moved the tick, whatever has
\* arrived since, so that the flag is cleared before the task parks.
Settled ==
    \A r \in Reg : idle[r] = 1 =>
        /\ task[r] \notin {"none", "spawned"}
        /\ task[r] = "parked" => ~flag[r]
        /\ task[r] = "hs" => guard[r] # "stale"

\* The inductive invariant of the fires without I/O.
IdleInv == TypeIdle /\ Settled

\* No watcher has fired when the loop is made.
LEMMA IdleInit == Init => IdleInv
    BY DEF Init, IdleInv, TypeIdle, Settled

\* A step that leaves flags, guards and the counts of fires alone keeps the
\* invariant unless it parks a task or makes it wait.
LEMMA IdleSame ==
    ASSUME IdleInv, UNCHANGED <<guard, flag, idle>>, level' \in [Dir -> BOOLEAN],
           \A r \in Reg : idle[r] = 1 =>
               \/ task'[r] = task[r]
               \/ task'[r] \notin {"none", "spawned", "parked", "hs"}
    PROVE  IdleInv'
    BY DEF IdleInv, TypeIdle, Settled

\* The steps of a watcher task.
LEMMA PollIdle ==
    ASSUME RegInv, IdleInv, NEW r \in Reg, Poll(r)
    PROVE  IdleInv'
<1> USE DEF IdleInv
<1>0. /\ task \in [Reg -> {"none", "aborted", "gone"} \cup Polled]
      /\ dirOf \in [Reg -> Dir] /\ dirOf' = dirOf /\ TypeIdle
    BY DEF Poll, Prime, Readable, Rendezvous, Reap, slots, RegInv, TypeReg
<1>1. CASE Prime(r)
    <2>1. /\ task[r] = "spawned" /\ UNCHANGED <<guard, flag, level>>
          /\ idle' = [idle EXCEPT ![r] = @]
          /\ \E s \in {"hs", "parked"} : task' = [task EXCEPT ![r] = s]
        BY <1>0, <1>1 DEF Prime, Fire, poll_ready, tokio, TypeIdle
    <2>2. idle' = idle /\ idle[r] = 0
        BY <2>1 DEF TypeIdle, Settled
    <2> QED BY <1>0, <2>1, <2>2, IdleSame DEF TypeIdle
<1>2. CASE Readable(r)
    <2>1. /\ task[r] = "parked" /\ flag[r] /\ UNCHANGED <<flag, level>>
          /\ task' = [task EXCEPT ![r] = "hs"]
          /\ guard' = [guard EXCEPT ![r] = "fresh"]
          /\ idle' = [idle EXCEPT ![r] = IF level[dirOf[r]] THEN @ ELSE @ + 1]
        BY <1>2 DEF Readable, Fire
    <2>2. idle[r] = 0
        BY <2>1 DEF TypeIdle, Settled
    <2>3. idle' \in [Reg -> {0, 1}]
        BY <2>1, <2>2 DEF TypeIdle
    <2>4. TypeIdle'
        BY <2>1, <2>3 DEF TypeIdle
    <2>5. Settled'
        BY <1>0, <2>1, <2>3 DEF Settled, TypeIdle
    <2> QED BY <2>4, <2>5
<1>3. CASE Rendezvous(r)
    <2>1. task[r] = "hs" /\ level' = level
        BY <1>3 DEF Rendezvous
    <2>2. CASE level[dirOf[r]]
        <3>1. /\ UNCHANGED <<guard, flag>> /\ task' = [task EXCEPT ![r] = "hs"]
              /\ idle' = [idle EXCEPT ![r] = @]
            BY <1>3, <2>2 DEF Rendezvous, poll_ready, Fire
        <3>2. idle' = idle
            BY <3>1 DEF TypeIdle
        <3> QED BY <1>0, <2>1, <3>1, <3>2, IdleSame DEF TypeIdle
    <2>3. CASE ~level[dirOf[r]]
        <3>1. /\ flag' = [flag EXCEPT ![r] = @ /\ guard[r] = "stale"]
              /\ guard' = [guard EXCEPT ![r] = "none"]
              /\ task' = [task EXCEPT ![r] = "parked"] /\ idle' = idle
            BY <1>3, <2>3 DEF Rendezvous, poll_ready, ClearReady
        <3>2. flag' \in [Reg -> BOOLEAN] /\ (guard[r] # "stale" => ~flag'[r])
            BY <1>0, <3>1 DEF TypeIdle
        <3>3. TypeIdle'
            BY <2>1, <3>1, <3>2 DEF TypeIdle
        <3>4. Settled'
            BY <1>0, <2>1, <3>1, <3>2 DEF Settled, TypeIdle
        <3> QED BY <3>3, <3>4
    <2> QED BY <2>2, <2>3
<1>4. CASE Reap(r)
    BY <1>0, <1>4, IdleSame DEF Reap, TypeIdle
<1> QED BY <1>1, <1>2, <1>3, <1>4 DEF Poll

\* Every step of the reactor keeps the invariant.
LEMMA IdleStep == RegInv /\ IdleInv /\ [Next]_vars => IdleInv'
<1> SUFFICES ASSUME RegInv, IdleInv, [Next]_vars PROVE IdleInv'
    OBVIOUS
<1>0. /\ task \in [Reg -> {"none", "aborted", "gone"} \cup Polled]
      /\ dirOf \in [Reg -> Dir] /\ TypeIdle
    BY DEF RegInv, TypeReg, IdleInv
<1>1. ASSUME NEW r \in Reg, add_watcher(r) PROVE IdleInv'
    <2>1. task[r] = "none" /\ UNCHANGED <<dirOf, guard, flag, idle, level>>
        BY <1>1 DEF add_watcher
    <2>2. idle[r] # 1
        BY <2>1 DEF IdleInv, Settled
    <2>3. \A q \in Reg : q # r => task'[q] = task[q] \/ task'[q] = "aborted"
        BY <1>0, <1>1 DEF add_watcher, Aborted
    <2> QED BY <1>0, <2>1, <2>2, <2>3, IdleSame DEF TypeIdle
<1>2. ASSUME NEW R, Detach(R), UNCHANGED <<dirOf, tokio, level, idle>>
      PROVE  IdleInv'
    BY <1>0, <1>2, IdleSame DEF Detach, Aborted, tokio, TypeIdle
<1>3. ASSUME NEW d \in Dir, detach_watcher(d) PROVE IdleInv'
    BY <1>2, <1>3 DEF detach_watcher
<1>4. ASSUME NEW r \in Reg, cancel(r) PROVE IdleInv'
    BY <1>0, <1>3, <1>4 DEF cancel
<1>5. ASSUME NEW r \in Reg, Poll(r) PROVE IdleInv'
    BY <1>5, PollIdle
<1>6. ASSUME NEW r \in Reg, DriverTurn(r) PROVE IdleInv'
    <2>1. UNCHANGED <<task, level>>
        BY <1>6 DEF DriverTurn
    <2>2. CASE ~Reported(r)
        <3>1. UNCHANGED <<guard, flag, idle>>
            BY <1>6, <2>2 DEF DriverTurn
        <3> QED BY <1>0, <2>1, <3>1, IdleSame DEF TypeIdle
    <2>3. CASE Reported(r)
        <3>1. /\ flag' = [flag EXCEPT ![r] = @ \/ level[dirOf[r]]]
              /\ guard' = [guard EXCEPT ![r] = IF @ = "none" THEN @ ELSE "stale"]
              /\ idle' = [idle EXCEPT ![r] = 0]
            BY <1>6, <2>3 DEF DriverTurn
        <3>2. flag' \in [Reg -> BOOLEAN]
            BY <1>0, <3>1 DEF TypeIdle
        <3>3. TypeIdle'
            BY <1>0, <2>1, <3>1, <3>2 DEF TypeIdle
        <3>4. Settled'
            BY <1>0, <2>1, <3>1, <3>2 DEF IdleInv, Settled, TypeIdle
        <3> QED BY <3>3, <3>4 DEF IdleInv
    <2> QED BY <2>2, <2>3
<1>7. ASSUME NEW d \in Dir, Arrive(d) PROVE IdleInv'
    <2>1. level' = [level EXCEPT ![d] = TRUE] /\ UNCHANGED <<task, guard, flag, idle>>
        BY <1>7 DEF Arrive
    <2> QED BY <1>0, <2>1, IdleSame DEF TypeIdle
<1>8. ASSUME NEW d \in Dir, Consume(d) PROVE IdleInv'
    <2>1. level' = [level EXCEPT ![d] = FALSE] /\ UNCHANGED <<task, guard, flag, idle>>
        BY <1>8 DEF Consume, tokio
    <2> QED BY <1>0, <2>1, IdleSame DEF TypeIdle
<1>9. CASE close
    BY <1>2, <1>9 DEF close
<1>10. CASE run_forever \/ EnterIo \/ EndBatch \/ BeginBatch
    BY <1>0, <1>10, IdleSame
       DEF run_forever, EnterIo, EndBatch, BeginBatch, Goto, slots, tokio, TypeIdle
<1>11. CASE RunIo \/ Return
    BY <1>0, <1>11, IdleSame DEF RunIo, Return, slots, TypeIdle
<1>12. CASE UNCHANGED vars
    BY <1>0, <1>12, IdleSame DEF vars, slots, tokio, TypeIdle
<1> QED BY <1>1, <1>3, <1>4, <1>5, <1>6, <1>7, <1>8, <1>9, <1>10, <1>11, <1>12
        DEF Next

\* I/O that is consumed before its readiness is looked at costs a watcher one
\* call of its callback at most, until the driver has another event for it.
THEOREM OneSpurious == Spec => []SpuriousBounded
<1>1. IdleInv => SpuriousBounded
    BY DEF IdleInv, TypeIdle, SpuriousBounded
<1>2. Spec => []IdleInv
    BY IdleInit, IdleStep, RegistryInvariant, PTL DEF Spec
<1> QED BY <1>1, <1>2, PTL
=============================================================================
