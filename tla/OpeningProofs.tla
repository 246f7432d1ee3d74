--------------------------- MODULE OpeningProofs ---------------------------
(***************************************************************************)
(* The life of a transport from its constructor to connection_lost, for    *)
(* any number of connections and any order of the ready queue's entries:   *)
(* the invariant that the calls and the server of EndpointsProofs share.   *)
(***************************************************************************)
EXTENDS Endpoints, TLAPS

Live == {"open", "closing"}

Ent == [k : Kinds, c : Conn]

\* The entries of a queue.
Within(q) == {q[i] : i \in 1..Len(q)}

Distinct(q) == \A i, j \in 1..Len(q) : q[i] = q[j] => i = j

\* No entry is queued twice, and a connection's connection_made is queued
\* before its connection_lost.
Orderly(q) ==
    /\ q \in Seq(Ent)
    /\ Distinct(q)
    /\ \A i, j \in 1..Len(q) :
           q[i].k = "made" /\ q[j].k = "lost" /\ q[i].c = q[j].c => i < j

Queued(k, c) == Entry(k, c) \in Within(ready)

\* What is queued for a connection goes with the state of its task, its waiter
\* and its transport; what the protocol was told, with the transport.
QueueTells ==
    \A c \in Conn :
        /\ Queued("step", c) => task[c] = "new"
        /\ Queued("made", c) <=> tr[c] # "none" /\ calls[c] = <<>>
        /\ Queued("register", c) \/ Queued("waiter", c) => tr[c] # "none"
        /\ Queued("lost", c) => tr[c] = "closing"
        /\ Queued("resume", c) => /\ task[c] = "waiting"
                                  /\ waiter[c] \in {"result", "error", "cancelled"}

Told ==
    /\ calls \in [Conn -> {<<>>, <<"made">>, <<"made", "lost">>}]
    /\ \A c \in Conn :
        /\ calls[c] = <<>> => tr[c] # "lost"
        /\ calls[c] # <<>> => \/ calls[c] = <<"made">> /\ tr[c] \in Live
                              \/ calls[c] = <<"made", "lost">> /\ tr[c] = "lost"

\* The coroutine of a connection and its transport; the socket is open for as
\* long as the transport lives.
Owned ==
    \A c \in Conn :
        /\ task[c] = "new" => tr[c] = "none"
        /\ waiter[c] \in {"pending", "handshake"} => task[c] = "waiting"
        /\ task[c] = "waiting" => tr[c] # "none"
        /\ task[c] = "failed" => tr[c] # "open"
        /\ tr[c] \in Live => sock[c] = "open"
        /\ c \in reader => /\ sock[c] = "open" /\ tr[c] \in {"none", "open"}
                           /\ tr[c] = "none" => kind \in Binding

OpeningInv == TypeOpening /\ Orderly(ready) /\ QueueTells /\ Told /\ Owned

\* A step of the call or of the server alone.
LEMMA OpeningStays == ASSUME OpeningInv, UNCHANGED <<opening, kind>> PROVE OpeningInv'
<1>1. UNCHANGED <<sock, tr, reader, waiter, task, cancelling, calls, ready, kind>>
    BY DEF opening
<1>2. TypeOpening'
    BY <1>1 DEF OpeningInv, TypeOpening
<1>3. Orderly(ready)' /\ QueueTells'
    BY <1>1 DEF OpeningInv, QueueTells, Queued
<1>4. Told' /\ Owned'
    BY <1>1 DEF OpeningInv, Told, Owned
<1> QED BY <1>2, <1>3, <1>4 DEF OpeningInv

\* What an entry is made of.
LEMMA EntryIs ==
    /\ \A k \in Kinds, c \in Conn : Entry(k, c) \in Ent
    /\ \A e \in Ent : e = Entry(e.k, e.c) /\ e.k \in Kinds /\ e.c \in Conn
    /\ \A k, l, c, d : Entry(k, c) = Entry(l, d) <=> k = l /\ c = d
    /\ \A k, c : Entry(k, c).k = k /\ Entry(k, c).c = c
    BY DEF Entry, Ent

\* Entries of different kinds differ, and an entry tells its kind and connection.
LEMMA OtherEntry ==
    /\ \A k, l, c, d : k # l => Entry(k, c) # Entry(l, d)
    /\ \A k, c, e : e = Entry(k, c) => e.k = k /\ e.c = c
    BY DEF Entry

\* What is within a queue.
LEMMA WithinSeq == \A q \in Seq(Conn) : Within(q) \subseteq Conn
    BY DEF Within

\* An orderly queue holds entries only.
LEMMA WithinEnt == \A q : Orderly(q) => Within(q) \subseteq Ent
<1>1. \A q \in Seq(Ent) : Within(q) \subseteq Ent
    BY DEF Within
<1> QED BY <1>1, Zenon DEF Orderly

\* The empty queue has no entries.
LEMMA EmptyQueue ==
    /\ <<>> \in Seq(Conn) /\ <<>> \in Seq(Ent) /\ Len(<<>>) = 0
    /\ Within(<<>>) = {} /\ Distinct(<<>>)
<1>1. <<>> \in Seq(Conn) /\ <<>> \in Seq(Ent) /\ Len(<<>>) = 0 /\ 1..0 = {}
    OBVIOUS
<1>2. Within(<<>>) = {}
    BY <1>1 DEF Within
<1> QED BY <1>1, <1>2, Zenon DEF Distinct

\* The kernel's queue loses its first connection, ...
LEMMA Taken ==
    ASSUME NEW q \in Seq(Conn), q # <<>>, Distinct(q)
    PROVE  /\ Tail(q) \in Seq(Conn) /\ Distinct(Tail(q))
           /\ Head(q) \in Conn /\ Head(q) \in Within(q)
           /\ Within(Tail(q)) = Within(q) \ {Head(q)}
<1>1. /\ Len(q) \in Nat /\ Tail(q) \in Seq(Conn) /\ Len(Tail(q)) = Len(q) - 1
      /\ \A i \in 1..Len(q) - 1 : Tail(q)[i] = q[i + 1] /\ i + 1 \in 1..Len(q)
      /\ Head(q) = q[1] /\ 1 \in 1..Len(q) /\ q[1] \in Conn
    OBVIOUS
<1>2. ASSUME NEW e \in Within(Tail(q)) PROVE e \in Within(q) \ {Head(q)}
    <2>1. PICK i \in 1..Len(q) - 1 : e = q[i + 1]
        BY <1>1, <1>2 DEF Within
    <2>2. i + 1 \in 1..Len(q) /\ i + 1 # 1
        BY <1>1, <2>1
    <2> QED BY <1>1, <2>1, <2>2 DEF Within, Distinct
<1>3. ASSUME NEW e \in Within(q), e # Head(q) PROVE e \in Within(Tail(q))
    <2>1. PICK i \in 1..Len(q) : e = q[i]
        BY <1>3 DEF Within
    <2>2. i - 1 \in 1..Len(q) - 1 /\ i = (i - 1) + 1
        BY <1>1, <1>3, <2>1
    <2>3. Tail(q)[i - 1] = e
        BY <1>1, <2>1, <2>2
    <2> QED BY <1>1, <2>2, <2>3 DEF Within
<1>4. Distinct(Tail(q))
    <2> SUFFICES ASSUME NEW i \in 1..Len(q) - 1, NEW j \in 1..Len(q) - 1, q[i + 1] = q[j + 1]
                 PROVE  i = j
        BY <1>1 DEF Distinct
    <2>1. i + 1 \in 1..Len(q) /\ j + 1 \in 1..Len(q)
        BY <1>1
    <2>2. i + 1 = j + 1
        BY <2>1, Zenon DEF Distinct
    <2> QED BY <2>2
<1>5. Head(q) \in Within(q)
    BY <1>1 DEF Within
<1> QED BY <1>1, <1>2, <1>3, <1>4, <1>5

\* ... and is given one behind the others.
LEMMA Joined ==
    ASSUME NEW q \in Seq(Conn), NEW c \in Conn, Distinct(q), c \notin Within(q)
    PROVE  /\ Append(q, c) \in Seq(Conn) /\ Distinct(Append(q, c))
           /\ Within(Append(q, c)) = Within(q) \cup {c}
<1> DEFINE t == Append(q, c)
           n == Len(q)
<1>1. /\ t \in Seq(Conn) /\ n \in Nat /\ Len(t) = n + 1 /\ t[n + 1] = c
      /\ \A i \in 1..n : t[i] = q[i] /\ q[i] \in Within(q)
    BY DEF Within
<1> HIDE DEF t, n
<1>2. /\ n + 1 \in 1..Len(t) /\ (\A i \in 1..n : i \in 1..Len(t))
      /\ \A i \in 1..Len(t) : i \in 1..n \/ i = n + 1
    BY <1>1
<1>3. ASSUME NEW i \in 1..Len(t), NEW j \in 1..Len(t), t[i] = t[j] PROVE i = j
    <2>1. CASE i \in 1..n /\ j \in 1..n
        <3>1. q[i] = q[j]
            BY <1>1, <1>3, <2>1, Zenon
        <3> QED BY <2>1, <3>1, Zenon DEF Distinct, n
    <2>2. CASE i \in 1..n /\ j = n + 1
        BY <1>1, <1>3, <2>2, Zenon
    <2>3. CASE i = n + 1 /\ j \in 1..n
        BY <1>1, <1>3, <2>3, Zenon
    <2> QED BY <1>2, <2>1, <2>2, <2>3, Zenon
<1>4. Within(t) = Within(q) \cup {c}
    <2>1. \A i \in 1..Len(t) : t[i] \in Within(q) \cup {c}
        BY <1>1, <1>2, Zenon
    <2>2. c \in Within(t)
        BY <1>1, <1>2, Zenon DEF Within
    <2>3. ASSUME NEW e \in Within(q) PROVE e \in Within(t)
        <3>1. PICK i \in 1..n : e = q[i]
            BY <2>3 DEF Within, n
        <3> QED BY <1>1, <1>2, <3>1, Zenon DEF Within
    <2>4. Within(t) \subseteq Within(q) \cup {c}
        BY <2>1, Zenon DEF Within
    <2> QED BY <2>2, <2>3, <2>4, Zenon
<1>5. Distinct(t)
    BY <1>3, Zenon DEF Distinct
<1> QED BY <1>1, <1>4, <1>5, Zenon DEF t

\* The loop takes the first entry of its queue.
LEMMA Pop ==
    ASSUME NEW q, Orderly(q), q # <<>>
    PROVE  /\ Orderly(Tail(q)) /\ Within(Tail(q)) = Within(q) \ {Head(q)}
           /\ Head(q) \in Within(q) /\ Head(q) \in Ent
           /\ Head(q).k = "lost" => Entry("made", Head(q).c) \notin Within(q)
<1>1. q \in Seq(Ent) /\ Len(q) \in Nat /\ Len(q) > 0
    BY DEF Orderly
<1>2. /\ Tail(q) \in Seq(Ent) /\ Len(Tail(q)) = Len(q) - 1
      /\ \A i \in 1..Len(q) - 1 : Tail(q)[i] = q[i + 1] /\ i + 1 \in 1..Len(q)
      /\ Head(q) = q[1] /\ 1 \in 1..Len(q) /\ q[1] \in Ent
    BY <1>1
<1>3. Orderly(Tail(q))
    BY <1>1, <1>2 DEF Orderly, Distinct
<1>4. Within(Tail(q)) = Within(q) \ {Head(q)}
    <2>1. ASSUME NEW e \in Within(Tail(q)) PROVE e \in Within(q) \ {Head(q)}
        <3>1. PICK i \in 1..Len(q) - 1 : e = q[i + 1]
            BY <1>2, <2>1 DEF Within
        <3>2. i + 1 \in 1..Len(q) /\ i + 1 # 1
            BY <1>1, <3>1
        <3> QED BY <1>2, <3>1, <3>2 DEF Within, Orderly, Distinct
    <2>2. ASSUME NEW e \in Within(q), e # Head(q) PROVE e \in Within(Tail(q))
        <3>1. PICK i \in 1..Len(q) : e = q[i]
            BY <2>2 DEF Within
        <3>2. i - 1 \in 1..Len(q) - 1 /\ i = (i - 1) + 1
            BY <1>1, <1>2, <2>2, <3>1
        <3>3. Tail(q)[i - 1] = e
            BY <1>2, <3>1, <3>2
        <3> QED BY <1>2, <3>2, <3>3, Zenon DEF Within
    <2> QED BY <2>1, <2>2
<1>5. ASSUME Head(q).k = "lost", Entry("made", Head(q).c) \in Within(q) PROVE FALSE
    <2>1. PICK i \in 1..Len(q) : q[i] = Entry("made", Head(q).c)
        BY <1>5 DEF Within
    <2>2. q[i].k = "made" /\ q[i].c = q[1].c
        BY <1>2, <2>1, EntryIs
    <2> QED BY <1>2, <1>5, <2>1, <2>2 DEF Orderly
<1> QED BY <1>2, <1>3, <1>4, <1>5, Zenon DEF Within

\* New entries are queued behind the others.
LEMMA Push ==
    ASSUME NEW q, NEW s, Orderly(q), Orderly(s), Within(q) \cap Within(s) = {},
           \A e \in Within(s), f \in Within(q) : ~(e.k = "made" /\ f.k = "lost" /\ e.c = f.c)
    PROVE  Orderly(q \o s) /\ Within(q \o s) = Within(q) \cup Within(s)
<1> DEFINE t == q \o s
           n == Len(q)
           m == Len(s)
<1>1. /\ t \in Seq(Ent) /\ n \in Nat /\ m \in Nat /\ Len(t) = n + m
      /\ \A i \in 1..n : t[i] = q[i] /\ q[i] \in Within(q)
      /\ \A i \in 1..m : t[n + i] = s[i] /\ s[i] \in Within(s)
    BY DEF Orderly, Within
<1>2. \A i \in 1..Len(t) : i \in 1..n \/ (i - n \in 1..m /\ i = n + (i - n))
    BY <1>1
<1>3. Within(t) = Within(q) \cup Within(s)
    <2>1. ASSUME NEW e \in Within(t) PROVE e \in Within(q) \cup Within(s)
        <3>1. PICK i \in 1..Len(t) : e = t[i]
            BY <2>1 DEF Within
        <3> QED BY <1>1, <1>2, <3>1
    <2>2. ASSUME NEW e \in Within(q) PROVE e \in Within(t)
        <3>1. PICK i \in 1..n : e = q[i]
            BY <2>2 DEF Within
        <3>2. i \in 1..Len(t) /\ t[i] = e
            BY <1>1, <3>1
        <3> QED BY <3>2 DEF Within
    <2>3. ASSUME NEW e \in Within(s) PROVE e \in Within(t)
        <3>1. PICK i \in 1..m : e = s[i]
            BY <2>3 DEF Within
        <3>2. n + i \in 1..Len(t) /\ t[n + i] = e
            BY <1>1, <3>1
        <3> QED BY <3>2 DEF Within
    <2> QED BY <2>1, <2>2, <2>3
<1>4. ASSUME NEW i \in 1..Len(t), NEW j \in 1..Len(t)
      PROVE  /\ t[i] = t[j] => i = j
             /\ t[i].k = "made" /\ t[j].k = "lost" /\ t[i].c = t[j].c => i < j
    <2>1. CASE i \in 1..n /\ j \in 1..n
        BY <1>1, <2>1 DEF Orderly, Distinct
    <2>2. CASE i \in 1..n /\ j \notin 1..n
        <3>1. j - n \in 1..m /\ t[j] = s[j - n]
            BY <1>1, <1>2, <2>2
        <3>2. t[i] \in Within(q) /\ t[j] \in Within(s) /\ i < j
            BY <1>1, <2>2, <3>1
        <3> QED BY <3>2
    <2>3. CASE i \notin 1..n /\ j \in 1..n
        <3>1. i - n \in 1..m /\ t[i] = s[i - n]
            BY <1>1, <1>2, <2>3
        <3>2. t[j] \in Within(q) /\ t[i] \in Within(s)
            BY <1>1, <2>3, <3>1
        <3> QED BY <3>2
    <2>4. CASE i \notin 1..n /\ j \notin 1..n
        <3>1. i - n \in 1..m /\ t[i] = s[i - n] /\ j - n \in 1..m /\ t[j] = s[j - n]
            BY <1>1, <1>2, <2>4
        <3>2. /\ s[i - n] = s[j - n] => i - n = j - n
              /\ s[i - n].k = "made" /\ s[j - n].k = "lost" /\ s[i - n].c = s[j - n].c
                     => i - n < j - n
            BY <3>1, Zenon DEF Orderly, Distinct
        <3> QED BY <1>1, <3>1, <3>2
    <2> QED BY <2>1, <2>2, <2>3, <2>4
<1> HIDE DEF t, n, m
<1>5. Orderly(t)
    BY <1>1, <1>4 DEF Orderly, Distinct
<1> QED BY <1>3, <1>5 DEF t

\* One entry, and those of a transport's constructor.
LEMMA OneEntry ==
    ASSUME NEW k \in Kinds, NEW c \in Conn
    PROVE  Orderly(<<Entry(k, c)>>) /\ Within(<<Entry(k, c)>>) = {Entry(k, c)}
<1>1. <<Entry(k, c)>> \in Seq(Ent)
    BY EntryIs
<1>2. Len(<<Entry(k, c)>>) = 1 /\ <<Entry(k, c)>>[1] = Entry(k, c) /\ 1..1 = {1}
    OBVIOUS
<1>3. Within(<<Entry(k, c)>>) = {Entry(k, c)}
    BY <1>2 DEF Within
<1>4. Orderly(<<Entry(k, c)>>)
    BY <1>1, <1>2, EntryIs DEF Orderly, Distinct
<1> QED BY <1>3, <1>4

\* What making a transport schedules: connection_made, the reader and, without
\* TLS, the waiter.
LEMMA NewEntries ==
    ASSUME NEW c \in Conn, NEW tls \in BOOLEAN
    PROVE  /\ Orderly(Scheduled(c, tls))
           /\ Within(Scheduled(c, tls)) =
                  {Entry("made", c), Entry("register", c)}
                      \cup (IF tls THEN {} ELSE {Entry("waiter", c)})
<1> USE DEF Kinds
<1> DEFINE p == <<Entry("made", c), Entry("register", c)>>
           w == <<Entry("waiter", c)>>
<1>1. Orderly(w) /\ Within(w) = {Entry("waiter", c)}
    BY OneEntry
<1>2. /\ p \in Seq(Ent) /\ Len(p) = 2 /\ 1..2 = {1, 2}
      /\ p[1] = Entry("made", c) /\ p[2] = Entry("register", c)
    BY EntryIs
<1>3. Orderly(p) /\ Within(p) = {Entry("made", c), Entry("register", c)}
    <2> HIDE DEF p
    <2>1. Within(p) = {p[i] : i \in {1, 2}}
        BY <1>2 DEF Within
    <2> QED BY <1>2, <2>1, EntryIs DEF Orderly, Distinct
<1>4. CASE tls
    <2>1. Scheduled(c, tls) = p
        BY <1>2, <1>4 DEF Scheduled
    <2> QED BY <1>3, <1>4, <2>1, Zenon
<1>5. CASE ~tls
    <2>1. Scheduled(c, tls) = p \o w
        BY <1>5 DEF Scheduled
    <2>2. Orderly(p \o w) /\ Within(p \o w) = Within(p) \cup Within(w)
        <3> HIDE DEF p, w
        <3> QED BY <1>1, <1>3, Push, EntryIs
    <2> QED BY <1>1, <1>3, <1>5, <2>1, <2>2
<1> QED BY <1>4, <1>5

\* What the protocol hears.
LEMMA CallsAre ==
    /\ <<>> # <<"made">> /\ <<>> # <<"made", "lost">> /\ <<"made">> # <<"made", "lost">>
    /\ Append(<<>>, "made") = <<"made">> /\ Append(<<"made">>, "lost") = <<"made", "lost">>
    /\ {<<>>, <<"made">>, <<"made", "lost">>} \subseteq Seq({"made", "lost"})
<1>1. Len(<<>>) = 0 /\ Len(<<"made">>) = 1 /\ Len(<<"made", "lost">>) = 2
    OBVIOUS
<1>2. Append(<<>>, "made") = <<"made">>
    OBVIOUS
<1>3. <<>> \in Seq({"made", "lost"}) /\ <<"made">> \in Seq({"made", "lost"})
    OBVIOUS
<1>4. <<"made", "lost">> \in Seq({"made", "lost"})
    OBVIOUS
<1>5. Append(<<"made">>, "lost") = <<"made", "lost">>
    <2> DEFINE s == Append(<<"made">>, "lost")
               t == <<"made", "lost">>
    <2>1. s \in Seq({"made", "lost"}) /\ Len(s) = 2 /\ s[1] = "made" /\ s[2] = "lost"
        OBVIOUS
    <2>2. t \in Seq({"made", "lost"}) /\ Len(t) = 2 /\ t[1] = "made" /\ t[2] = "lost"
        OBVIOUS
    <2>3. 1..2 = {1, 2}
        OBVIOUS
    <2> HIDE DEF s, t
    <2>4. s = [i \in 1..2 |-> s[i]] /\ t = [i \in 1..2 |-> t[i]]
        BY <2>1, <2>2
    <2>5. s = t
        BY <2>1, <2>2, <2>3, <2>4
    <2> QED BY <2>5 DEF s, t
<1> QED BY <1>1, <1>2, <1>3, <1>4, <1>5

\* What a step of Opening may do to a connection.
Moves ==
    \A c \in Conn :
        /\ tr'[c] = "none" <=> tr[c] = "none"
        /\ task'[c] = task[c] \/ (task[c] = "waiting" /\ task'[c] \in {"done", "failed"})
        /\ sock'[c] = sock[c] \/ (sock'[c] = "closed" /\ tr[c] # "none")
        /\ tr[c] \in Live => tr'[c] \in Live \/ sock'[c] = "closed"
        /\ tr[c] = "none" /\ c \in reader => c \in reader'

\* close() on the rest of the queue schedules connection_lost the first time.
LEMMA CloseQueue ==
    ASSUME NEW c \in Conn, NEW q, Orderly(q), close(c, q),
           tr[c] = "open" => Entry("lost", c) \notin Within(q)
    PROVE  /\ Orderly(ready')
           /\ Within(ready') = Within(q) \cup (IF tr[c] = "open" THEN {Entry("lost", c)} ELSE {})
<1>1. CASE tr[c] = "open"
    <2>1. Orderly(<<Entry("lost", c)>>) /\ Within(<<Entry("lost", c)>>) = {Entry("lost", c)}
        BY OneEntry DEF Kinds
    <2>2. ready' = q \o <<Entry("lost", c)>>
        BY <1>1 DEF close, FirstClose, LostScheduled
    <2> QED BY <1>1, <2>1, <2>2, Push, EntryIs
<1>2. CASE tr[c] # "open"
    BY <1>2 DEF close, FirstClose
<1> QED BY <1>1, <1>2

\* Nor does appending one entry disturb the order.
LEMMA AppendQueue ==
    ASSUME NEW k \in Kinds \ {"made"}, NEW c \in Conn, NEW q, Orderly(q),
           Entry(k, c) \notin Within(q)
    PROVE  /\ Orderly(Append(q, Entry(k, c)))
           /\ Within(Append(q, Entry(k, c))) = Within(q) \cup {Entry(k, c)}
<1>1. Orderly(<<Entry(k, c)>>) /\ Within(<<Entry(k, c)>>) = {Entry(k, c)}
    BY OneEntry
<1>2. Append(q, Entry(k, c)) = q \o <<Entry(k, c)>>
    <2>1. q \in Seq(Ent) /\ Entry(k, c) \in Ent
        BY EntryIs DEF Orderly
    <2> QED BY <2>1
<1> QED BY <1>1, <1>2, Push, EntryIs

\* The first entry of the queue.
LEMMA FirstIs ==
    ASSUME OpeningInv, NEW k, IsNext(k)
    PROVE  /\ First \in Conn /\ Queued(k, First) /\ Orderly(Rest)
           /\ Within(Rest) = Within(ready) \ {Entry(k, First)}
           /\ k = "lost" => ~Queued("made", First)
    BY Pop, EntryIs DEF OpeningInv, IsNext, First, Rest, Queued

\* The loop calls connection_made.
LEMMA MadeStep == ASSUME OpeningInv, connection_made, kind' = kind PROVE OpeningInv' /\ Moves
<1> DEFINE c == First
<1> USE DEF OpeningInv
<1>1. /\ c \in Conn /\ Queued("made", c) /\ Orderly(Rest)
      /\ Within(Rest) = Within(ready) \ {Entry("made", c)}
    BY FirstIs DEF connection_made
<1>2. /\ calls' = [calls EXCEPT ![c] = Append(@, "made")]
      /\ UNCHANGED <<sock, waiter, task, cancelling>>
      /\ close(c, Rest) \/ (ready' = Rest /\ UNCHANGED <<tr, reader>>)
    BY DEF connection_made
<1> HIDE DEF c
<1>3. calls[c] = <<>> /\ tr[c] \in Live
    BY <1>1 DEF QueueTells, Told, TypeOpening, Live
<1>4. /\ calls' \in [Conn -> {<<>>, <<"made">>, <<"made", "lost">>}] /\ calls'[c] = <<"made">>
      /\ \A d \in Conn \ {c} : calls'[d] = calls[d]
    BY <1>1, <1>2, <1>3, CallsAre DEF Told
<1>5. PICK new \in {{}, {Entry("lost", c)}} :
          /\ tr' = [tr EXCEPT ![c] = IF new = {} THEN @ ELSE "closing"]
          /\ new # {} => tr[c] = "open"
          /\ tr'[c] \notin {"none", "open"} => c \notin reader'
          /\ \A d \in Conn \ {c} : d \in reader' <=> d \in reader
          /\ reader' \subseteq reader
          /\ Orderly(ready') /\ Within(ready') = Within(Rest) \cup new
    <2>1. CASE close(c, Rest)
        <3>1. tr[c] = "open" => Entry("lost", c) \notin Within(Rest)
            BY <1>1, EntryIs DEF QueueTells, Queued
        <3>2. /\ Orderly(ready')
              /\ Within(ready') = Within(Rest) \cup (IF tr[c] = "open" THEN {Entry("lost", c)} ELSE {})
            BY <1>1, <2>1, <3>1, CloseQueue
        <3> QED BY <1>1, <2>1, <3>2, Zenon DEF close, TypeOpening
    <2>2. CASE ready' = Rest /\ UNCHANGED <<tr, reader>>
        BY <1>1, <1>3, <2>2 DEF TypeOpening, Owned, Live
    <2> QED BY <1>2, <2>1, <2>2
<1>6. TypeOpening'
    <2>1. ready' \in Seq([k : Kinds, c : Conn])
        BY <1>5 DEF Orderly, Ent
    <2>2. \A d \in Conn : calls'[d] \in Seq({"made", "lost"})
        BY <1>4, CallsAre, Zenon
    <2>3. tr' \in [Conn -> {"none", "open", "closing", "lost"}] /\ reader' \subseteq Conn
        BY <1>5, Zenon DEF TypeOpening
    <2> QED BY <1>2, <2>1, <2>2, <2>3 DEF TypeOpening
<1>7. tr'[c] = (IF new = {} THEN tr[c] ELSE "closing") /\ \A d \in Conn \ {c} : tr'[d] = tr[d]
    BY <1>1, <1>5 DEF TypeOpening
<1>8. QueueTells'
    BY <1>1, <1>2, <1>3, <1>4, <1>5, <1>7, EntryIs, CallsAre DEF QueueTells, Queued, Live
<1>9. Told'
    BY <1>3, <1>4, <1>5, <1>7, CallsAre DEF Told, Live
<1>10. Owned'
    BY <1>2, <1>5, <1>7 DEF Owned, Live
<1>11. Moves
    BY <1>2, <1>3, <1>5, <1>7 DEF Moves, Live
<1> QED BY <1>5, <1>6, <1>8, <1>9, <1>10, <1>11

\* The loop registers the reader of a transport.
LEMMA RegisterStep == ASSUME OpeningInv, register_reader, kind' = kind PROVE OpeningInv' /\ Moves
<1> DEFINE c == First
<1> USE DEF OpeningInv
<1>1. /\ c \in Conn /\ Queued("register", c) /\ Orderly(Rest)
      /\ Within(Rest) = Within(ready) \ {Entry("register", c)}
    BY FirstIs DEF register_reader
<1>2. /\ reader' = reader \/ (tr[c] = "open" /\ reader' = reader \cup {c})
      /\ ready' = Rest /\ UNCHANGED <<sock, tr, waiter, task, cancelling, calls>>
    BY DEF register_reader, Registers
<1> HIDE DEF c
<1>3. TypeOpening'
    <2>1. ready' \in Seq([k : Kinds, c : Conn])
        BY <1>1, <1>2 DEF Orderly, Ent
    <2> QED BY <1>1, <1>2, <2>1 DEF TypeOpening
<1>4. QueueTells'
    BY <1>1, <1>2, EntryIs DEF QueueTells, Queued
<1>5. Told' /\ Owned' /\ Moves
    BY <1>1, <1>2 DEF Told, Owned, Moves, Live
<1> QED BY <1>1, <1>2, <1>3, <1>4, <1>5

\* The waiter of connection c ends, in one way or another.
LEMMA WaiterEnds ==
    ASSUME OpeningInv, kind' = kind, NEW c \in Conn, NEW q, Orderly(q),
           waiter[c] \in {"pending", "handshake"},
           NEW e \in {"result", "error", "cancelled"}, waiter' = [waiter EXCEPT ![c] = e],
           Within(q) \subseteq Within(ready),
           \A d \in Conn : Entry("made", d) \in Within(q) <=> Queued("made", d),
           ready' = Append(q, Entry("resume", c)),
           UNCHANGED <<sock, tr, reader, task, cancelling, calls>>
    PROVE  OpeningInv' /\ Moves
<1> USE DEF OpeningInv
<1>1. Entry("resume", c) \notin Within(q)
    BY DEF QueueTells, Queued
<1>2. Orderly(ready') /\ Within(ready') = Within(q) \cup {Entry("resume", c)}
    BY <1>1, AppendQueue DEF Kinds
<1>3. waiter'[c] = e /\ (\A d \in Conn \ {c} : waiter'[d] = waiter[d])
    BY DEF TypeOpening
<1>4. TypeOpening'
    <2>1. ready' \in Seq([k : Kinds, c : Conn])
        BY <1>2, Zenon DEF Orderly, Ent
    <2> QED BY <2>1 DEF TypeOpening
<1>5. Told' /\ Owned' /\ Moves
    BY <1>3, Zenon DEF Told, Owned, Moves, Live
<1>6. QueueTells'
    BY <1>2, <1>3, EntryIs DEF QueueTells, Queued, Owned
<1> QED BY <1>2, <1>4, <1>5, <1>6

\* The loop sets the result of the waiter.
LEMMA WaiterStep == ASSUME OpeningInv, set_result, kind' = kind PROVE OpeningInv' /\ Moves
<1> DEFINE c == First
<1>1. /\ c \in Conn /\ Queued("waiter", c) /\ Orderly(Rest)
      /\ Within(Rest) = Within(ready) \ {Entry("waiter", c)}
    BY FirstIs DEF set_result
<1>2. UNCHANGED <<sock, tr, reader, task, cancelling, calls>>
    BY DEF set_result
<1>3. CASE waiter[c] = "pending"
    <2>1. /\ waiter' = [waiter EXCEPT ![c] = "result"]
          /\ ready' = Append(Rest, Entry("resume", c))
        BY <1>3 DEF set_result
    <2> HIDE DEF c
    <2>2. \A d \in Conn : Entry("made", d) \in Within(Rest) <=> Queued("made", d)
        BY <1>1, EntryIs DEF Queued
    <2>3. Within(Rest) \subseteq Within(ready)
        BY <1>1
    <2> QED BY <1>1, <1>2, <1>3, <2>1, <2>2, <2>3, WaiterEnds, Zenon
<1>4. CASE waiter[c] # "pending"
    <2>1. ready' = Rest /\ UNCHANGED waiter
        BY <1>4 DEF set_result
    <2> HIDE DEF c
    <2> USE DEF OpeningInv
    <2>2. TypeOpening'
        <3>1. ready' \in Seq([k : Kinds, c : Conn])
            BY <1>1, <2>1 DEF Orderly, Ent
        <3> QED BY <1>2, <2>1, <3>1 DEF TypeOpening
    <2>3. QueueTells'
        BY <1>1, <1>2, <2>1, EntryIs DEF QueueTells, Queued
    <2>4. Told' /\ Owned' /\ Moves
        BY <1>2, <2>1 DEF Told, Owned, Moves, Live
    <2> QED BY <1>1, <2>1, <2>2, <2>3, <2>4
<1> QED BY <1>3, <1>4

\* The TLS handshake ends, or the task that waits for it is cancelled.
LEMMA HandshakeStep ==
    ASSUME OpeningInv, NEW c \in Conn, Handshake(c) \/ CancelOpening(c), kind' = kind
    PROVE  OpeningInv' /\ Moves
<1>1. CASE waiter[c] \in {"pending", "handshake"}
    <2>1. PICK e \in {"result", "error", "cancelled"} :
              /\ waiter' = [waiter EXCEPT ![c] = e] /\ ready' = Append(ready, Entry("resume", c))
              /\ UNCHANGED <<sock, tr, reader, task, cancelling, calls>>
        BY <1>1 DEF Handshake, CancelOpening
    <2>2. Orderly(ready)
        BY Zenon DEF OpeningInv
    <2> QED BY <1>1, <2>1, <2>2, WaiterEnds, Zenon DEF Queued
<1>2. CASE waiter[c] \notin {"pending", "handshake"}
    <2>1. /\ cancelling' = cancelling \cup {c}
          /\ UNCHANGED <<waiter, ready, sock, tr, reader, task, calls>>
        BY <1>2 DEF Handshake, CancelOpening
    <2> QED BY <2>1, Zenon DEF OpeningInv, TypeOpening, QueueTells, Queued, Told, Owned, Moves, Live
<1> QED BY <1>1, <1>2

\* What close() does to a connection that is being opened.
LEMMA CloseDoes ==
    ASSUME OpeningInv, NEW c \in Conn, NEW q, Orderly(q), Within(q) \subseteq Within(ready),
           close(c, q)
    PROVE  \E new \in {{}, {Entry("lost", c)}} :
               /\ tr'[c] = (IF new = {} THEN tr[c] ELSE "closing")
               /\ \A d \in Conn \ {c} : tr'[d] = tr[d]
               /\ tr' \in [Conn -> {"none", "open", "closing", "lost"}]
               /\ new = {} <=> tr[c] # "open"
               /\ reader' = reader \ {c}
               /\ Orderly(ready') /\ Within(ready') = Within(q) \cup new
<1>1. tr[c] = "open" => Entry("lost", c) \notin Within(q)
    BY DEF OpeningInv, QueueTells, Queued
<1>2. /\ Orderly(ready')
      /\ Within(ready') = Within(q) \cup (IF tr[c] = "open" THEN {Entry("lost", c)} ELSE {})
    BY <1>1, CloseQueue
<1>3. /\ tr' = [tr EXCEPT ![c] = IF @ = "open" THEN "closing" ELSE @]
      /\ reader' = reader \ {c}
    BY DEF close
<1>4. tr \in [Conn -> {"none", "open", "closing", "lost"}]
    BY DEF OpeningInv, TypeOpening
<1>5. CASE tr[c] = "open"
    <2> WITNESS {Entry("lost", c)} \in {{}, {Entry("lost", c)}}
    <2> QED BY <1>2, <1>3, <1>4, <1>5
<1>6. CASE tr[c] # "open"
    <2> WITNESS {} \in {{}, {Entry("lost", c)}}
    <2> QED BY <1>2, <1>3, <1>4, <1>6
<1> QED BY <1>5, <1>6

\* A transport closes because its peer or its protocol ends the connection.
LEMMA HangupStep ==
    ASSUME OpeningInv, NEW c \in Conn, Hangup(c), kind' = kind PROVE OpeningInv' /\ Moves
<1> USE DEF OpeningInv
<1>1. tr[c] = "open" /\ close(c, ready) /\ UNCHANGED <<sock, waiter, task, cancelling, calls>>
    BY DEF Hangup
<1>2. /\ tr'[c] = "closing" /\ (\A d \in Conn \ {c} : tr'[d] = tr[d])
      /\ tr' \in [Conn -> {"none", "open", "closing", "lost"}]
      /\ reader' = reader \ {c}
      /\ Orderly(ready') /\ Within(ready') = Within(ready) \cup {Entry("lost", c)}
    BY <1>1, CloseDoes
<1>3. TypeOpening'
    <2>1. ready' \in Seq([k : Kinds, c : Conn])
        BY <1>2, Zenon DEF Orderly, Ent
    <2> QED BY <1>1, <1>2, <2>1, Zenon DEF TypeOpening
<1>4. QueueTells'
    BY <1>1, <1>2, EntryIs DEF QueueTells, Queued
<1>5. Told' /\ Owned' /\ Moves
    BY <1>1, <1>2 DEF Told, Owned, Moves, Live
<1> QED BY <1>2, <1>3, <1>4, <1>5

\* A task goes on after its waiter.
LEMMA ResumeStep == ASSUME OpeningInv, resume, kind' = kind PROVE OpeningInv' /\ Moves
<1> DEFINE c == First
<1> USE DEF OpeningInv
<1>1. /\ c \in Conn /\ Queued("resume", c) /\ Orderly(Rest)
      /\ Within(Rest) = Within(ready) \ {Entry("resume", c)}
    BY FirstIs DEF resume
<1>2. /\ cancelling' = cancelling \ {c} /\ waiter' = [waiter EXCEPT ![c] = "none"]
      /\ UNCHANGED <<sock, calls>>
      /\ \/ /\ task' = [task EXCEPT ![c] = "done"] /\ ready' = Rest /\ UNCHANGED <<tr, reader>>
         \/ task' = [task EXCEPT ![c] = "failed"] /\ close(c, Rest)
    BY DEF resume, Abandon
<1> HIDE DEF c
<1>3. task[c] = "waiting" /\ tr[c] # "none"
    BY <1>1 DEF QueueTells, Owned
<1>4. PICK new \in {{}, {Entry("lost", c)}} :
          /\ tr'[c] = (IF new = {} THEN tr[c] ELSE "closing")
          /\ \A d \in Conn \ {c} : tr'[d] = tr[d]
          /\ tr' \in [Conn -> {"none", "open", "closing", "lost"}]
          /\ new # {} => tr[c] = "open"
          /\ reader' \subseteq reader /\ (\A d \in Conn \ {c} : d \in reader => d \in reader')
          /\ tr'[c] = "open" => task' = [task EXCEPT ![c] = "done"]
          /\ tr'[c] # "open" => c \notin reader'
          /\ Orderly(ready') /\ Within(ready') = Within(Rest) \cup new
    <2>1. CASE task' = [task EXCEPT ![c] = "failed"] /\ close(c, Rest)
        <3>1. Within(Rest) \subseteq Within(ready)
            BY <1>1
        <3> QED BY <1>1, <2>1, <3>1, CloseDoes
    <2>2. CASE /\ task' = [task EXCEPT ![c] = "done"] /\ ready' = Rest
               /\ UNCHANGED <<tr, reader>>
        BY <1>1, <1>3, <2>2 DEF TypeOpening, Owned
    <2> QED BY <1>2, <2>1, <2>2
<1>5. /\ task'[c] \in {"done", "failed"} /\ (\A d \in Conn \ {c} : task'[d] = task[d])
      /\ task' \in [Conn -> {"none", "new", "waiting", "done", "failed"}]
      /\ waiter'[c] = "none" /\ (\A d \in Conn \ {c} : waiter'[d] = waiter[d])
      /\ tr'[c] = "open" => task'[c] = "done"
    BY <1>1, <1>2, <1>4, Zenon DEF TypeOpening
<1>6. TypeOpening'
    <2>1. ready' \in Seq([k : Kinds, c : Conn])
        BY <1>4, Zenon DEF Orderly, Ent
    <2> QED BY <1>2, <1>4, <1>5, <2>1, Zenon DEF TypeOpening
<1>7. QueueTells'
    BY <1>1, <1>2, <1>3, <1>4, <1>5, EntryIs DEF QueueTells, Queued
<1>8. Told' /\ Moves
    BY <1>2, <1>3, <1>4, <1>5 DEF Told, Moves, Live
<1>9. Owned'
    BY <1>2, <1>3, <1>4, <1>5 DEF Owned, Live
<1> QED BY <1>4, <1>6, <1>7, <1>8, <1>9

\* The loop calls connection_lost.
LEMMA LostStep == ASSUME OpeningInv, connection_lost, kind' = kind PROVE OpeningInv' /\ Moves
<1> DEFINE c == First
<1> USE DEF OpeningInv
<1>1. /\ c \in Conn /\ Queued("lost", c) /\ Orderly(Rest) /\ ~Queued("made", c)
      /\ Within(Rest) = Within(ready) \ {Entry("lost", c)}
    BY FirstIs DEF connection_lost
<1>2. /\ calls' = [calls EXCEPT ![c] = Append(@, "lost")] /\ sock' = [sock EXCEPT ![c] = "closed"]
      /\ tr' = [tr EXCEPT ![c] = "lost"] /\ ready' = Rest
      /\ UNCHANGED <<reader, waiter, task, cancelling>>
    BY Zenon DEF connection_lost
<1> HIDE DEF c
<1>3. tr[c] = "closing" /\ calls[c] = <<"made">> /\ c \notin reader
    BY <1>1, CallsAre DEF QueueTells, Told, Owned
<1>4. /\ calls' \in [Conn -> {<<>>, <<"made">>, <<"made", "lost">>}]
      /\ calls'[c] = <<"made", "lost">> /\ (\A d \in Conn \ {c} : calls'[d] = calls[d])
    BY <1>1, <1>2, <1>3, CallsAre DEF Told
<1>5. /\ tr'[c] = "lost" /\ (\A d \in Conn \ {c} : tr'[d] = tr[d])
      /\ sock'[c] = "closed" /\ (\A d \in Conn \ {c} : sock'[d] = sock[d])
      /\ tr' \in [Conn -> {"none", "open", "closing", "lost"}] /\ sock' \in [Conn -> SockState]
    BY <1>1, <1>2 DEF TypeOpening, SockState
<1>6. TypeOpening'
    <2>1. ready' \in Seq([k : Kinds, c : Conn])
        BY <1>1, <1>2 DEF Orderly, Ent
    <2>2. \A d \in Conn : calls'[d] \in Seq({"made", "lost"})
        BY <1>4, CallsAre, Zenon
    <2> QED BY <1>2, <1>5, <2>1, <2>2, Zenon DEF TypeOpening
<1>7. QueueTells'
    <2>1. \A k \in Kinds, d \in Conn : Queued(k, d)' => Queued(k, d) /\ (k # "lost" \/ d # c)
        BY <1>1, <1>2, Zenon DEF Queued
    <2>2. \A d \in Conn : Queued("made", d) => Queued("made", d)'
        BY <1>1, <1>2, OtherEntry, Zenon DEF Queued
    <2>3. calls'[c] # <<>> /\ ~Queued("made", c)
        BY <1>1, <1>4, CallsAre
    <2> QED BY <1>2, <1>3, <1>4, <1>5, <2>1, <2>2, <2>3 DEF QueueTells, Kinds
<1>8. Told'
    BY <1>3, <1>4, <1>5, CallsAre, Zenon DEF Told, Live
<1>9. Owned' /\ Moves
    BY <1>2, <1>3, <1>5 DEF Owned, Moves, Live
<1> QED BY <1>1, <1>2, <1>6, <1>7, <1>8, <1>9

\* Every step of Opening keeps the invariant.
OpeningStep ==
    \/ Callback \/ connection_lost
    \/ \E c \in Conn : Handshake(c) \/ CancelOpening(c) \/ Hangup(c)

\* Every step of the opening keeps its invariant.
LEMMA OpeningStepKeeps ==
    ASSUME OpeningInv, OpeningStep, kind' = kind PROVE OpeningInv' /\ Moves
    BY MadeStep, RegisterStep, WaiterStep, ResumeStep, LostStep, HandshakeStep, HangupStep
    DEF OpeningStep, Callback

\* A transport is made on a socket whose coroutine has none yet.
LEMMA MakeKeeps ==
    ASSUME OpeningInv, NEW c \in Conn, NEW q, MakeTransport(c, q), kind' = kind,
           Orderly(q), Within(q) \subseteq Within(ready), tr[c] = "none",
           Entry("step", c) \notin Within(q), task[c] # "waiting",
           \A d \in Conn : Entry("made", d) \in Within(q) <=> Queued("made", d),
           sock' = [sock EXCEPT ![c] = "open"]
    PROVE  OpeningInv'
<1> USE DEF OpeningInv
<1>1. PICK tls \in BOOLEAN :
          /\ tr' = [tr EXCEPT ![c] = "open"]
          /\ waiter' = [waiter EXCEPT ![c] = IF tls THEN "handshake" ELSE "pending"]
          /\ task' = [task EXCEPT ![c] = "waiting"]
          /\ ready' = q \o Scheduled(c, tls)
          /\ UNCHANGED <<reader, cancelling, calls>>
    BY Zenon DEF MakeTransport
<1> DEFINE new == {Entry("made", c), Entry("register", c)}
                      \cup (IF tls THEN {} ELSE {Entry("waiter", c)})
<1>2. Orderly(Scheduled(c, tls)) /\ Within(Scheduled(c, tls)) = new
    BY NewEntries, Zenon
<1>3. calls[c] = <<>> /\ \A k \in {"made", "register", "waiter", "lost", "resume"} :
          Entry(k, c) \notin Within(q)
    BY CallsAre DEF QueueTells, Queued, Told, Live
<1>4. Orderly(ready') /\ Within(ready') = Within(q) \cup new
    <2>1. Within(q) \cap new = {}
        BY <1>3, Zenon
    <2>2. \A e \in new, f \in Within(q) : ~(e.k = "made" /\ f.k = "lost" /\ e.c = f.c)
        <3> SUFFICES ASSUME NEW e \in new, NEW f \in Within(q),
                            e.k = "made", f.k = "lost", e.c = f.c
                     PROVE  FALSE
            BY Zenon
        <3>1. e.c = c
            BY EntryIs
        <3>2. f \in Ent
            BY WithinEnt, Zenon
        <3>3. f = Entry(f.k, f.c)
            BY <3>2, EntryIs, Zenon
        <3>4. f = Entry("lost", c)
            BY <3>1, <3>3
        <3> QED BY <1>3, <3>4, Zenon
    <2> HIDE DEF new
    <2> QED BY <1>1, <1>2, <2>1, <2>2, Push, Zenon
<1>5. /\ tr'[c] = "open" /\ (\A d \in Conn \ {c} : tr'[d] = tr[d])
      /\ tr' \in [Conn -> {"none", "open", "closing", "lost"}]
      /\ task'[c] = "waiting" /\ (\A d \in Conn \ {c} : task'[d] = task[d])
      /\ task' \in [Conn -> {"none", "new", "waiting", "done", "failed"}]
      /\ waiter'[c] \in {"pending", "handshake"} /\ (\A d \in Conn \ {c} : waiter'[d] = waiter[d])
      /\ sock'[c] = "open" /\ (\A d \in Conn \ {c} : sock'[d] = sock[d])
    BY <1>1, Zenon DEF TypeOpening
<1>6. TypeOpening'
    <2>1. ready' \in Seq([k : Kinds, c : Conn])
        BY <1>4 DEF Orderly, Ent
    <2>2. /\ waiter' \in [Conn -> {"none", "pending", "handshake", "result", "error", "cancelled"}]
          /\ sock' \in [Conn -> SockState]
        BY <1>1 DEF TypeOpening, SockState
    <2> QED BY <1>1, <1>5, <2>1, <2>2, Zenon DEF TypeOpening
<1>7. QueueTells'
    <2>1. ASSUME NEW d \in Conn \ {c}, NEW k \in Kinds
          PROVE  Queued(k, d)' <=> Entry(k, d) \in Within(q)
        BY <1>4, EntryIs DEF Queued
    <2>2. ASSUME NEW k \in Kinds
          PROVE  Queued(k, c)' => k \in {"made", "register", "waiter"}
        BY <1>3, <1>4, EntryIs DEF Queued, Kinds
    <2>3. Queued("made", c)'
        BY <1>4 DEF Queued
    <2> HIDE DEF new
    <2>4. ASSUME NEW d \in Conn \ {c}
          PROVE  /\ Queued("step", d)' => task'[d] = "new"
                 /\ Queued("made", d)' <=> tr'[d] # "none" /\ calls'[d] = <<>>
                 /\ Queued("register", d)' \/ Queued("waiter", d)' => tr'[d] # "none"
                 /\ Queued("lost", d)' => tr'[d] = "closing"
                 /\ Queued("resume", d)' => /\ task'[d] = "waiting"
                                            /\ waiter'[d] \in {"result", "error", "cancelled"}
        BY <1>1, <1>5, <2>1, Zenon DEF QueueTells, Queued, Kinds
    <2>5. /\ ~Queued("step", c)' /\ ~Queued("lost", c)' /\ ~Queued("resume", c)'
          /\ tr'[c] # "none" /\ calls'[c] = <<>>
        BY <1>1, <1>3, <1>5, <2>2, Zenon DEF Kinds
    <2> QED BY <2>3, <2>4, <2>5, Zenon DEF QueueTells
<1>8. Told'
    BY <1>1, <1>3, <1>5, CallsAre, Zenon DEF Told, Live
<1>9. Owned'
    BY <1>1, <1>5 DEF Owned, Live
<1> QED BY <1>4, <1>6, <1>7, <1>8, <1>9

\* Steps that leave the transports alone; tasks may begin or fail, sockets
\* without a transport and without a reader may change.
LEMMA NoTransport ==
    ASSUME OpeningInv, kind' = kind, UNCHANGED <<tr, reader, waiter, calls, ready>>,
           cancelling' \subseteq Conn, sock' \in [Conn -> SockState],
           task' \in [Conn -> {"none", "new", "waiting", "done", "failed"}],
           \A c \in Conn : /\ task'[c] = task[c] \/ (/\ task[c] = "none" /\ tr[c] = "none"
                                                     /\ task'[c] = "failed")
                           /\ tr[c] \in Live \/ c \in reader => sock'[c] = sock[c]
    PROVE  OpeningInv'
    BY DEF OpeningInv, TypeOpening, QueueTells, Queued, Told, Owned, Live
=============================================================================
