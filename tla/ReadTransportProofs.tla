------------------------ MODULE ReadTransportProofs ------------------------
(***************************************************************************)
(* The read side of a transport loses nothing and implements ByteStream,   *)
(* for any number of chunks, any quantum and any depth of calls.           *)
(***************************************************************************)
EXTENDS ReadTransport, SequenceTheorems, TLAPS

\* What a completion is.
Item == Chunk \cup {Eof, Err, Ready}

\* An exception of error_received has no resume_reading to end.
Contained == Escaping => "datagram" \notin Initial

\* The chunks in q are lo + 1, ..., hi, each once and in order.
Carries(q, lo, hi) ==
    /\ \A i, j \in DOMAIN q :
           i < j /\ q[i] \in Chunk /\ q[j] \in Chunk => q[i] < q[j]
    /\ \A i \in DOMAIN q : q[i] \in Chunk => q[i] \in lo + 1 .. hi
    /\ \A n \in lo + 1 .. hi : \E i \in DOMAIN q : q[i] = n

\* Behind an end in q there is no chunk.
EndsIn(q) ==
    \A i, j \in DOMAIN q : i < j /\ q[i] = Eof => q[j] \notin Chunk

Queue == replay \o io

\* The protocol has the first chunks, the kernel the last ones, ...
Ends ==
    /\ \A i \in DOMAIN got : got[i] = i
    /\ Len(got) + Len(rcv) <= sent
    /\ \A i \in DOMAIN rcv : rcv[i] = sent - Len(rcv) + i

\* ... and what is between them is in the queue, the end behind it.
Between ==
    ~closing =>
        /\ Carries(Queue, Len(got), sent - Len(rcv))
        /\ EndsIn(Queue)
        /\ Eof \in Range(Queue) => fin /\ rcv = <<>>

\* A callback-mode completion is the last one, and its reader is registered.
LastReady(q) ==
    \A i \in DOMAIN q : q[i] = Ready => i = Len(q) /\ watch = "callback"

ReadyLast == LastReady(io)

\* A callback-mode reader is registered only while the transport reads.
Watched == watch = "callback" => ~closing /\ ~paused /\ proto = "buffered"

\* What was stashed in a pause is delivered before anything else.
Replays ==
    ~closing /\ replay # <<>> => paused \/ "flush" \in Range(stack)

\* Only a datagram protocol is told of errors.
Errors ==
    /\ Datagram => "datagram" \in Initial
    /\ "error" \in Range(stack) => Datagram

Control == TypeOK /\ ReadyLast /\ Watched /\ Replays /\ Errors

ReadInv == Control /\ Ends /\ Between

-----------------------------------------------------------------------------
(* Sequences of completions.                                               *)

\* The order in which three sequences are joined makes no difference.
Grouped(s, t, u) == (s \o t) \o u = s \o (t \o u)

\* So it is for the items of the queues.
LEMMA Regroup == \A s, t, u \in Seq(Item) : Grouped(s, t, u)
<1> SUFFICES ASSUME NEW s \in Seq(Item), NEW t \in Seq(Item), NEW u \in Seq(Item)
             PROVE  (s \o t) \o u = s \o (t \o u)
    BY Zenon DEF Grouped
<1> QED BY ConcatAssociative, SMTT(30)

\* The end, the error and the readiness mark are no chunks.
LEMMA NotChunks ==
    /\ Chunk \subseteq Nat
    /\ Eof \notin Chunk /\ Err \notin Chunk /\ Ready \notin Chunk
    /\ Eof # Err /\ Err # Ready /\ Ready # Eof
    BY TransportConstants DEF Chunk

\* A queue and what is appended to it.
LEMMA CarriesBoth ==
    ASSUME NEW q \in Seq(Item), NEW r \in Seq(Item),
           NEW lo \in Nat, NEW mid \in Nat, NEW hi \in Nat, lo <= mid, mid <= hi,
           Carries(q, lo, mid), Carries(r, mid, hi)
    PROVE  Carries(q \o r, lo, hi)
<1> DEFINE s == q \o r
<1>1. /\ s \in Seq(Item) /\ Len(s) = Len(q) + Len(r)
      /\ Len(q) \in Nat /\ Len(r) \in Nat
      /\ \A i \in 1..Len(s) :
            s[i] = IF i <= Len(q) THEN q[i] ELSE r[i - Len(q)]
    OBVIOUS
<1>2. DOMAIN s = 1..Len(s) /\ DOMAIN q = 1..Len(q) /\ DOMAIN r = 1..Len(r)
    BY <1>1
<1>3. Chunk \subseteq Nat
    BY TransportConstants DEF Chunk
<1> HIDE DEF s
<1>4. ASSUME NEW i \in DOMAIN s, s[i] \in Chunk PROVE s[i] \in lo + 1 .. hi
  <2>1. CASE i <= Len(q)
    <3>1. i \in DOMAIN q /\ s[i] = q[i]
        BY <2>1, <1>1, <1>2
    <3> QED BY <3>1, <1>4 DEF Carries
  <2>2. CASE i > Len(q)
    <3>1. i - Len(q) \in DOMAIN r /\ s[i] = r[i - Len(q)]
        BY <2>2, <1>1, <1>2
    <3> QED BY <3>1, <1>4 DEF Carries
  <2> QED BY <2>1, <2>2, <1>1, <1>2
<1>5. ASSUME NEW i \in DOMAIN s, NEW j \in DOMAIN s, i < j, s[i] \in Chunk,
             s[j] \in Chunk
      PROVE  s[i] < s[j]
  <2>1. CASE j <= Len(q)
      BY <2>1, <1>1, <1>2, <1>5 DEF Carries
  <2>2. CASE i <= Len(q) /\ j > Len(q)
    <3>1. /\ i \in DOMAIN q /\ s[i] = q[i]
          /\ j - Len(q) \in DOMAIN r /\ s[j] = r[j - Len(q)]
        BY <2>2, <1>1, <1>2
    <3>2. s[i] \in lo + 1 .. mid /\ s[j] \in mid + 1 .. hi
        BY <3>1, <1>5 DEF Carries
    <3> QED BY <3>2
  <2>3. CASE i > Len(q)
    <3>1. /\ i - Len(q) \in DOMAIN r /\ s[i] = r[i - Len(q)]
          /\ j - Len(q) \in DOMAIN r /\ s[j] = r[j - Len(q)]
          /\ i - Len(q) < j - Len(q)
        BY <2>3, <1>1, <1>2, <1>5
    <3> QED BY <3>1, <1>5 DEF Carries
  <2> QED BY <2>1, <2>2, <2>3, <1>1, <1>2
<1>6. ASSUME NEW n \in lo + 1 .. hi PROVE \E i \in DOMAIN s : s[i] = n
  <2>1. CASE n <= mid
    <3>1. PICK i \in DOMAIN q : q[i] = n
        BY <2>1 DEF Carries
    <3>2. i \in DOMAIN s /\ s[i] = n
        BY <3>1, <1>1, <1>2
    <3> QED BY <3>2
  <2>2. CASE n > mid
    <3>1. PICK i \in DOMAIN r : r[i] = n
        BY <2>2 DEF Carries
    <3>2. i + Len(q) \in DOMAIN s /\ s[i + Len(q)] = n
        BY <3>1, <1>1, <1>2
    <3> QED BY <3>2
  <2> QED BY <2>1, <2>2
<1> QED BY <1>4, <1>5, <1>6, Zenon DEF Carries, s

\* The head of a queue is the chunk that comes next; at an end none is left.
LEMMA CarriesTail ==
    ASSUME NEW q \in Seq(Item), q # <<>>, NEW lo \in Nat, NEW hi \in Nat, lo <= hi,
           hi <= MaxSent, Carries(q, lo, hi), EndsIn(q)
    PROVE  /\ Tail(q) \in Seq(Item)
           /\ EndsIn(Tail(q))
           /\ Head(q) \in Chunk =>
                  Head(q) = lo + 1 /\ lo < hi /\ Carries(Tail(q), lo + 1, hi)
           /\ Head(q) \notin Chunk => Carries(Tail(q), lo, hi)
           /\ Head(q) = Eof => lo = hi
           /\ Eof \in Range(Tail(q)) => Eof \in Range(q)
<1> DEFINE t == Tail(q)
<1>1. /\ t \in Seq(Item) /\ Len(t) = Len(q) - 1 /\ Len(q) > 0
      /\ \A i \in 1..Len(t) : t[i] = q[i + 1]
      /\ Head(q) = q[1]
    OBVIOUS
<1>2. DOMAIN t = 1..Len(t) /\ DOMAIN q = 1..Len(q)
    BY <1>1
<1>3. Chunk \subseteq Nat /\ Eof \notin Chunk
    BY TransportConstants DEF Chunk
<1> HIDE DEF t
<1>4. \A i \in DOMAIN t : i + 1 \in DOMAIN q /\ t[i] = q[i + 1]
    BY <1>1, <1>2
<1>5. \A i, j \in DOMAIN t :
           i < j /\ t[i] \in Chunk /\ t[j] \in Chunk => t[i] < t[j]
    BY <1>2, <1>4 DEF Carries
<1>6. EndsIn(t)
    BY <1>2, <1>4 DEF EndsIn
<1>7. Eof \in Range(t) => Eof \in Range(q)
    BY <1>4 DEF Range
<1>8. \A i \in DOMAIN q : i = 1 \/ (i - 1 \in DOMAIN t /\ t[i - 1] = q[i])
    BY <1>1, <1>2
<1>9. ASSUME Head(q) \in Chunk
      PROVE  Head(q) = lo + 1 /\ lo < hi /\ Carries(t, lo + 1, hi)
  <2>1. 1 \in DOMAIN q /\ q[1] \in lo + 1 .. hi
      BY <1>1, <1>2, <1>9 DEF Carries
  <2>2. PICK i \in DOMAIN q : q[i] = lo + 1
      BY <2>1 DEF Carries
  <2>3. q[1] = lo + 1
    <3>1. CASE i = 1
        BY <3>1, <2>2
    <3>2. CASE i # 1
      <4>1. q[i] \in Chunk /\ 1 < i
          BY <3>2, <1>2, <2>1, <2>2, TransportConstants DEF Chunk
      <4>2. q[1] < q[i]
          BY <4>1, <1>1, <1>9, <2>1, Zenon DEF Carries
      <4> QED BY <4>2, <2>1, <2>2
    <3> QED BY <3>1, <3>2
  <2>4. ASSUME NEW j \in DOMAIN t, t[j] \in Chunk PROVE t[j] \in lo + 2 .. hi
    <3>1. j + 1 \in DOMAIN q /\ 1 < j + 1 /\ t[j] = q[j + 1]
        BY <1>2, <1>4
    <3>2. q[1] < q[j + 1] /\ q[j + 1] \in lo + 1 .. hi
        BY <3>1, <2>1, <2>4, <1>1, <1>9, Zenon DEF Carries
    <3> QED BY <3>1, <3>2, <2>3
  <2>5. ASSUME NEW n \in lo + 2 .. hi PROVE \E j \in DOMAIN t : t[j] = n
    <3>1. PICK j \in DOMAIN q : q[j] = n
        BY DEF Carries
    <3>2. j # 1
        BY <3>1, <2>3
    <3> QED BY <3>1, <3>2, <1>8
  <2> QED BY <2>1, <2>3, <2>4, <2>5, <1>1, <1>5 DEF Carries
<1>10. ASSUME Head(q) \notin Chunk PROVE Carries(t, lo, hi)
  <2>1. \A i \in DOMAIN t : t[i] \in Chunk => t[i] \in lo + 1 .. hi
      BY <1>4 DEF Carries
  <2>2. ASSUME NEW n \in lo + 1 .. hi PROVE \E j \in DOMAIN t : t[j] = n
    <3>1. PICK j \in DOMAIN q : q[j] = n
        BY DEF Carries
    <3>2. CASE j = 1
        BY <3>1, <3>2, <1>1, <1>10, TransportConstants DEF Chunk
    <3>3. CASE j # 1
        BY <3>1, <3>3, <1>8
    <3> QED BY <3>2, <3>3
  <2> QED BY <2>1, <2>2, <1>5 DEF Carries
<1>11. ASSUME Head(q) = Eof, lo < hi PROVE FALSE
  <2>1. PICK i \in DOMAIN q : q[i] = lo + 1
      BY <1>11 DEF Carries
  <2>2. q[i] \in Chunk
      BY <2>1, <1>11, TransportConstants DEF Chunk
  <2>3. 1 \in DOMAIN q /\ 1 < i
      BY <2>2, <1>1, <1>2, <1>3, <1>11
  <2> QED BY <2>2, <2>3, <1>1, <1>11 DEF EndsIn
<1> QED BY <1>1, <1>6, <1>7, <1>9, <1>10, <1>11 DEF t

\* A completion without a chunk changes nothing in what a queue carries.
LEMMA CarriesAppend ==
    ASSUME NEW q \in Seq(Item), NEW x \in {Eof, Err, Ready},
           NEW lo \in Nat, NEW hi \in Nat, hi <= MaxSent
    PROVE  /\ Carries(Append(q, x), lo, hi) <=> Carries(q, lo, hi)
           /\ EndsIn(Append(q, x)) <=> EndsIn(q)
<1> DEFINE s == Append(q, x)
<1>1. /\ s \in Seq(Item) /\ Len(s) = Len(q) + 1 /\ Len(q) \in Nat
      /\ \A i \in 1..Len(q) : s[i] = q[i]
      /\ s[Len(q) + 1] = x
    BY DEF Item
<1>2. DOMAIN s = 1..Len(q) + 1 /\ DOMAIN q = 1..Len(q)
    BY <1>1
<1>3. x \notin Chunk /\ \A n \in lo + 1 .. hi : x # n
  <2>1. x \notin Nat
      BY TransportConstants
  <2> QED BY <2>1, TransportConstants DEF Chunk
<1> HIDE DEF s
<1>4. \A i \in DOMAIN q : i \in DOMAIN s /\ s[i] = q[i]
    BY <1>1, <1>2
<1>5. \A i \in DOMAIN s : i \in DOMAIN q \/ s[i] = x
    BY <1>1, <1>2
<1>6. Carries(s, lo, hi) => Carries(q, lo, hi)
    BY <1>3, <1>4, <1>5 DEF Carries
<1>7. Carries(q, lo, hi) => Carries(s, lo, hi)
    BY <1>3, <1>4, <1>5 DEF Carries
<1>8. EndsIn(s) => EndsIn(q)
    BY <1>4 DEF EndsIn
<1>9. EndsIn(q) => EndsIn(s)
  <2>1. SUFFICES ASSUME EndsIn(q), NEW i \in DOMAIN s, NEW j \in DOMAIN s, i < j,
                        s[i] = Eof, s[j] \in Chunk
                 PROVE  FALSE
      BY DEF EndsIn
  <2>2. j \in DOMAIN q /\ i \in DOMAIN q
      BY <2>1, <1>2, <1>3, <1>5
  <2> QED BY <2>1, <2>2, <1>4 DEF EndsIn
<1> QED BY <1>6, <1>7, <1>8, <1>9 DEF s

\* No chunk follows an end across the joint of two queues.
LEMMA EndsBoth ==
    ASSUME NEW q \in Seq(Item), NEW r \in Seq(Item), EndsIn(q), EndsIn(r),
           Eof \in Range(q) => \A j \in DOMAIN r : r[j] \notin Chunk
    PROVE  EndsIn(q \o r)
<1> DEFINE s == q \o r
<1>1. /\ s \in Seq(Item) /\ Len(s) = Len(q) + Len(r)
      /\ Len(q) \in Nat /\ Len(r) \in Nat
      /\ \A i \in 1..Len(s) :
            s[i] = IF i <= Len(q) THEN q[i] ELSE r[i - Len(q)]
    OBVIOUS
<1>2. DOMAIN s = 1..Len(s) /\ DOMAIN q = 1..Len(q) /\ DOMAIN r = 1..Len(r)
    BY <1>1
<1> HIDE DEF s
<1>3. SUFFICES ASSUME NEW i \in DOMAIN s, NEW j \in DOMAIN s, i < j, s[i] = Eof
               PROVE  s[j] \notin Chunk
    BY DEF EndsIn, s
<1>4. CASE j <= Len(q)
    BY <1>4, <1>1, <1>2, <1>3 DEF EndsIn
<1>5. CASE i <= Len(q) /\ j > Len(q)
  <2>1. Eof \in Range(q) /\ j - Len(q) \in DOMAIN r /\ s[j] = r[j - Len(q)]
      BY <1>5, <1>1, <1>2, <1>3 DEF Range
  <2> QED BY <2>1
<1>6. CASE i > Len(q)
  <2>1. /\ i - Len(q) \in DOMAIN r /\ s[i] = r[i - Len(q)]
        /\ j - Len(q) \in DOMAIN r /\ s[j] = r[j - Len(q)]
        /\ i - Len(q) < j - Len(q)
      BY <1>6, <1>1, <1>2, <1>3
  <2> QED BY <2>1, <1>3, Zenon DEF EndsIn
<1> QED BY <1>4, <1>5, <1>6, <1>1, <1>2

\* Surviving drops a completion without data that is last in its queue.
LEMMA SurvivingIs ==
    ASSUME NEW q \in Seq(Item), \A i \in DOMAIN q : q[i] = Ready => i = Len(q)
    PROVE  /\ Surviving(q) \in Seq(Item)
           /\ \A i \in DOMAIN Surviving(q) : Surviving(q)[i] # Ready
           /\ Surviving(q) = q \/ q = Append(Surviving(q), Ready)
<1>1. Len(q) \in Nat /\ DOMAIN q = 1..Len(q)
    OBVIOUS
<1>2. CASE q = <<>> \/ q[Len(q)] # Ready
  <2>1. Surviving(q) = q
      BY <1>2 DEF Surviving
  <2>2. ASSUME NEW i \in DOMAIN q, q[i] = Ready PROVE FALSE
    <3>1. i = Len(q) /\ q # <<>>
        BY <2>2, <1>1
    <3> QED BY <3>1, <2>2, <1>2
  <2> QED BY <2>1, <2>2
<1>3. CASE q # <<>> /\ q[Len(q)] = Ready
  <2> DEFINE u == SubSeq(q, 1, Len(q) - 1)
  <2>1. /\ u \in Seq(Item) /\ Len(u) = Len(q) - 1 /\ Len(q) > 0
        /\ \A i \in 1..Len(q) - 1 : u[i] = q[i]
      BY <1>1, <1>3
  <2>2. Surviving(q) = u
      BY <1>3 DEF Surviving
  <2> HIDE DEF u
  <2>3. q = Append(u, Ready)
    <3> DEFINE s == Append(u, Ready)
    <3>1. /\ s \in Seq(Item) /\ Len(s) = Len(q) /\ s[Len(q)] = Ready
          /\ \A i \in 1..Len(q) - 1 : s[i] = q[i]
        BY <2>1, <1>1 DEF Item
    <3> HIDE DEF s
    <3>2. \A i \in 1..Len(s) : s[i] = q[i]
        BY <3>1, <1>1, <1>3
    <3> QED BY <3>1, <3>2, SeqEqual DEF s
  <2>4. \A i \in DOMAIN u : u[i] # Ready
      BY <2>1, <1>1
  <2> QED BY <2>1, <2>2, <2>3, <2>4
<1> QED BY <1>2, <1>3

-----------------------------------------------------------------------------
(* The control of the transport.                                           *)

\* The stack with one frame more, and with one less.
LEMMA Pushed ==
    ASSUME NEW s \in Seq(Frame), NEW f \in Frame
    PROVE  <<f>> \o s \in Seq(Frame) /\ Range(<<f>> \o s) = {f} \cup Range(s)
<1>1. <<f>> \in Seq(Frame) /\ Range(<<f>>) = {f}
    BY DEF Range
<1>2. <<f>> \o s \in Seq(Frame)
    OBVIOUS
<1>3. \A t \in Seq(Frame) : Range(t \o s) = Range(t) \cup Range(s)
    BY RangeConcatenation, ZenonT(30)
<1> QED BY <1>1, <1>2, <1>3, Zenon

\* The innermost frame returns.
LEMMA Returned ==
    ASSUME NEW s \in Seq(Frame), s # <<>>
    PROVE  /\ Tail(s) \in Seq(Frame) /\ Head(s) \in Frame
           /\ Range(s) = {Head(s)} \cup Range(Tail(s))
<1>1. /\ Tail(s) \in Seq(Frame) /\ Head(s) \in Frame /\ Len(s) \in Nat
      /\ Len(Tail(s)) = Len(s) - 1 /\ Head(s) = s[1] /\ Len(s) > 0
      /\ \A i \in 1..Len(Tail(s)) : Tail(s)[i] = s[i + 1]
      /\ DOMAIN s = 1..Len(s) /\ DOMAIN Tail(s) = 1..Len(s) - 1
    OBVIOUS
<1>2. \A i \in DOMAIN s : i = 1 \/ (i - 1 \in DOMAIN Tail(s) /\ Tail(s)[i - 1] = s[i])
    BY <1>1
<1>3. \A i \in DOMAIN Tail(s) : i + 1 \in DOMAIN s /\ Tail(s)[i] = s[i + 1]
    BY <1>1
<1>4. 1 \in DOMAIN s
    BY <1>1
<1>5. ASSUME NEW x \in Range(s) PROVE x \in {Head(s)} \cup Range(Tail(s))
  <2>1. PICK i \in DOMAIN s : x = s[i]
      BY Zenon DEF Range
  <2>2. CASE i = 1
      BY <2>1, <2>2, <1>1, Zenon
  <2>3. CASE i # 1
      BY <2>1, <2>3, <1>2, Zenon DEF Range
  <2> QED BY <2>2, <2>3, Zenon
<1>6. Head(s) \in Range(s)
    BY <1>1, <1>4, Zenon DEF Range
<1>7. ASSUME NEW x \in Range(Tail(s)) PROVE x \in Range(s)
    BY <1>3, Zenon DEF Range
<1> HIDE DEF Range
<1> QED BY <1>1, <1>5, <1>6, <1>7

\* The registered reader and its task.
TypeReader ==
    /\ io \in Seq(Item)
    /\ watch \in {"none", "drain", "callback"}
    /\ task \in {"none", "prime", "parked", "more", "eof"}
    /\ guard \in {"none", "fresh", "stale"}
    /\ flag \in BOOLEAN /\ edge \in BOOLEAN
    /\ (task # "none") = (watch = "drain")

\* Whatever becomes of the reader, the queue keeps all but a completion of
\* callback mode.
LEMMA ReaderStep ==
    ASSUME TypeReader, NEW q \in Seq(Item), LastReady(q), NEW kind \in Kind,
           Register(kind, q) \/ remove_reader(q) \/ KeepReader(q)
    PROVE  /\ TypeReader' /\ ReadyLast'
           /\ io' = q \/ q = Append(io', Ready)
<1> USE DEF TypeReader
<1>1. /\ Surviving(q) \in Seq(Item)
      /\ \A i \in DOMAIN Surviving(q) : Surviving(q)[i] # Ready
      /\ Surviving(q) = q \/ q = Append(Surviving(q), Ready)
    BY SurvivingIs DEF LastReady
<1>2. CASE Register(kind, q)
  <2>1. (Mode(kind) = "drain" /\ Readable) \in BOOLEAN
      OBVIOUS
  <2>2. Mode(kind) \in {"drain", "callback"}
      BY DEF Mode
  <2>3. TypeReader'
      BY <1>1, <1>2, <2>1, <2>2, Zenon DEF Register
  <2> QED BY <1>1, <1>2, <2>3 DEF Register, ReadyLast, LastReady
<1>3. CASE remove_reader(q)
    BY <1>1, <1>3, Zenon DEF remove_reader, ReadyLast, LastReady
<1>4. CASE KeepReader(q)
    BY <1>4 DEF KeepReader, tokio, ReadyLast, LastReady
<1> QED BY <1>2, <1>3, <1>4

\* The protocol, its stack and what it was given.
TypeProtocol ==
    /\ proto \in Kind /\ paused \in BOOLEAN /\ closing \in BOOLEAN
    /\ starting \in BOOLEAN
    /\ stack \in Seq(Frame)
    /\ got \in Seq(Chunk) /\ ended \in BOOLEAN /\ misrouted \in BOOLEAN

\* The kernel, the replay and the loop.
TypeOthers ==
    /\ rcv \in Seq(Chunk) /\ sent \in 0..MaxSent
    /\ fin \in BOOLEAN /\ err \in BOOLEAN
    /\ replay \in Seq(Chunk \cup {Eof, Err})
    /\ phase \in {"python", "io", "tasks"}

\* The type invariant in three parts.
LEMMA Types ==
    /\ TypeOK <=> TypeReader /\ TypeProtocol /\ TypeOthers
    /\ TypeOK' <=> TypeReader' /\ TypeProtocol' /\ TypeOthers'
    BY DEF TypeOK, TypeReader, TypeProtocol, TypeOthers, Item

\* A teardown removes the reader, if there is one.
LEMMA TeardownStep ==
    ASSUME TypeReader, TypeProtocol, Watched, NEW q \in Seq(Item), LastReady(q),
           Teardown(q)
    PROVE  /\ TypeReader' /\ ReadyLast' /\ Watched'
           /\ closing' = TRUE
           /\ UNCHANGED <<proto, paused, starting>>
<1>1. remove_reader(q) \/ KeepReader(q)
    BY DEF Teardown
<1>2. TypeReader' /\ ReadyLast'
    BY <1>1, ReaderStep DEF TypeProtocol
<1>3. CASE closing
    BY <1>2, <1>3 DEF Teardown, KeepReader, Watched
<1>4. CASE ~closing
    BY <1>2, <1>4 DEF Teardown, remove_reader, Watched
<1> QED BY <1>3, <1>4, Zenon

\* A delivery leaves the protocol's callback on the stack, or tears down.
LEMMA DeliverStep ==
    ASSUME TypeReader, TypeProtocol, Watched, NEW c, NEW rest \in Seq(Frame),
           NEW q \in Seq(Item), LastReady(q), Deliver(c, rest, q),
           "error" \in Range(rest) => Datagram
    PROVE  /\ TypeReader' /\ TypeProtocol' /\ ReadyLast' /\ Watched'
           /\ UNCHANGED <<proto, paused, starting>>
           /\ Range(rest) \subseteq Range(stack')
           /\ "error" \in Range(stack') => Datagram
           /\ closing' \/ (closing' = closing /\ io' = q)
<1>1. ASSUME KeepReader(q), UNCHANGED trans
      PROVE  TypeReader' /\ ReadyLast' /\ Watched' /\ closing' = closing /\ io' = q
             /\ UNCHANGED <<proto, paused, starting>>
  <2>1. TypeReader' /\ ReadyLast'
      BY <1>1, ReaderStep DEF TypeProtocol
  <2> QED BY <2>1, <1>1 DEF KeepReader, trans, Watched
<1>2. ASSUME NEW f \in Frame, Enter(f, rest)
      PROVE  stack' \in Seq(Frame) /\ Range(stack') = {f} \cup Range(rest)
    BY <1>2, Pushed DEF Enter
<1>3. CASE c \in Chunk /\ proto # "buffered"
  <2>1. got' = Append(got, c) /\ Enter("data", rest) /\ KeepReader(q)
        /\ UNCHANGED <<trans, ended, misrouted>>
      BY <1>3, NotChunks DEF Deliver
  <2>2. got' \in Seq(Chunk)
      BY <2>1, <1>3 DEF TypeProtocol
  <2> QED BY <2>1, <2>2, <1>1, <1>2 DEF TypeProtocol, Frame
<1>4. CASE c \in Chunk /\ proto = "buffered"
  <2>1. misrouted' = TRUE /\ stack' = rest /\ Teardown(q) /\ UNCHANGED <<got, ended>>
      BY <1>4, NotChunks DEF Deliver
  <2> QED BY <2>1, TeardownStep, Zenon DEF TypeProtocol
<1>5. CASE c = Eof
  <2>1. ended' = TRUE /\ Enter("eof", rest) /\ KeepReader(q)
        /\ UNCHANGED <<trans, got, misrouted>>
      BY <1>5, NotChunks DEF Deliver
  <2> QED BY <2>1, <1>1, <1>2 DEF TypeProtocol, Frame
<1>6. CASE c = Err /\ Datagram
  <2>1. Enter("error", rest) /\ KeepReader(q) /\ UNCHANGED <<trans, hist>>
      BY <1>6, NotChunks DEF Deliver
  <2> QED BY <2>1, <1>1, <1>2, <1>6 DEF TypeProtocol, Frame, hist
<1>7. CASE c = Err /\ ~Datagram
  <2>1. stack' = rest /\ Teardown(q) /\ UNCHANGED hist
      BY <1>7, NotChunks DEF Deliver
  <2> QED BY <2>1, TeardownStep, Zenon DEF TypeProtocol, hist
<1> QED BY <1>3, <1>4, <1>5, <1>6, <1>7 DEF Deliver

\* The first callback of the transport, and the peer.
LEMMA ControlInit == Init => Control
<1> SUFFICES ASSUME Init PROVE Control
    OBVIOUS
<1> USE DEF Init
<1>1. <<>> \in Seq(Chunk) /\ <<>> \in Seq(Item) /\ <<>> \in Seq(Frame)
      /\ <<>> \in Seq(Chunk \cup {Eof, Err}) /\ DOMAIN <<>> = {}
    OBVIOUS
<1>2. TypeReader /\ TypeProtocol /\ TypeOthers
  <2>1. TypeReader
      BY <1>1, Zenon DEF TypeReader
  <2>2. TypeProtocol
      BY <1>1, TransportConstants, Zenon DEF TypeProtocol
  <2>3. TypeOthers
    <3>1. 0 \in 0..MaxSent
        BY TransportConstants
    <3> QED BY <1>1, <3>1, Zenon DEF TypeOthers
  <2> QED BY <2>1, <2>2, <2>3
<1>3. Range(stack) = {}
    BY <1>1 DEF Range
<1> QED BY <1>1, <1>2, <1>3, Types
        DEF Control, ReadyLast, LastReady, Watched, Replays, Errors, Datagram

\* A step that changes no queue and no frame.
LEMMA KernelControl ==
    ASSUME Control, Send \/ Finish \/ Reject \/ DriverTurn
    PROVE  Control'
<1>1. TypeReader /\ TypeProtocol /\ TypeOthers
    BY Types DEF Control
<1>2. (watch = "drain") \in BOOLEAN /\ (flag \/ Readable) \in BOOLEAN
    OBVIOUS
<1>3. UNCHANGED <<io, watch, task, proto, paused, closing, starting, stack, got,
                  ended, misrouted, replay, phase>>
    BY Zenon DEF Send, Finish, Reject, DriverTurn, trans, hist, kernel
<1>4. TypeProtocol'
    BY <1>1, <1>3 DEF TypeProtocol
<1>5. ReadyLast' /\ Watched' /\ Replays' /\ Errors'
    BY <1>3 DEF Control, ReadyLast, LastReady, Watched, Replays, Errors, Datagram
<1>6. TypeReader' /\ TypeOthers'
  <2>1. CASE Send
    <3>1. sent + 1 \in Chunk /\ sent + 1 \in 0..MaxSent
        BY <2>1, <1>1, TransportConstants DEF Send, TypeOthers, Chunk
    <3>2. rcv' \in Seq(Chunk)
        BY <3>1, <2>1, <1>1 DEF Send, TypeOthers
    <3> QED BY <3>1, <3>2, <2>1, <1>1, <1>2, <1>3 DEF Send, TypeReader, TypeOthers
  <2>2. CASE Finish
      BY <2>2, <1>1, <1>2, <1>3, TransportConstants DEF Finish, TypeReader, TypeOthers
  <2>3. CASE Reject
      BY <2>3, <1>1, <1>2, <1>3 DEF Reject, TypeReader, TypeOthers
  <2>4. CASE DriverTurn
      BY <2>4, <1>1, <1>2, <1>3, Zenon DEF DriverTurn, TypeReader, TypeOthers, kernel
  <2> QED BY <2>1, <2>2, <2>3, <2>4
<1> QED BY <1>4, <1>5, <1>6, Types DEF Control

\* What one quantum takes from the kernel, and what follows it.
LEMMA QuantumTakes ==
    ASSUME TypeOthers
    PROVE  /\ Taken \in 0..Len(rcv) /\ Len(rcv) \in Nat
           /\ SubSeq(rcv, 1, Taken) \in Seq(Item)
           /\ SubSeq(rcv, Taken + 1, Len(rcv)) \in Seq(Chunk)
           /\ Outcome \in {<<>>, <<Err>>, <<Eof>>} /\ Outcome \in Seq(Item)
           /\ Outcome = <<Eof>> => Taken = Len(rcv) /\ fin
<1>1. rcv \in Seq(Chunk) /\ Len(rcv) \in Nat /\ Quantum \in Nat
    BY TransportConstants DEF TypeOthers
<1>2. Taken \in 0..Len(rcv)
    BY <1>1 DEF Taken
<1>3. SubSeq(rcv, 1, Taken) \in Seq(Item)
    BY <1>1, <1>2 DEF Item
<1>4. SubSeq(rcv, Taken + 1, Len(rcv)) \in Seq(Chunk)
    BY <1>1, <1>2
<1>5. Outcome \in {<<>>, <<Err>>, <<Eof>>}
    BY DEF Outcome
<1>6. <<>> \in Seq(Item) /\ <<Err>> \in Seq(Item) /\ <<Eof>> \in Seq(Item)
    BY DEF Item
<1>7. Outcome = <<Eof>> => Taken = Len(rcv) /\ fin
  <2>1. <<Eof>> # <<>> /\ <<Eof>> # <<Err>>
    <3>1. <<Eof>>[1] = Eof /\ <<Err>>[1] = Err /\ Len(<<Eof>>) = 1 /\ Len(<<>>) = 0
        OBVIOUS
    <3> QED BY <3>1, NotChunks
  <2>2. ASSUME Outcome = <<Eof>> PROVE Taken # Quantum /\ ~err /\ fin
      BY <2>1, <2>2 DEF Outcome
  <2> QED BY <2>2, <1>1 DEF Taken
<1> QED BY <1>1, <1>2, <1>3, <1>4, <1>5, <1>6, <1>7, Zenon

\* The drain task queues what it read.
LEMMA DrainControl ==
    ASSUME Control, NEW g \in {"none", "fresh", "stale"}, task # "none", Drain(g)
    PROVE  Control'
<1>1. TypeReader /\ TypeProtocol /\ TypeOthers /\ ReadyLast
    BY Types DEF Control
<1>2. UNCHANGED <<fin, sent, watch, edge, proto, paused, closing, starting, replay,
                  stack, phase, got, ended, misrouted>>
    BY DEF Drain, trans, hist
<1>3. watch = "drain"
    BY <1>1 DEF TypeReader
<1>4. \A i \in DOMAIN io : io[i] # Ready
    BY <1>1, <1>3 DEF ReadyLast, LastReady
<1> DEFINE read == SubSeq(rcv, 1, Taken) \o Outcome
<1>5. read \in Seq(Item) /\ io' = io \o read /\ io' \in Seq(Item)
    BY <1>1, QuantumTakes DEF Drain, TypeReader
<1>6. rcv' \in Seq(Chunk) /\ err' \in BOOLEAN
  <2>1. (err /\ Outcome # <<Err>>) \in BOOLEAN
      OBVIOUS
  <2> QED BY <2>1, <1>1, QuantumTakes DEF Drain
<1>7. task' \in {"more", "eof", "parked"} /\ guard' \in {"none", "fresh", "stale"}
      /\ flag' \in BOOLEAN
  <2>1. ClearReady(g) \in BOOLEAN
      BY DEF ClearReady
  <2> QED BY <2>1, <1>1 DEF Drain, TypeReader
<1>8. TypeProtocol'
    BY <1>1, <1>2 DEF TypeProtocol
<1>9. TypeOthers'
    BY <1>1, <1>2, <1>6 DEF TypeOthers
<1>10. TypeReader'
    BY <1>1, <1>2, <1>3, <1>5, <1>7 DEF TypeReader
<1>11. Watched' /\ Replays' /\ Errors'
    BY <1>2 DEF Control, Watched, Replays, Errors, Datagram
<1>12. ReadyLast'
  <2>1. \A i \in DOMAIN SubSeq(rcv, 1, Taken) : SubSeq(rcv, 1, Taken)[i] # Ready
    <3>1. rcv \in Seq(Chunk) /\ Taken \in 0..Len(rcv)
        BY <1>1, QuantumTakes DEF TypeOthers
    <3>2. SubSeq(rcv, 1, Taken) \in Seq(Chunk)
        BY <3>1
    <3> QED BY <3>2, NotChunks
  <2>2. \A i \in DOMAIN Outcome : Outcome[i] # Ready
      BY <1>1, QuantumTakes, NotChunks
  <2>3. \A q, r \in Seq(Item) :
            /\ \A i \in DOMAIN q : q[i] # Ready
            /\ \A i \in DOMAIN r : r[i] # Ready
            => \A i \in DOMAIN (q \o r) : (q \o r)[i] # Ready
      OBVIOUS
  <2>4. SubSeq(rcv, 1, Taken) \in Seq(Item) /\ Outcome \in Seq(Item) /\ io \in Seq(Item)
      BY <1>1, QuantumTakes DEF TypeReader
  <2>5. \A i \in DOMAIN read : read[i] # Ready
      BY <2>1, <2>2, <2>3, <2>4
  <2> HIDE DEF read
  <2>6. \A i \in DOMAIN io' : io'[i] # Ready
      BY <2>3, <2>4, <2>5, <1>4, <1>5
  <2> QED BY <2>6 DEF ReadyLast, LastReady
<1> QED BY <1>8, <1>9, <1>10, <1>11, <1>12, Types DEF Control

\* A completion of callback mode is queued.
LEMMA FiresControl == ASSUME Control, CallbackFires PROVE Control'
<1>1. TypeReader /\ TypeProtocol /\ TypeOthers
    BY Types DEF Control
<1>2. io' = Append(io, Ready) /\ watch = "callback" /\ Ready \notin Range(io)
      /\ UNCHANGED <<kernel, watch, tokio, trans, replay, stack, phase, hist>>
    BY DEF CallbackFires
<1>3. /\ io' \in Seq(Item) /\ Len(io') = Len(io) + 1 /\ Len(io) \in Nat
      /\ DOMAIN io = 1..Len(io) /\ DOMAIN io' = 1..Len(io')
      /\ \A i \in 1..Len(io) : io'[i] = io[i]
    BY <1>1, <1>2 DEF TypeReader, Item
<1>4. ReadyLast'
    BY <1>2, <1>3 DEF ReadyLast, LastReady, Range
<1>5. TypeReader' /\ TypeProtocol' /\ TypeOthers'
    BY <1>1, <1>2, <1>3
       DEF TypeReader, TypeProtocol, TypeOthers, kernel, tokio, trans, hist
<1> QED BY <1>2, <1>4, <1>5, Types
        DEF Control, Watched, Replays, Errors, Datagram, trans

\* The next completion is taken from the queue.
LEMMA NextCompletion ==
    ASSUME TypeReader, ReadyLast, io # <<>>
    PROVE  /\ Tail(io) \in Seq(Item) /\ LastReady(Tail(io)) /\ Head(io) \in Item
           /\ Head(io) = Ready => Len(io) = 1 /\ Tail(io) = <<>> /\ watch = "callback"
<1>1. /\ io \in Seq(Item) /\ Tail(io) \in Seq(Item) /\ Head(io) = io[1]
      /\ Len(io) \in Nat \ {0} /\ Len(Tail(io)) = Len(io) - 1
      /\ DOMAIN io = 1..Len(io) /\ DOMAIN Tail(io) = 1..Len(io) - 1
      /\ \A i \in 1..Len(io) - 1 : Tail(io)[i] = io[i + 1]
      /\ Head(io) \in Item
    BY DEF TypeReader
<1>2. LastReady(Tail(io))
    BY <1>1 DEF ReadyLast, LastReady
<1>3. ASSUME Head(io) = Ready PROVE Len(io) = 1 /\ Tail(io) = <<>> /\ watch = "callback"
  <2>1. Len(io) = 1 /\ watch = "callback"
      BY <1>1, <1>3 DEF ReadyLast, LastReady
  <2>2. Len(Tail(io)) = 0
      BY <1>1, <2>1
  <2> QED BY <1>1, <2>1, <2>2
<1> QED BY <1>1, <1>2, <1>3

\* A payload is delivered, stashed for the resume or dropped.
LEMMA DrainDataControl == ASSUME Control, DeliverDrainData PROVE Control'
<1>1. TypeReader /\ TypeProtocol /\ TypeOthers /\ ReadyLast /\ Watched /\ Replays /\ Errors
    BY Types DEF Control
<1>2. stack = <<>> /\ io # <<>> /\ Head(io) # Ready /\ UNCHANGED <<kernel, phase>>
    BY DEF DeliverDrainData
<1>3. /\ Tail(io) \in Seq(Item) /\ LastReady(Tail(io))
      /\ Head(io) \in Chunk \cup {Eof, Err}
    BY <1>1, <1>2, NextCompletion DEF Item
<1>4. ASSUME KeepReader(Tail(io)), UNCHANGED <<trans, stack, hist>>
      PROVE  TypeReader' /\ TypeProtocol' /\ ReadyLast' /\ Watched' /\ Errors'
  <2>1. TypeReader' /\ ReadyLast'
      BY <1>1, <1>3, <1>4, ReaderStep, Zenon DEF TypeProtocol
  <2> QED BY <2>1, <1>1, <1>4
          DEF TypeProtocol, trans, hist, KeepReader, Watched, Errors, Datagram
<1>5. CASE closing /\ KeepReader(Tail(io)) /\ UNCHANGED <<trans, replay, stack, hist>>
  <2>1. TypeOthers' /\ Replays'
      BY <1>1, <1>2, <1>5 DEF TypeOthers, kernel, Replays, trans
  <2> QED BY <2>1, <1>4, <1>5, Types DEF Control
<1>6. CASE /\ ~closing /\ Stashes /\ replay' = Append(replay, Head(io))
           /\ KeepReader(Tail(io)) /\ UNCHANGED <<trans, stack, hist>>
  <2>1. replay' \in Seq(Chunk \cup {Eof, Err})
      BY <1>1, <1>3, <1>6 DEF TypeOthers
  <2>2. TypeOthers' /\ Replays'
      BY <2>1, <1>1, <1>2, <1>6 DEF TypeOthers, kernel, Replays, trans, Stashes
  <2> QED BY <2>2, <1>4, <1>6, Types DEF Control
<1>7. CASE ~closing /\ ~Stashes /\ Deliver(Head(io), <<>>, Tail(io)) /\ UNCHANGED replay
  <2>1. <<>> \in Seq(Frame) /\ Range(<<>>) = {}
      BY DEF Range
  <2>2. /\ TypeReader' /\ TypeProtocol' /\ ReadyLast' /\ Watched'
        /\ UNCHANGED <<proto, paused, starting>>
        /\ "error" \in Range(stack') => Datagram
      BY <1>1, <1>3, <1>7, <2>1, DeliverStep, Zenon
  <2>3. replay = <<>>
      BY <1>1, <1>2, <1>7, <2>1 DEF Replays, Stashes
  <2>4. TypeOthers' /\ Replays' /\ Errors'
      BY <2>2, <2>3, <1>1, <1>2, <1>7 DEF TypeOthers, kernel, Replays, Errors, Datagram
  <2> QED BY <2>2, <2>4, Types DEF Control
<1> QED BY <1>5, <1>6, <1>7 DEF DeliverDrainData

\* A BufferedProtocol's reader is called.
LEMMA ReadReadyControl == ASSUME Control, ReadReady PROVE Control'
<1>1. TypeReader /\ TypeProtocol /\ TypeOthers /\ ReadyLast /\ Watched /\ Replays /\ Errors
    BY Types DEF Control
<1>2. stack = <<>> /\ io # <<>> /\ UNCHANGED <<fin, sent, replay, phase, misrouted>>
    BY DEF ReadReady
<1>3. Tail(io) \in Seq(Item) /\ LastReady(Tail(io)) /\ watch = "callback"
    BY <1>1, <1>2, NextCompletion DEF ReadReady
<1>4. replay = <<>> /\ ~Datagram
  <2>1. Range(<<>>) = {}
      BY DEF Range
  <2> QED BY <2>1, <1>1, <1>2, <1>3 DEF Replays, Watched, Datagram
<1>5. ASSUME KeepReader(Tail(io)), UNCHANGED trans
      PROVE  TypeReader' /\ ReadyLast' /\ Watched' /\ UNCHANGED <<proto, paused, closing, starting>>
  <2>1. TypeReader' /\ ReadyLast'
      BY <1>1, <1>3, <1>5, ReaderStep, Zenon DEF TypeProtocol
  <2> QED BY <2>1, <1>1, <1>5 DEF trans, KeepReader, Watched
<1>6. ASSUME NEW f \in {"data", "eof"}, Enter(f, <<>>)
      PROVE  stack' \in Seq(Frame) /\ "error" \notin Range(stack')
  <2>1. <<>> \in Seq(Frame) /\ Range(<<>>) = {} /\ f \in Frame
      BY DEF Range, Frame
  <2>2. stack' \in Seq(Frame) /\ Range(stack') = {f} \cup Range(<<>>)
      BY <2>1, <1>6, Pushed, Zenon DEF Enter
  <2> QED BY <2>1, <2>2
<1>7. "error" \notin Range(stack)
    BY <1>2 DEF Range
<1>8. /\ TypeReader' /\ ReadyLast' /\ Watched' /\ TypeProtocol'
      /\ rcv' \in Seq(Chunk) /\ err' \in BOOLEAN
      /\ UNCHANGED proto /\ "error" \notin Range(stack')
  <2>1. CASE /\ rcv # <<>> /\ rcv' = Tail(rcv) /\ got' = Append(got, Head(rcv))
             /\ Enter("data", <<>>) /\ KeepReader(Tail(io))
             /\ UNCHANGED <<err, trans, ended>>
    <3>1. rcv' \in Seq(Chunk) /\ got' \in Seq(Chunk)
        BY <2>1, <1>1 DEF TypeOthers, TypeProtocol
    <3> QED BY <3>1, <2>1, <1>1, <1>2, <1>5, <1>6 DEF TypeOthers, TypeProtocol
  <2>2. CASE /\ err' = FALSE /\ Teardown(Tail(io)) /\ UNCHANGED <<rcv, stack, got, ended>>
      BY <2>2, <1>1, <1>2, <1>3, <1>7, TeardownStep, Zenon DEF TypeOthers, TypeProtocol
  <2>3. CASE /\ ended' = TRUE /\ Enter("eof", <<>>) /\ KeepReader(Tail(io))
             /\ UNCHANGED <<rcv, err, trans, got>>
      BY <2>3, <1>1, <1>2, <1>5, <1>6 DEF TypeOthers, TypeProtocol
  <2>4. CASE KeepReader(Tail(io)) /\ UNCHANGED <<rcv, err, trans, stack, got, ended>>
      BY <2>4, <1>1, <1>2, <1>5, <1>7 DEF TypeOthers, TypeProtocol
  <2>5. CASE Teardown(Tail(io)) /\ UNCHANGED <<rcv, err, stack, got, ended>>
      BY <2>5, <1>1, <1>2, <1>3, <1>7, TeardownStep, Zenon DEF TypeOthers, TypeProtocol
  <2> QED BY <2>1, <2>2, <2>3, <2>4, <2>5, Zenon DEF ReadReady
<1>9. TypeOthers' /\ Replays' /\ Errors'
    BY <1>1, <1>2, <1>4, <1>8 DEF TypeOthers, Replays, Errors, Datagram
<1> QED BY <1>8, <1>9, Types DEF Control

\* What the transport's own calls keep: the kernel, the history and the phase.
Calls == UNCHANGED <<kernel, phase, hist>>

\* Calls of the protocol that leave the replay alone keep the types.
LEMMA CallsKeep ==
    ASSUME TypeProtocol, TypeOthers, Calls, UNCHANGED replay,
           proto' \in Kind, paused' \in BOOLEAN, closing' \in BOOLEAN,
           starting' \in BOOLEAN, stack' \in Seq(Frame)
    PROVE  TypeProtocol' /\ TypeOthers'
    BY DEF TypeProtocol, TypeOthers, Calls, kernel, hist

\* Reading starts, is paused and is resumed, and the protocol is switched.
LEMMA ReadingControl ==
    ASSUME Control,
           StartReading \/ pause_reading \/ resume_reading
             \/ \E kind \in Switches : set_protocol(kind)
    PROVE  Control'
<1>1. TypeReader /\ TypeProtocol /\ TypeOthers /\ ReadyLast /\ Watched /\ Replays /\ Errors
    BY Types DEF Control
<1>2. io \in Seq(Item) /\ LastReady(io) /\ proto \in Kind
    BY <1>1 DEF TypeReader, ReadyLast, TypeProtocol
<1>3. CASE StartReading
  <2>1. Register(proto, io) \/ KeepReader(io)
      BY <1>3 DEF StartReading
  <2>2. TypeReader' /\ ReadyLast'
      BY <2>1, <1>1, <1>2, ReaderStep
  <2>3. TypeProtocol' /\ TypeOthers'
      BY <1>3, <1>1, CallsKeep, Zenon DEF StartReading, TypeProtocol, Calls
  <2>4. Watched'
      BY <1>3, <1>1, <1>2 DEF StartReading, Register, KeepReader, Mode, Watched, Reading
  <2>5. Replays' /\ Errors'
      BY <1>3, <1>1 DEF StartReading, Replays, Errors, Datagram
  <2> QED BY <2>2, <2>3, <2>4, <2>5, Types DEF Control
<1>4. CASE pause_reading
  <2>1. remove_reader(io) \/ KeepReader(io)
      BY <1>4 DEF pause_reading
  <2>2. TypeReader' /\ ReadyLast'
      BY <2>1, <1>1, <1>2, ReaderStep
  <2>3. TypeProtocol' /\ TypeOthers'
      BY <1>4, <1>1, CallsKeep DEF pause_reading, TypeProtocol, Calls
  <2>4. Watched'
      BY <1>4, <1>1 DEF pause_reading, remove_reader, KeepReader, Watched
  <2>5. Replays' /\ Errors'
      BY <1>4, <1>1 DEF pause_reading, Replays, Errors, Datagram
  <2> QED BY <2>2, <2>3, <2>4, <2>5, Types DEF Control
<1>5. CASE resume_reading
  <2>1. TypeReader' /\ ReadyLast'
      BY <1>5, <1>1, <1>2, ReaderStep DEF resume_reading
  <2>2. stack' \in Seq(Frame) /\ Range(stack') = {"flush"} \cup Range(stack)
      BY <1>5, <1>1, Pushed, Zenon DEF resume_reading, Enter, TypeProtocol, Frame
  <2>3. TypeProtocol' /\ TypeOthers'
      BY <1>5, <2>2, <1>1, CallsKeep, Zenon DEF resume_reading, TypeProtocol, Calls
  <2>4. Watched'
      BY <1>5, <1>1 DEF resume_reading, KeepReader, Watched
  <2>5. Replays' /\ Errors'
      BY <1>5, <2>2, <1>1 DEF resume_reading, Replays, Errors, Datagram
  <2> QED BY <2>1, <2>3, <2>4, <2>5, Types DEF Control
<1>6. ASSUME NEW kind \in Switches, set_protocol(kind) PROVE Control'
  <2>1. kind \in Kind /\ kind # "datagram"
      BY TransportConstants
  <2>2. Register(kind, io) \/ KeepReader(io)
      BY <1>6 DEF set_protocol
  <2>3. TypeReader' /\ ReadyLast'
      BY <2>1, <2>2, <1>1, <1>2, ReaderStep
  <2>4. TypeProtocol' /\ TypeOthers'
      BY <1>6, <2>1, <1>1, CallsKeep DEF set_protocol, TypeProtocol, Calls
  <2>5. Watched'
      BY <1>6, <1>1, <2>1 DEF set_protocol, Register, KeepReader, Mode, Watched, Reading
  <2>6. Replays' /\ Errors'
      BY <1>6, <2>1, <1>1 DEF set_protocol, Replays, Errors, Datagram
  <2> QED BY <2>3, <2>4, <2>5, <2>6, Types DEF Control
<1> QED BY <1>3, <1>4, <1>5, <1>6

\* The replay is flushed.
LEMMA FlushControl == ASSUME Control, FlushNext \/ FlushDone PROVE Control'
<1>1. TypeReader /\ TypeProtocol /\ TypeOthers /\ ReadyLast /\ Watched /\ Replays /\ Errors
    BY Types DEF Control
<1>2. /\ io \in Seq(Item) /\ LastReady(io) /\ proto \in Kind /\ stack \in Seq(Frame)
      /\ stack # <<>> /\ Head(stack) = "flush"
    BY <1>1 DEF TypeReader, ReadyLast, TypeProtocol, FlushNext, FlushDone
<1>3. /\ Tail(stack) \in Seq(Frame)
      /\ Range(stack) = {"flush"} \cup Range(Tail(stack))
    BY <1>2, Returned
<1>4. CASE FlushNext
  <2>1. /\ replay # <<>> /\ replay' = Tail(replay) /\ Deliver(Head(replay), stack, io)
        /\ UNCHANGED <<kernel, phase>>
      BY <1>4 DEF FlushNext
  <2>2. /\ TypeReader' /\ TypeProtocol' /\ ReadyLast' /\ Watched'
        /\ UNCHANGED <<proto, paused, starting>>
        /\ Range(stack) \subseteq Range(stack')
        /\ "error" \in Range(stack') => Datagram
      BY <1>1, <1>2, <2>1, DeliverStep DEF Errors
  <2>3. replay' \in Seq(Chunk \cup {Eof, Err})
      BY <2>1, <1>1 DEF TypeOthers
  <2>4. TypeOthers' /\ Replays' /\ Errors'
      BY <2>1, <2>2, <2>3, <1>1, <1>3
         DEF TypeOthers, kernel, Replays, Errors, Datagram
  <2> QED BY <2>2, <2>4, Types DEF Control
<1>5. CASE FlushDone
  <2>1. Register(proto, io) \/ KeepReader(io)
      BY <1>5 DEF FlushDone
  <2>2. TypeReader' /\ ReadyLast'
      BY <2>1, <1>1, <1>2, ReaderStep, Zenon
  <2>3. TypeProtocol' /\ TypeOthers'
      BY <1>5, <1>1, <1>3, CallsKeep, Zenon DEF FlushDone, TypeProtocol, Calls, trans
  <2>4. Watched'
      BY <1>5, <1>1, <1>2
         DEF FlushDone, Register, KeepReader, Mode, Watched, Reading, trans
  <2>5. Replays' /\ Errors'
      BY <1>5, <1>1, <1>3 DEF FlushDone, Replays, Errors, Datagram, Reading, trans
  <2> QED BY <2>2, <2>3, <2>4, <2>5, Types DEF Control
<1> QED BY <1>4, <1>5

\* A callback returns or raises, and the transport is closed.
LEMMA ReturnControl ==
    ASSUME Control, Return \/ Raise \/ close
    PROVE  Control'
<1>1. TypeReader /\ TypeProtocol /\ TypeOthers /\ ReadyLast /\ Watched /\ Replays /\ Errors
    BY Types DEF Control
<1>2. io \in Seq(Item) /\ LastReady(io) /\ proto \in Kind /\ stack \in Seq(Frame)
    BY <1>1 DEF TypeReader, ReadyLast, TypeProtocol
<1>3. Calls /\ UNCHANGED replay
    BY DEF Return, Raise, close, Calls
<1>4. /\ stack' \in Seq(Frame)
      /\ Range(stack') \subseteq Range(stack)
      /\ "flush" \in Range(stack) => "flush" \in Range(stack')
  <2>1. CASE Return \/ Raise
    <3>1. stack # <<>> /\ Head(stack) # "flush" /\ stack' = Tail(stack)
        BY <2>1 DEF Return, Raise
    <3> QED BY <3>1, <1>2, Returned
  <2>2. CASE close
      BY <2>2, <1>2 DEF close
  <2> QED BY <2>1, <2>2
<1>5. CASE Teardown(io)
  <2>1. /\ TypeReader' /\ ReadyLast' /\ Watched'
        /\ closing' = TRUE /\ UNCHANGED <<proto, paused, starting>>
      BY <1>1, <1>2, <1>5, TeardownStep, Zenon
  <2>2. TypeProtocol' /\ TypeOthers'
      BY <2>1, <1>1, <1>3, <1>4, CallsKeep DEF TypeProtocol
  <2>3. Replays' /\ Errors'
      BY <2>1, <1>1, <1>4 DEF Replays, Errors, Datagram
  <2> QED BY <2>1, <2>2, <2>3, Types DEF Control
<1>6. CASE (KeepReader(io) \/ remove_reader(io)) /\ UNCHANGED trans
  <2>1. TypeReader' /\ ReadyLast'
      BY <1>1, <1>2, <1>6, ReaderStep
  <2>2. TypeProtocol' /\ TypeOthers'
      BY <1>1, <1>3, <1>4, <1>6, CallsKeep DEF TypeProtocol, trans
  <2>3. Watched'
      BY <1>1, <1>6 DEF Watched, KeepReader, remove_reader, trans
  <2>4. Replays' /\ Errors'
      BY <1>1, <1>3, <1>4, <1>6 DEF Replays, Errors, Datagram, trans
  <2> QED BY <2>1, <2>2, <2>3, <2>4, Types DEF Control
<1> QED BY <1>5, <1>6 DEF Return, Raise, close

\* Without an exception that escapes, every step keeps the control.
LEMMA ControlNext ==
    ASSUME Contained, Control, [Next]_vars
    PROVE  Control'
<1>1. TypeReader /\ TypeProtocol /\ TypeOthers /\ Errors
    BY Types DEF Control
<1>2. CASE Send \/ Finish \/ Reject \/ DriverTurn
    BY <1>2, KernelControl
<1>3. CASE Task
  <2>1. task # "none" /\ (Drain(guard) \/ Drain("fresh"))
      BY <1>3 DEF Task, DrainOn, DrainWoken
  <2> QED BY <2>1, <1>1, DrainControl DEF TypeReader
<1>4. CASE DeliverDrainData \/ ReadReady \/ CallbackFires
    BY <1>4, DrainDataControl, ReadReadyControl, FiresControl
<1>5. CASE StartReading \/ pause_reading \/ resume_reading
             \/ \E kind \in Switches : set_protocol(kind)
    BY <1>5, ReadingControl
<1>6. CASE FlushNext \/ FlushDone
    BY <1>6, FlushControl
<1>7. CASE Return \/ Raise \/ close
    BY <1>7, ReturnControl
<1>8. CASE Escape
  <2>1. Escaping /\ stack # <<>> /\ Head(stack) = "error" /\ stack \in Seq(Frame)
      BY <1>8, <1>1 DEF Escape, TypeProtocol
  <2>2. "error" \in Range(stack)
      BY <2>1, Returned, Zenon
  <2> QED BY <2>1, <2>2, <1>1 DEF Errors, Contained
<1>9. CASE UNCHANGED <<kernel, watch, tokio, io, trans, replay, stack, hist>>
           /\ phase' \in {"python", "io", "tasks"}
  <2>1. TypeReader' /\ TypeProtocol' /\ TypeOthers'
      BY <1>9, <1>1
         DEF TypeReader, TypeProtocol, TypeOthers, kernel, tokio, trans, hist
  <2> QED BY <2>1, <1>9, Types
          DEF Control, ReadyLast, LastReady, Watched, Replays, Errors, Datagram, trans
<1>10. CASE EnterIo \/ EndBatch \/ BeginBatch \/ UNCHANGED vars
    BY <1>9, <1>10, <1>1 DEF EnterIo, EndBatch, BeginBatch, Goto, vars, TypeOthers
<1> QED BY <1>2, <1>3, <1>4, <1>5, <1>6, <1>7, <1>8, <1>10 DEF Next, Batch

-----------------------------------------------------------------------------
(* The data.                                                               *)

\* The stream's state, of which the transport's is a refinement.
StreamStep == [Stream!Next]_(Stream!vars)

Kept == Ends' /\ Between' /\ StreamStep

\* What the replay and the completions hold.
LEMMA QueueType == ASSUME TypeOK PROVE Queue \in Seq(Item) /\ replay \in Seq(Item)
                                       /\ io \in Seq(Item)
<1>1. replay \in Seq(Item)
    BY DEF TypeOK, Item
<1>2. io \in Seq(Item)
    BY Zenon DEF TypeOK, Item
<1> QED BY <1>1, <1>2 DEF Queue

\* What the numbers are.
LEMMA Counts ==
    ASSUME TypeOK, Ends
    PROVE  /\ Len(got) \in Nat /\ Len(rcv) \in Nat /\ sent \in Nat /\ sent <= MaxSent
           /\ sent - Len(rcv) \in Nat /\ Len(got) <= sent - Len(rcv)
           /\ sent - Len(rcv) <= MaxSent
<1>1. Len(got) \in Nat /\ Len(rcv) \in Nat /\ sent \in Nat /\ sent <= MaxSent
    BY TransportConstants DEF TypeOK
<1> QED BY <1>1, TransportConstants DEF Ends

\* No chunk moves; at most a completion of callback mode goes, or the transport
\* closes, pauses or resumes.
LEMMA NothingMoves ==
    ASSUME ReadInv, TypeOK', UNCHANGED <<replay, rcv, sent, got, fin>>,
           io' = io \/ io = Append(io', Ready), closing' \/ ~closing
    PROVE  Ends' /\ Between'
<1>1. Ends'
    BY DEF ReadInv, Ends
<1>2. TypeOK /\ Ends /\ Between
    BY DEF ReadInv, Control
<1>3. CASE closing'
    BY <1>1, <1>3 DEF Between
<1>4. CASE io' = io /\ ~closing'
    BY <1>1, <1>2, <1>4 DEF Between, Queue
<1>5. CASE io = Append(io', Ready) /\ ~closing'
  <2> DEFINE p == replay \o io'
  <2>1. replay \in Seq(Item) /\ io' \in Seq(Item) /\ Ready \in Item /\ io \in Seq(Item)
      BY <1>2, QueueType DEF TypeOK, Item
  <2>2. p \in Seq(Item) /\ Queue = Append(p, Ready)
    <3>1. p \in Seq(Item) /\ Append(p, Ready) \in Seq(Item) /\ Queue \in Seq(Item)
        BY <2>1 DEF Queue
    <3>2. Len(Queue) = Len(Append(p, Ready))
        BY <2>1, <1>5 DEF Queue
    <3>3. \A i \in 1..Len(Queue) : Queue[i] = Append(p, Ready)[i]
        BY <2>1, <1>5 DEF Queue
    <3> HIDE DEF p
    <3> QED BY <3>1, <3>2, <3>3, SeqEqual
  <2>3. Queue' = p
      BY DEF Queue
  <2> HIDE DEF p
  <2>4. Carries(p, Len(got), sent - Len(rcv)) /\ EndsIn(p)
      BY <1>2, <1>5, <2>2, CarriesAppend, Counts, Zenon DEF Between
  <2>5. Eof \in Range(p) => Eof \in Range(Queue)
    <3>1. \A i \in DOMAIN p : i \in DOMAIN Queue /\ Queue[i] = p[i]
        BY <2>1, <2>2
    <3> QED BY <3>1 DEF Range
  <2> QED BY <1>1, <1>2, <1>5, <2>3, <2>4, <2>5, Zenon DEF Between
<1> QED BY <1>3, <1>4, <1>5

\* The first completion of the queue is taken, to the protocol or away.
LEMMA HeadMoves ==
    ASSUME ReadInv, ~closing, Queue # <<>>, Queue' = Tail(Queue),
           UNCHANGED <<rcv, sent, fin>>,
           got' = IF Head(Queue) \in Chunk THEN Append(got, Head(Queue)) ELSE got
    PROVE  /\ Ends' /\ Between'
           /\ Head(Queue) \in Chunk => Head(Queue) = Len(got) + 1 /\ Len(got) < sent
           /\ Head(Queue) = Eof => fin /\ Len(got) = sent
<1>1. TypeOK /\ Ends /\ Between /\ Queue \in Seq(Item)
    BY QueueType DEF ReadInv, Control
<1> DEFINE lo == Len(got)
           hi == sent - Len(rcv)
<1>2. lo \in Nat /\ hi \in Nat /\ lo <= hi /\ hi <= MaxSent /\ hi <= sent /\ sent \in Nat
    BY <1>1, Counts
<1>3. Carries(Queue, lo, hi) /\ EndsIn(Queue)
    BY <1>1 DEF Between
<1> HIDE DEF lo, hi
<1>4. /\ Tail(Queue) \in Seq(Item)
      /\ EndsIn(Tail(Queue))
      /\ Head(Queue) \in Chunk =>
             Head(Queue) = lo + 1 /\ lo < hi /\ Carries(Tail(Queue), lo + 1, hi)
      /\ Head(Queue) \notin Chunk => Carries(Tail(Queue), lo, hi)
      /\ Head(Queue) = Eof => lo = hi
      /\ Eof \in Range(Tail(Queue)) => Eof \in Range(Queue)
    BY <1>1, <1>2, <1>3, CarriesTail
<1>5. Head(Queue) = Eof => fin /\ Len(got) = sent
  <2>1. SUFFICES ASSUME Head(Queue) = Eof PROVE fin /\ Len(got) = sent
      OBVIOUS
  <2>2. Eof \in Range(Queue)
    <3>1. 1 \in DOMAIN Queue /\ Queue[1] = Head(Queue)
        BY <1>1
    <3> QED BY <3>1, <2>1 DEF Range
  <2>3. fin /\ rcv = <<>>
      BY <2>2, <1>1 DEF Between
  <2> QED BY <2>1, <2>3, <1>2, <1>4 DEF lo, hi
<1>6. CASE Head(Queue) \in Chunk
  <2>1. got' = Append(got, lo + 1) /\ got \in Seq(Chunk) /\ lo + 1 \in Chunk
      BY <1>1, <1>4, <1>6, Zenon DEF TypeOK
  <2>2. Len(got') = lo + 1 /\ \A i \in DOMAIN got' : got'[i] = i
      BY <2>1, <1>1, <1>2 DEF Ends, lo
  <2>3. Ends'
      BY <2>2, <1>1, <1>2, <1>4, <1>6 DEF Ends, lo, hi
  <2>4. Between'
      BY <2>2, <1>1, <1>4, <1>6 DEF Between, hi
  <2> QED BY <2>3, <2>4, <1>2, <1>4, <1>5 DEF lo
<1>7. CASE Head(Queue) \notin Chunk
  <2>1. Ends'
      BY <1>1, <1>7 DEF Ends
  <2>2. Between'
      BY <1>1, <1>4, <1>7 DEF Between, lo, hi
  <2> QED BY <2>1, <2>2, <1>5, <1>7
<1> QED BY <1>6, <1>7

\* Where the first completion is, and that stashing moves none.
LEMMA QueueHead ==
    ASSUME TypeOK
    PROVE  /\ replay # <<>> =>
                  /\ Queue # <<>> /\ Head(Queue) = Head(replay)
                  /\ Tail(Queue) = Tail(replay) \o io
           /\ replay = <<>> => Queue = io
           /\ io # <<>> => Append(replay, Head(io)) \o Tail(io) = Queue
<1>1. Queue \in Seq(Item) /\ replay \in Seq(Item) /\ io \in Seq(Item)
    BY QueueType
<1>2. ASSUME replay # <<>>
      PROVE  /\ Queue # <<>> /\ Head(Queue) = Head(replay)
             /\ Tail(Queue) = Tail(replay) \o io
  <2>1. Queue # <<>> /\ Head(Queue) = Head(replay) /\ Len(replay) > 0
      BY <1>1, <1>2 DEF Queue
  <2>2. Tail(Queue) \in Seq(Item) /\ Tail(replay) \o io \in Seq(Item)
      BY <2>1, <1>1, <1>2
  <2>3. Len(Tail(Queue)) = Len(Tail(replay) \o io)
      BY <2>1, <1>1, <1>2 DEF Queue
  <2>4. \A i \in 1..Len(Tail(Queue)) : Tail(Queue)[i] = (Tail(replay) \o io)[i]
      BY <2>1, <1>1, <1>2 DEF Queue
  <2> QED BY <2>1, <2>2, <2>3, <2>4, SeqEqual, Zenon
<1>3. replay = <<>> => Queue = io
    BY <1>1, ConcatEmptySeq DEF Queue
<1>4. ASSUME io # <<>> PROVE Append(replay, Head(io)) \o Tail(io) = Queue
  <2> DEFINE s == Append(replay, Head(io)) \o Tail(io)
  <2>1. s \in Seq(Item)
      BY <1>1, <1>4
  <2>2. Len(s) = Len(Queue)
      BY <1>1, <1>4 DEF Queue
  <2>3. \A i \in 1..Len(s) : s[i] = Queue[i]
      BY <1>1, <1>4 DEF Queue
  <2> HIDE DEF s
  <2>4. s = Queue
      BY <2>1, <2>2, <2>3, <1>1, SeqEqual
  <2> QED BY <2>4, Zenon DEF s
<1> QED BY <1>2, <1>3, <1>4, Zenon

\* The stream stands still, or is paused, resumed or closed.
LEMMA StreamRests ==
    ASSUME UNCHANGED <<sent, fin, got, ended>>,
           \/ UNCHANGED <<paused, closing>>
           \/ ~closing /\ ~paused /\ paused' = TRUE /\ UNCHANGED closing
           \/ ~closing /\ paused /\ paused' = FALSE /\ UNCHANGED closing
           \/ closing' = TRUE /\ closing \in BOOLEAN /\ UNCHANGED paused
    PROVE  StreamStep
<1> USE DEF StreamStep, Stream!Next, Stream!vars
<1>1. CASE UNCHANGED <<paused, closing>>
    BY <1>1
<1>2. CASE ~closing /\ ~paused /\ paused' = TRUE /\ UNCHANGED closing
    BY <1>2 DEF Stream!Pause
<1>3. CASE ~closing /\ paused /\ paused' = FALSE /\ UNCHANGED closing
    BY <1>3 DEF Stream!Resume
<1>4. CASE closing' = TRUE /\ closing \in BOOLEAN /\ UNCHANGED paused
  <2>1. CASE closing = TRUE
      BY <1>4, <2>1
  <2>2. CASE closing = FALSE
      BY <1>4, <2>2 DEF Stream!Close
  <2> QED BY <1>4, <2>1, <2>2, Zenon
<1> QED BY <1>1, <1>2, <1>3, <1>4, Zenon

\* The protocol is given the first completion of the queue.
LEMMA DeliverKept ==
    ASSUME ReadInv, Reading, Queue # <<>>, NEW c, c = Head(Queue), NEW rest, NEW q,
           Deliver(c, rest, q), replay' \o q = Tail(Queue), UNCHANGED <<kernel>>
    PROVE  Kept
<1>1. TypeOK /\ Ends /\ Between
    BY DEF ReadInv, Control
<1>2. UNCHANGED <<rcv, fin, sent>>
    BY Zenon DEF kernel
<1>3. ASSUME KeepReader(q), UNCHANGED trans,
             got' = IF Head(Queue) \in Chunk THEN Append(got, Head(Queue)) ELSE got
      PROVE  /\ Ends' /\ Between'
             /\ Head(Queue) \in Chunk => Head(Queue) = Len(got) + 1 /\ Len(got) < sent
             /\ Head(Queue) = Eof => fin /\ Len(got) = sent
             /\ UNCHANGED <<paused, closing>>
  <2>1. Queue' = Tail(Queue)
      BY <1>3, Zenon DEF Queue, KeepReader
  <2> QED BY <1>2, <1>3, <2>1, HeadMoves DEF Reading, trans
<1>4. ASSUME Teardown(q), UNCHANGED <<got, ended>> PROVE Kept
  <2>1. closing' = TRUE /\ UNCHANGED paused
      BY <1>4 DEF Teardown
  <2>2. Ends' /\ Between'
      BY <2>1, <1>1, <1>2, <1>4, Zenon DEF Ends, Between
  <2>3. closing \in BOOLEAN
      BY <1>1 DEF TypeOK
  <2>4. StreamStep
      BY <2>1, <2>3, <1>2, <1>4, StreamRests, Zenon
  <2> QED BY <2>2, <2>4 DEF Kept
<1>5. CASE c \in Chunk /\ proto # "buffered"
  <2>1. got' = Append(got, c) /\ KeepReader(q) /\ UNCHANGED <<trans, ended, misrouted>>
      BY <1>5, NotChunks, Zenon DEF Deliver
  <2>2. /\ Ends' /\ Between' /\ c = Len(got) + 1 /\ Len(got) < sent
        /\ UNCHANGED <<paused, closing>>
      BY <2>1, <1>3, <1>5, Zenon
  <2>3. StreamStep
      BY <2>1, <2>2, <1>2
         DEF StreamStep, Stream!Next, Stream!Deliver, Reading
  <2> QED BY <2>2, <2>3, Zenon DEF Kept
<1>6. CASE c \in Chunk /\ proto = "buffered"
    BY <1>4, <1>6, NotChunks DEF Deliver
<1>7. CASE c = Eof
  <2>1. ended' = TRUE /\ KeepReader(q) /\ UNCHANGED <<trans, got, misrouted>>
      BY <1>7, NotChunks, Zenon DEF Deliver
  <2>2. Ends' /\ Between' /\ fin /\ Len(got) = sent /\ UNCHANGED <<paused, closing>>
      BY <2>1, <1>3, <1>7, NotChunks, Zenon
  <2>3. StreamStep
      BY <2>1, <2>2, <1>2 DEF StreamStep, Stream!Next, Stream!End, Reading
  <2> QED BY <2>2, <2>3, Zenon DEF Kept
<1>8. CASE c = Err /\ Datagram
  <2>1. KeepReader(q) /\ UNCHANGED <<trans, hist>>
      BY <1>8, NotChunks DEF Deliver
  <2>2. Ends' /\ Between' /\ UNCHANGED <<paused, closing>>
      BY <2>1, <1>3, <1>8, NotChunks DEF hist
  <2>3. StreamStep
      BY <2>1, <2>2, <1>2, StreamRests, Zenon DEF hist
  <2> QED BY <2>2, <2>3, Zenon DEF Kept
<1>9. CASE c = Err /\ ~Datagram
    BY <1>4, <1>9, NotChunks DEF Deliver, hist
<1> QED BY <1>5, <1>6, <1>7, <1>8, <1>9 DEF Deliver

\* The peer sends, ends and fails.
LEMMA KernelKept ==
    ASSUME ReadInv, Send \/ Finish \/ Reject
    PROVE  Kept
<1>1. TypeOK /\ Ends /\ Between
    BY Zenon DEF ReadInv, Control
<1>2. UNCHANGED <<io, replay, got, ended, paused, closing>> /\ Queue' = Queue
    BY Zenon DEF Send, Finish, Reject, trans, hist, Queue
<1>3. CASE Send
  <2>1. ~fin /\ sent' = sent + 1 /\ rcv' = Append(rcv, sent + 1) /\ UNCHANGED fin
      BY <1>3 DEF Send
  <2>2. rcv \in Seq(Nat) /\ sent \in Nat
    <3>1. Chunk \subseteq Nat /\ rcv \in Seq(Chunk)
        BY <1>1, NotChunks DEF TypeOK
    <3>2. rcv \in Seq(Nat)
        BY <3>1, SeqMonotonic, Zenon
    <3> QED BY <3>2, <1>1, Counts
  <2>3. /\ Len(rcv') = Len(rcv) + 1 /\ rcv'[Len(rcv) + 1] = sent + 1 /\ Len(rcv) \in Nat
        /\ DOMAIN rcv' = 1..Len(rcv) + 1 /\ DOMAIN rcv = 1..Len(rcv)
        /\ \A i \in 1..Len(rcv) : rcv'[i] = rcv[i]
      BY <2>1, <2>2
  <2>4. /\ Len(got') + Len(rcv') <= sent'
        /\ sent' - Len(rcv') = sent - Len(rcv)
      BY <2>1, <2>3, <1>1, <1>2, Counts DEF Ends
  <2>5. \A i \in DOMAIN rcv' : rcv'[i] = sent' - Len(rcv') + i
    <3>1. SUFFICES ASSUME NEW i \in 1..Len(rcv) + 1
                   PROVE  rcv'[i] = sent - Len(rcv) + i
        BY <2>3, <2>4
    <3>2. CASE i = Len(rcv) + 1
        BY <3>2, <2>2, <2>3
    <3>3. CASE i # Len(rcv) + 1
      <4>1. i \in DOMAIN rcv /\ rcv'[i] = rcv[i]
          BY <3>3, <2>3
      <4> QED BY <4>1, <1>1 DEF Ends
    <3> QED BY <3>2, <3>3
  <2>6. Ends'
      BY <2>4, <2>5, <1>1, <1>2 DEF Ends
  <2>7. Between'
      BY <2>1, <2>4, <1>1, <1>2 DEF Between
  <2>8. StreamStep
      BY <2>1, <1>2 DEF StreamStep, Stream!Next, Stream!Send
  <2> QED BY <2>6, <2>7, <2>8 DEF Kept
<1>4. CASE Finish
  <2>1. fin' = TRUE /\ UNCHANGED <<rcv, sent>>
      BY <1>4, Zenon DEF Finish
  <2>2. Ends' /\ Between'
      BY <2>1, <1>1, <1>2 DEF Ends, Between
  <2>3. StreamStep
      BY <2>1, <1>2, Zenon DEF StreamStep, Stream!Next, Stream!Finish
  <2> QED BY <2>2, <2>3 DEF Kept
<1>5. CASE Reject
  <2>1. UNCHANGED <<fin, rcv, sent>>
      BY <1>5, Zenon DEF Reject
  <2>2. Ends' /\ Between'
      BY <2>1, <1>1, <1>2 DEF Ends, Between
  <2>3. StreamStep
      BY <2>1, <1>2, StreamRests, Zenon
  <2> QED BY <2>2, <2>3 DEF Kept
<1> QED BY <1>3, <1>4, <1>5

\* A quantum moves chunks from the kernel to the end of the queue.
LEMMA DrainKept ==
    ASSUME ReadInv, NEW g, Drain(g)
    PROVE  Kept
<1>1. TypeOK /\ Ends /\ Between /\ TypeOthers
    BY Types, Zenon DEF ReadInv, Control
<1>2. UNCHANGED <<fin, sent, got, ended, paused, closing, replay>>
    BY DEF Drain, trans, hist
<1>3. StreamStep
    BY <1>2, StreamRests
<1> DEFINE k    == Taken
           hi   == sent - Len(rcv)
           pre  == SubSeq(rcv, 1, k)
           read == pre \o Outcome
<1>4. /\ k \in 0..Len(rcv) /\ Len(rcv) \in Nat /\ hi \in Nat /\ sent \in Nat
      /\ hi + k <= sent /\ sent <= MaxSent /\ Len(got) \in Nat /\ Len(got) <= hi
    BY <1>1, Counts, QuantumTakes
<1>5. /\ pre \in Seq(Item) /\ Len(pre) = k /\ rcv \in Seq(Chunk)
      /\ \A i \in 1..k : pre[i] = rcv[i]
    BY <1>1, QuantumTakes DEF TypeOthers
<1>6. \A i \in DOMAIN pre : pre[i] = hi + i /\ pre[i] \in Chunk
    BY <1>1, <1>4, <1>5 DEF Ends
<1>7. /\ Outcome \in {<<>>, <<Err>>, <<Eof>>} /\ Outcome \in Seq(Item)
      /\ Outcome = <<Eof>> => Taken = Len(rcv) /\ fin
    BY <1>1, QuantumTakes
<1>8. /\ DOMAIN Outcome \subseteq {1}
      /\ \A i \in DOMAIN Outcome : Outcome[i] \in {Eof, Err} /\ Outcome[i] \notin Chunk
      /\ Eof \in Range(Outcome) => Outcome = <<Eof>>
  <2>1. DOMAIN <<>> = {} /\ DOMAIN <<Err>> = {1} /\ DOMAIN <<Eof>> = {1}
        /\ <<Err>>[1] = Err /\ <<Eof>>[1] = Eof
      OBVIOUS
  <2> QED BY <2>1, <1>7, NotChunks DEF Range
<1>9. io' = io \o read /\ rcv' = SubSeq(rcv, k + 1, Len(rcv))
    BY DEF Drain
<1>10. Len(rcv') = Len(rcv) - k /\ \A i \in DOMAIN rcv' : rcv'[i] = rcv[i + k] /\ i + k \in DOMAIN rcv
    BY <1>4, <1>5, <1>9
<1> HIDE DEF k, pre
<1>11. Ends'
  <2>1. \A i \in DOMAIN rcv' : rcv'[i] = sent' - Len(rcv') + i
    <3>1. SUFFICES ASSUME NEW i \in DOMAIN rcv' PROVE rcv'[i] = sent' - Len(rcv') + i
        BY Zenon
    <3>2. i \in Int /\ rcv'[i] = rcv[i + k] /\ i + k \in DOMAIN rcv
        BY <1>4, <1>5, <1>9, <1>10
    <3>3. rcv[i + k] = sent - Len(rcv) + (i + k)
        BY <3>2, <1>1, Zenon DEF Ends
    <3> QED BY <3>2, <3>3, <1>2, <1>4, <1>10
  <2>2. Len(got') + Len(rcv') <= sent'
      BY <1>1, <1>2, <1>4, <1>10 DEF Ends
  <2> QED BY <2>1, <2>2, <1>1, <1>2, Zenon DEF Ends
<1>12. SUFFICES ASSUME ~closing PROVE Between'
    BY <1>2, <1>3, <1>11, Zenon DEF Kept, Between
<1>13. Carries(pre, hi, hi + k)
  <2>1. DOMAIN pre = 1..k
      BY <1>5
  <2>2. \A i, j \in DOMAIN pre : i < j => pre[i] < pre[j]
      BY <2>1, <1>4, <1>6
  <2>3. \A i \in DOMAIN pre : pre[i] \in hi + 1 .. hi + k
      BY <2>1, <1>4, <1>6
  <2>4. \A n \in hi + 1 .. hi + k : n - hi \in DOMAIN pre /\ pre[n - hi] = n
      BY <2>1, <1>4, <1>6
  <2> QED BY <2>2, <2>3, <2>4 DEF Carries
<1>14. Carries(Outcome, hi + k, hi + k)
    BY <1>4, <1>8 DEF Carries
<1>15. read \in Seq(Item) /\ Carries(read, hi, hi + k)
    BY <1>4, <1>5, <1>7, <1>13, <1>14, CarriesBoth
<1>16. EndsIn(read)
  <2>1. EndsIn(pre)
      BY <1>6, NotChunks DEF EndsIn
  <2>2. EndsIn(Outcome)
      BY <1>8 DEF EndsIn
  <2> QED BY <2>1, <2>2, <1>5, <1>7, <1>8, EndsBoth
<1>17. Eof \in Range(read) => Outcome = <<Eof>>
  <2>1. Range(read) = Range(pre) \cup Range(Outcome)
      BY <1>5, <1>7, RangeConcatenation
  <2>2. Eof \notin Range(pre)
      BY <1>6, NotChunks DEF Range
  <2> QED BY <2>1, <2>2, <1>8
<1>18. Eof \in Range(Queue) => fin /\ rcv = <<>>
    BY <1>1, <1>12 DEF Between
<1>19. ASSUME rcv = <<>> PROVE rcv' = <<>> /\ \A i \in DOMAIN read : read[i] \notin Chunk
  <2>1. k = 0 /\ Len(rcv) = 0
      BY <1>4, <1>19
  <2>2. pre = <<>>
      BY <2>1, <1>5
  <2>3. read = Outcome
      BY <2>2, <1>7, ConcatEmptySeq
  <2>4. rcv' = <<>>
      BY <2>1, <1>9, SubSeqEmpty
  <2> QED BY <2>3, <2>4, <1>8
<1> HIDE DEF read, hi
<1>20. Queue \in Seq(Item) /\ replay \in Seq(Item) /\ io \in Seq(Item)
    BY <1>1, QueueType
<1>21. Queue' = Queue \o read
  <2>1. Queue' = replay \o (io \o read)
      BY <1>2, <1>9 DEF Queue
  <2>2. (replay \o io) \o read = replay \o (io \o read)
    <3>1. Grouped(replay, io, read)
        BY <1>15, <1>20, Regroup, Zenon
    <3> QED BY <3>1, Zenon DEF Grouped
  <2> QED BY <2>1, <2>2 DEF Queue
<1>22. Carries(Queue \o read, Len(got), hi + k)
    BY <1>1, <1>4, <1>12, <1>15, <1>20, CarriesBoth DEF Between, hi
<1>23. EndsIn(Queue \o read)
    BY <1>1, <1>12, <1>15, <1>16, <1>18, <1>19, <1>20, EndsBoth, Zenon DEF Between
<1>24. Eof \in Range(Queue \o read) => fin /\ rcv' = <<>>
  <2>1. Range(Queue \o read) = Range(Queue) \cup Range(read)
      BY <1>15, <1>20, RangeConcatenation
  <2>2. CASE Eof \in Range(Queue)
      BY <2>2, <1>18, <1>19
  <2>3. CASE Eof \in Range(read)
    <3>1. fin /\ k = Len(rcv)
        BY <2>3, <1>7, <1>17 DEF k
    <3>2. rcv' = <<>>
        BY <3>1, <1>4, <1>9, SubSeqEmpty
    <3> QED BY <3>1, <3>2
  <2> QED BY <2>1, <2>2, <2>3, Zenon
<1>25. sent' - Len(rcv') = hi + k
    BY <1>2, <1>4, <1>10 DEF hi
<1> QED BY <1>2, <1>21, <1>22, <1>23, <1>24, <1>25 DEF Between

\* The batch delivers, stashes or drops a payload.
LEMMA DrainDataKept ==
    ASSUME ReadInv, Control', DeliverDrainData
    PROVE  Kept
<1>1. TypeOK /\ Ends /\ Between /\ Replays /\ TypeOK'
    BY DEF ReadInv, Control
<1>2. stack = <<>> /\ io # <<>> /\ UNCHANGED <<kernel, phase>>
    BY DEF DeliverDrainData
<1>3. UNCHANGED <<rcv, fin, sent>>
    BY <1>2 DEF kernel
<1>4. CASE closing /\ KeepReader(Tail(io)) /\ UNCHANGED <<trans, replay, stack, hist>>
  <2>1. UNCHANGED <<got, ended, paused, closing>>
      BY <1>4, Zenon DEF trans, hist
  <2>2. Ends' /\ Between'
      BY <2>1, <1>1, <1>3, <1>4, Zenon DEF Ends, Between
  <2> QED BY <2>1, <2>2, <1>3, StreamRests DEF Kept
<1>5. CASE /\ ~closing /\ Stashes /\ replay' = Append(replay, Head(io))
           /\ KeepReader(Tail(io)) /\ UNCHANGED <<trans, stack, hist>>
  <2>1. UNCHANGED <<got, ended, paused, closing>> /\ io' = Tail(io)
      BY <1>5 DEF trans, hist, KeepReader
  <2>2. Queue' = Queue
      BY <2>1, <1>1, <1>2, <1>5, QueueHead, ZenonT(30) DEF Queue
  <2>3. Ends' /\ Between'
      BY <2>1, <2>2, <1>1, <1>3 DEF Ends, Between
  <2> QED BY <2>1, <2>3, <1>3, StreamRests DEF Kept
<1>6. CASE ~closing /\ ~Stashes /\ Deliver(Head(io), <<>>, Tail(io)) /\ UNCHANGED replay
  <2>1. Range(<<>>) = {}
      BY DEF Range
  <2>2. replay = <<>> /\ Reading
      BY <2>1, <1>1, <1>2, <1>6 DEF Replays, Stashes, Reading
  <2>3. Queue = io
      BY <2>2, <1>1, QueueHead
  <2>4. replay' \o Tail(io) = Tail(Queue)
    <3>1. Tail(io) \in Seq(Item)
        BY <1>1, <1>2, QueueType
    <3> QED BY <3>1, <2>2, <2>3, <1>6, ConcatEmptySeq
  <2> QED BY <2>2, <2>3, <2>4, <1>2, <1>6, DeliverKept, Zenon
<1> QED BY <1>4, <1>5, <1>6 DEF DeliverDrainData

\* _flush_replay delivers the next item.
LEMMA FlushKept == ASSUME ReadInv, FlushNext PROVE Kept
<1>1. TypeOK
    BY DEF ReadInv, Control
<1>2. /\ replay # <<>> /\ Reading /\ replay' = Tail(replay)
      /\ Deliver(Head(replay), stack, io) /\ UNCHANGED <<kernel>>
    BY DEF FlushNext
<1>3. /\ Queue # <<>> /\ Head(Queue) = Head(replay)
      /\ Tail(Queue) = Tail(replay) \o io
    BY <1>1, <1>2, QueueHead, ZenonT(20)
<1> QED BY <1>2, <1>3, DeliverKept, Zenon

\* One recv into the protocol's buffer: nothing is queued before it.
LEMMA ReadReadyKept == ASSUME ReadInv, ReadReady PROVE Kept
<1>1. /\ TypeOK /\ Ends /\ Between /\ Replays /\ Watched /\ TypeReader /\ ReadyLast
      /\ closing \in BOOLEAN
    BY Types DEF ReadInv, Control, TypeOK
<1>2. /\ stack = <<>> /\ io # <<>> /\ Head(io) = Ready
      /\ UNCHANGED <<fin, sent, replay, phase, misrouted>>
    BY DEF ReadReady
<1>3. Len(io) = 1 /\ Tail(io) = <<>> /\ watch = "callback"
    BY <1>1, <1>2, NextCompletion
<1>4. ~closing /\ ~paused /\ replay = <<>>
  <2>1. Range(<<>>) = {}
      BY DEF Range
  <2> QED BY <2>1, <1>1, <1>2, <1>3 DEF Watched, Replays
<1>5. Queue = io /\ io \in Seq(Item) /\ DOMAIN io = {1} /\ io[1] = Ready
    BY <1>1, <1>2, <1>3, <1>4, QueueHead, QueueType
<1>6. /\ Len(got) \in Nat /\ Len(rcv) \in Nat /\ sent \in Nat
      /\ Len(got) <= sent - Len(rcv) /\ sent - Len(rcv) <= MaxSent
    BY <1>1, Counts
<1>7. Len(got) = sent - Len(rcv)
  <2>1. Carries(io, Len(got), sent - Len(rcv))
      BY <1>1, <1>4, <1>5 DEF Between
  <2>2. ASSUME Len(got) < sent - Len(rcv) PROVE FALSE
    <3>1. Len(got) + 1 \in Len(got) + 1 .. sent - Len(rcv)
        BY <2>2, <1>6
    <3>2. Ready = Len(got) + 1
        BY <3>1, <2>1, <1>5 DEF Carries
    <3>3. Len(got) + 1 \in Nat
        BY <1>6
    <3>4. Ready \notin Nat
        BY TransportConstants
    <3> QED BY <3>2, <3>3, <3>4
  <2> QED BY <2>2, <1>6
<1>8. ASSUME KeepReader(Tail(io)), Len(got') = sent' - Len(rcv') PROVE Between'
  <2>1. Queue' = <<>>
      BY <1>2, <1>3, <1>4, <1>8 DEF Queue, KeepReader
  <2>2. DOMAIN <<>> = {}
      OBVIOUS
  <2>3. Len(got') + 1 .. sent' - Len(rcv') = {}
    <3>1. sent' - Len(rcv') \in Int
        BY <1>8, <1>2, <1>6 DEF ReadReady
    <3> QED BY <3>1, <1>8
  <2> QED BY <2>1, <2>2, <2>3 DEF Between, Carries, EndsIn, Range
<1>9. CASE /\ rcv # <<>> /\ rcv' = Tail(rcv) /\ got' = Append(got, Head(rcv))
           /\ KeepReader(Tail(io)) /\ UNCHANGED <<err, trans, ended>>
  <2>1. got \in Seq(Chunk) /\ rcv \in Seq(Chunk) /\ Len(rcv) > 0
      BY <1>1, <1>6, <1>9 DEF TypeOK
  <2>2. Head(rcv) = Len(got) + 1 /\ Len(got) < sent
      BY <2>1, <1>1, <1>6, <1>7 DEF Ends
  <2>3. /\ Len(got') = Len(got) + 1 /\ Len(rcv') = Len(rcv) - 1
        /\ \A i \in DOMAIN got' : got'[i] = i
      BY <2>1, <2>2, <1>1, <1>9 DEF Ends
  <2>4. \A i \in DOMAIN rcv' : rcv'[i] = sent' - Len(rcv') + i
    <3>1. \A i \in DOMAIN rcv' : i \in Int /\ rcv'[i] = rcv[i + 1] /\ i + 1 \in DOMAIN rcv
        BY <2>1, <1>9
    <3>2. \A i \in DOMAIN rcv' : rcv'[i] = sent - Len(rcv) + (i + 1)
        BY <3>1, <1>1, Zenon DEF Ends
    <3> QED BY <3>1, <3>2, <2>3, <1>2, <1>6
  <2>5. Ends' /\ Len(got') = sent' - Len(rcv')
      BY <2>3, <2>4, <1>2, <1>6, <1>7 DEF Ends
  <2>6. StreamStep
      BY <2>2, <1>2, <1>4, <1>9, Zenon DEF StreamStep, Stream!Next, Stream!Deliver, trans
  <2> QED BY <2>5, <2>6, <1>8, <1>9, Zenon DEF Kept
<1>10. CASE Teardown(Tail(io)) /\ UNCHANGED <<rcv, got, ended>>
  <2>1. closing' = TRUE /\ UNCHANGED paused
      BY <1>10, ZenonT(30) DEF Teardown
  <2>2. Ends' /\ Between'
      BY <2>1, <1>1, <1>2, <1>10 DEF Ends, Between
  <2> QED BY <2>1, <2>2, <1>1, <1>2, <1>10, StreamRests DEF Kept
<1>11. CASE /\ rcv = <<>> /\ fin /\ ended' = TRUE /\ KeepReader(Tail(io))
            /\ UNCHANGED <<rcv, err, trans, got>>
  <2>1. Len(got) = sent
      BY <1>6, <1>7, <1>11
  <2>2. StreamStep
      BY <2>1, <1>2, <1>4, <1>11, Zenon DEF StreamStep, Stream!Next, Stream!End, trans
  <2>3. Ends' /\ Between'
      BY <1>1, <1>2, <1>7, <1>8, <1>11, Zenon DEF Ends
  <2> QED BY <2>2, <2>3 DEF Kept
<1>12. CASE KeepReader(Tail(io)) /\ UNCHANGED <<rcv, err, trans, stack, got, ended>>
  <2>1. Ends' /\ Between'
      BY <1>1, <1>2, <1>7, <1>8, <1>12 DEF Ends
  <2> QED BY <2>1, <1>2, <1>12, StreamRests, Zenon DEF Kept, trans
<1> QED BY <1>9, <1>10, <1>11, <1>12, ZenonT(30) DEF ReadReady

\* The transport's calls move no chunk.
LEMMA CallsKept ==
    ASSUME ReadInv, Control',
           StartReading \/ pause_reading \/ resume_reading \/ FlushDone
             \/ Return \/ Raise \/ close \/ \E kind \in Switches : set_protocol(kind)
    PROVE  Kept
<1>1. /\ TypeOK /\ TypeReader /\ TypeProtocol /\ ReadyLast /\ io \in Seq(Item)
      /\ proto \in Kind /\ LastReady(io) /\ closing \in BOOLEAN /\ TypeOK'
    BY Types, Zenon DEF ReadInv, Control, TypeReader, TypeProtocol, ReadyLast
<1>2. UNCHANGED <<replay, rcv, sent, got, ended, fin>>
    BY Zenon DEF StartReading, pause_reading, resume_reading, FlushDone, Return, Raise, close,
           set_protocol, kernel, hist
<1>3. \/ UNCHANGED <<paused, closing>>
      \/ ~closing /\ ~paused /\ paused' = TRUE /\ UNCHANGED closing
      \/ ~closing /\ paused /\ paused' = FALSE /\ UNCHANGED closing
      \/ closing' = TRUE /\ closing \in BOOLEAN /\ UNCHANGED paused
    BY <1>1, ZenonT(30) DEF StartReading, pause_reading, resume_reading, FlushDone, Return, Raise,
           close, set_protocol, Teardown, Reading, trans
<1>4. \E kind \in Kind : Register(kind, io) \/ remove_reader(io) \/ KeepReader(io)
  <2>1. Switches \subseteq Kind
      BY TransportConstants, Zenon
  <2> QED BY <2>1, <1>1
          DEF StartReading, pause_reading, resume_reading, FlushDone, Return, Raise,
              close, set_protocol, Teardown
<1>5. io' = io \/ io = Append(io', Ready)
    BY <1>1, <1>4, ReaderStep
<1>6. closing' \/ ~closing
    BY <1>1, <1>3
<1>7. Ends' /\ Between'
    BY <1>1, <1>2, <1>5, <1>6, NothingMoves, Zenon
<1>8. StreamStep
    BY <1>2, <1>3, StreamRests, ZenonT(30)
<1> QED BY <1>7, <1>8, Zenon DEF Kept

\* Every step keeps the data in order and is a step of the stream, or none.
LEMMA ReadNext ==
    ASSUME Contained, ReadInv, [Next]_vars
    PROVE  ReadInv' /\ StreamStep
<1>1. Control' /\ TypeOK /\ Ends /\ Between /\ TypeOK'
    BY ControlNext DEF ReadInv, Control
<1>2. CASE Send \/ Finish \/ Reject
    BY <1>1, <1>2, KernelKept DEF Kept, ReadInv
<1>3. CASE Task
    BY <1>1, <1>3, DrainKept DEF Kept, ReadInv, Task, DrainOn, DrainWoken
<1>4. CASE DeliverDrainData \/ ReadReady \/ FlushNext
    BY <1>1, <1>4, DrainDataKept, ReadReadyKept, FlushKept DEF Kept, ReadInv
<1>5. CASE StartReading \/ pause_reading \/ resume_reading \/ FlushDone
             \/ Return \/ Raise \/ close \/ \E kind \in Switches : set_protocol(kind)
    BY <1>1, <1>5, CallsKept DEF Kept, ReadInv
<1>6. CASE UNCHANGED <<kernel, io, trans, replay, hist>>
  <2>1. UNCHANGED <<io, replay, rcv, sent, got, ended, fin, paused, closing>>
      BY <1>6, Zenon DEF kernel, trans, hist
  <2>2. Ends' /\ Between'
      BY <2>1, <1>1, Zenon DEF Ends, Between, Queue
  <2>3. StreamStep
      BY <2>1, StreamRests, Zenon
  <2> QED BY <2>2, <2>3, <1>1 DEF ReadInv
<1>7. CASE CallbackFires
  <2>1. UNCHANGED <<replay, rcv, sent, got, ended, fin, paused, closing>>
        /\ io' = Append(io, Ready)
      BY <1>7 DEF CallbackFires, kernel, trans, hist
  <2>2. Queue \in Seq(Item) /\ replay \in Seq(Item) /\ io \in Seq(Item) /\ Ready \in Item
      BY <1>1, QueueType DEF Item
  <2>3. Queue' = Append(Queue, Ready)
    <3> DEFINE s == replay \o Append(io, Ready)
               t == Append(replay \o io, Ready)
    <3>1. s \in Seq(Item) /\ t \in Seq(Item) /\ Len(s) = Len(t)
        BY <2>2
    <3>2. \A i \in 1..Len(s) : s[i] = t[i]
        BY <2>2
    <3> HIDE DEF s, t
    <3>3. s = t
        BY <3>1, <3>2, SeqEqual, Zenon
    <3> QED BY <3>3, <2>1 DEF s, t, Queue
  <2>4. Eof \in Range(Append(Queue, Ready)) => Eof \in Range(Queue)
      BY <2>2, NotChunks DEF Range
  <2>5. Ends' /\ Between'
      BY <2>1, <2>2, <2>3, <2>4, <1>1, CarriesAppend, Counts, Zenon DEF Ends, Between
  <2>6. StreamStep
      BY <2>1, StreamRests
  <2> QED BY <2>5, <2>6, <1>1 DEF ReadInv
<1> QED BY <1>2, <1>3, <1>4, <1>5, <1>6, <1>7
        DEF Next, Batch, EnterIo, EndBatch, BeginBatch, Goto, DriverTurn, Escape, vars

\* Before the first chunk.
LEMMA ReadInit == Init => ReadInv /\ Stream!Init
<1> SUFFICES ASSUME Init PROVE ReadInv /\ Stream!Init
    OBVIOUS
<1>1. got = <<>> /\ rcv = <<>> /\ io = <<>> /\ replay = <<>> /\ sent = 0
    BY DEF Init
<1>2. Queue = <<>> /\ DOMAIN <<>> = {} /\ Len(<<>>) = 0 /\ Range(<<>>) = {}
    BY <1>1 DEF Queue, Range
<1>3. Ends /\ Between
    BY <1>1, <1>2 DEF Ends, Between, Carries, EndsIn
<1> QED BY <1>3, ControlInit DEF ReadInv, Init, Stream!Init

-----------------------------------------------------------------------------
(* Theorems.  Contained excepts one case: error_received of a datagram     *)
(* protocol raises through resume_reading, and what it had stashed stays   *)
(* behind what arrives later.                                              *)

\* The inductive invariant of the read side.
THEOREM ReadInvariant == ASSUME Contained PROVE Spec => []ReadInv
<1>1. Init => ReadInv
    BY ReadInit
<1>2. ReadInv /\ [Next]_vars => ReadInv'
    BY ReadNext
<1> QED BY <1>1, <1>2, PTL DEF Spec

\* For any number of chunks, any quantum, any depth of calls and any switches
\* of the protocol: what was delivered, stashed, queued and left in the kernel
\* is together what the peer sent, each chunk once and in order.
THEOREM NoChunkLost == ASSUME Contained PROVE Spec => []NothingLost
<1>1. ReadInv => NothingLost
  <2> SUFFICES ASSUME ReadInv, ~closing PROVE NothingLost
      BY Zenon DEF NothingLost
  <2>1. TypeOK /\ Ends /\ Between
      BY DEF ReadInv, Control
  <2>2. /\ Len(got) \in Nat /\ Len(rcv) \in Nat /\ sent \in Nat /\ sent <= MaxSent
        /\ sent - Len(rcv) \in Nat /\ Len(got) <= sent - Len(rcv)
      BY <2>1, Counts
  <2>3. got \in Seq(Chunk) /\ rcv \in Seq(Chunk) /\ Chunk \subseteq Item
      BY <2>1 DEF TypeOK, Item
  <2>4. got \in Seq(Item) /\ rcv \in Seq(Item) /\ replay \in Seq(Item) /\ io \in Seq(Item)
        /\ Queue \in Seq(Item)
      BY <2>1, <2>3, QueueType, SeqMonotonic
  <2>5. Carries(got, 0, Len(got))
    <3>1. DOMAIN got = 1..Len(got) /\ \A i \in DOMAIN got : got[i] = i
        BY <2>1, <2>3 DEF Ends
    <3> QED BY <3>1, <2>2 DEF Carries
  <2>6. Carries(rcv, sent - Len(rcv), sent)
    <3> DEFINE d == sent - Len(rcv)
    <3>1. DOMAIN rcv = 1..Len(rcv) /\ \A i \in DOMAIN rcv : rcv[i] = d + i
        BY <2>1, <2>3 DEF Ends
    <3>2. d \in Nat /\ d + Len(rcv) = sent
        BY <2>2
    <3> HIDE DEF d
    <3>3. \A n \in d + 1 .. sent : n - d \in DOMAIN rcv /\ rcv[n - d] = n
        BY <3>1, <3>2, <2>2
    <3>4. \A i \in DOMAIN rcv : rcv[i] \in d + 1 .. sent
        BY <3>1, <3>2, <2>2
    <3>5. \A i, j \in DOMAIN rcv : i < j => rcv[i] < rcv[j]
        BY <3>1, <3>2, <2>2
    <3> QED BY <3>3, <3>4, <3>5, Zenon DEF Carries, d
  <2>7. Carries(Queue, Len(got), sent - Len(rcv))
      BY <2>1 DEF Between
  <2> DEFINE gq  == got \o Queue
             all == gq \o rcv
  <2>8. gq \in Seq(Item) /\ Carries(gq, 0, sent - Len(rcv))
      BY <2>2, <2>4, <2>5, <2>7, CarriesBoth
  <2> HIDE DEF gq
  <2>9. all \in Seq(Item) /\ Carries(all, 0, sent)
    <3>1. sent - Len(rcv) <= sent /\ 0 <= sent - Len(rcv) /\ 0 \in Nat
        BY <2>2
    <3> QED BY <3>1, <2>2, <2>4, <2>6, <2>8, CarriesBoth
  <2>10. got \o replay \o io \o rcv = all
    <3>1. (got \o replay) \o io = got \o (replay \o io)
        <4>1. Grouped(got, replay, io)
            BY <2>4, Regroup, Zenon
        <4> QED BY <4>1, Zenon DEF Grouped
    <3> QED BY <3>1, Zenon DEF Queue, gq
  <2> HIDE DEF all
  <2>11. 1..sent \subseteq Chunk
      BY <2>2, TransportConstants DEF Chunk
  <2>12. {all[i] : i \in {j \in DOMAIN all : all[j] \in Chunk}} = 1..sent
      BY <2>9, <2>11 DEF Carries
  <2> QED BY <2>9, <2>10, <2>12 DEF NothingLost, Carries
<1> QED BY <1>1, ReadInvariant, PTL

\* The read side of a transport implements ByteStream: the protocol receives
\* what the peer sent, in order, the end after the last chunk, and nothing
\* while it has paused or after the transport closed.
THEOREM TransportIsStream == ASSUME Contained PROVE Spec => ImplementsStream
<1>1. Init => Stream!Init
    BY ReadInit
<1>2. ReadInv /\ [Next]_vars => [Stream!Next]_(Stream!vars)
    BY ReadNext DEF StreamStep
<1> QED BY <1>1, <1>2, ReadInvariant, PTL DEF Spec, ImplementsStream, Stream!Spec
=============================================================================
