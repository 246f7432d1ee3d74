------------------------ MODULE WriteTransportProofs ------------------------
(***************************************************************************)
(* Proofs about the write side of a transport, for any sizes written, any  *)
(* water marks, any depth of the stack and every way a send may end: what  *)
(* was written reaches the wire in order, connection_lost is called once,  *)
(* and the writer is registered exactly while bytes are unsent.            *)
(***************************************************************************)
EXTENDS WriteTransport, SequenceTheorems, WellFoundedInduction, TLAPS

\* The n numbers after a: what a call writes after a bytes have been written.
Run(a, n) == [j \in 1..n |-> a + j]

\* Distinct bytes in order, none of them after the n-th.
Rising(s, n) ==
    /\ s \in Seq(Nat)
    /\ \A i \in 1..Len(s) : 1 <= s[i] /\ s[i] <= n
    /\ \A i, j \in 1..Len(s) : i < j => s[i] < s[j]

\* What is on the wire and what is left.  A stream transport keeps everything
\* until an error or an abort, and has nothing to send once it is shut down.
Data ==
    /\ buffer \in Seq(Seq(Nat)) /\ wire \in Seq(Nat) /\ written \in 0..MaxWritten
    /\ Rising(wire \o Bytes(buffer), written)
    /\ sock = "stream" /\ ~conn_lost => wire \o Bytes(buffer) = Run(0, written)
    /\ shut => eof /\ (conn_lost \/ (buffer = <<>> /\ wire = Run(0, written)))
    /\ sock = "datagram" => ~eof

\* connection_lost is scheduled with the connection marked lost, and only then.
Control ==
    /\ sock \in {"stream", "datagram", "none"} /\ stack \in Seq(Frame)
    /\ stale \in 0..MaxWritten /\ lost \in Nat
    /\ scheduled \in 0..1 /\ (scheduled = 1 => conn_lost) /\ (conn_lost => closing)

WriteInv == Data /\ Control

\* A protocol writes nothing in connection_lost.
Parted == "write" \notin Parting /\ "writelines" \notin Parting

Holds(frame, st) == \E i \in 1..Len(st) : st[i] = frame

\* The frame of connection_lost is the innermost one, and the socket goes with it.
LostInv ==
    \/ lost = 0 /\ open /\ ~Holds("lost", stack)
    \/ /\ lost = 1 /\ open /\ stack # <<>>
       /\ Head(stack) = "lost" /\ ~Holds("lost", Tail(stack))
    \/ lost = 1 /\ ~open /\ ~Holds("lost", stack)

\* No call of writelines has an empty piece in it.
Solid == \A sizes \in Lines : \A i \in 1..Len(sizes) : sizes[i] # 0

Full(buf) == \A i \in 1..Len(buf) : buf[i] # <<>>

\* Unsent bytes have a writer, or a writelines that will register one; a writer
\* with nothing to send is removed when resume_writing returns.
Writing ==
    /\ Full(buffer)
    /\ sock = "stream" =>
         /\ conn_lost => buffer = <<>>
         /\ buffer # <<>> => writer \/ Holds("lines", stack)
         /\ writer => buffer # <<>> \/ Holds("resume", stack)
         /\ stack # <<>> /\ Head(stack) = "lost" => ~writer
-----------------------------------------------------------------------------
(* Recursive definitions over the prefixes of a sequence.                   *)

\* Induction over the natural numbers, for a set.
LEMMA SetInduction ==
    ASSUME NEW S, 0 \in S, \A n \in Nat : n \in S => n + 1 \in S
    PROVE  Nat \subseteq S
<1> DEFINE T == Nat \ S
           R == {p \in Nat \X Nat : p[1] < p[2]}
<1> SUFFICES ASSUME T # {} PROVE FALSE
    OBVIOUS
<1>1. OpToRel(<, Nat) = R
    BY DEF OpToRel
<1>2. IsWellFoundedOn(R, Nat)
    BY <1>1, NatLessThanWellFounded
<1>3. PICK x \in T : \A y \in T : <<y, x>> \notin R
    <2> HIDE DEF R
    <2> QED BY <1>2, WFMin, Zenon
<1>4. x \in Nat /\ x # 0 /\ x - 1 \in Nat
    OBVIOUS
<1>5. <<x - 1, x>> \in R
    BY <1>4
<1>6. x - 1 \in S
    BY <1>3, <1>4, <1>5
<1> QED BY <1>4, <1>6

\* Some function on 0..n starts with a and goes on as g says.
Recurs(D, a, g, n) ==
    \E f \in [0..n -> D] : f[0] = a /\ \A k \in 1..n : f[k] = g[<<k, f[k - 1]>>]

\* Recursion along 0..n defines a function.
LEMMA PrefixRecursion ==
    ASSUME NEW D, NEW a \in D, NEW g, \A k \in Nat, x \in D : g[<<k, x>>] \in D, NEW n \in Nat
    PROVE  Recurs(D, a, g, n)
<1> DEFINE Goes(f, m) == f[0] = a /\ \A k \in 1..m : f[k] = g[<<k, f[k - 1]>>]
           E == {m \in Nat : \E f \in [0..m -> D] : Goes(f, m)}
<1>1. 0 \in E
    <2> DEFINE h == [k \in 0..0 |-> a]
    <2>1. h \in [0..0 -> D] /\ Goes(h, 0)
        OBVIOUS
    <2> QED BY <2>1, Zenon
<1>2. ASSUME NEW m \in Nat, m \in E PROVE m + 1 \in E
    <2>1. PICK f \in [0..m -> D] : Goes(f, m)
        BY <1>2
    <2> DEFINE h == [k \in 0..m + 1 |-> IF k = m + 1 THEN g[<<m + 1, f[m]>>] ELSE f[k]]
    <2>2. h \in [0..m + 1 -> D]
        OBVIOUS
    <2>3. ASSUME NEW k \in 1..m + 1 PROVE h[k] = g[<<k, h[k - 1]>>]
        <3>1. CASE k = m + 1
            <4>1. k - 1 = m /\ m \in 0..m + 1 /\ m # m + 1 /\ k \in 0..m + 1
                BY <3>1
            <4> QED BY <3>1, <4>1
        <3>2. CASE k # m + 1
            <4>1. k \in 1..m /\ k \in 0..m + 1 /\ k - 1 \in 0..m + 1 /\ k - 1 # m + 1
                BY <3>2
            <4> QED BY <2>1, <3>2, <4>1
        <3> QED BY <3>1, <3>2
    <2>4. h[0] = a
        BY <2>1
    <2>5. Goes(h, m + 1)
        BY <2>3, <2>4, Zenon
    <2>6. \E f1 \in [0..m + 1 -> D] : Goes(f1, m + 1)
        <3> HIDE DEF h, Goes
        <3> QED BY <2>2, <2>5
    <2> QED BY <2>6
<1>3. Nat \subseteq E
    <2> HIDE DEF E
    <2> QED BY <1>1, <1>2, SetInduction
<1> QED BY <1>3, Zenon DEF Recurs

\* What its recursive definition makes of Bytes.
LEMMA BytesUpto ==
    ASSUME NEW S, NEW buf \in Seq(Seq(S))
    PROVE  \E f \in [0..Len(buf) -> Seq(S)] :
               /\ f[0] = <<>> /\ Bytes(buf) = f[Len(buf)]
               /\ \A k \in 1..Len(buf) : f[k] = f[k - 1] \o buf[k]
<1> DEFINE g == [p \in Nat \X Seq(S) |-> IF p[1] \in 1..Len(buf) THEN p[2] \o buf[p[1]] ELSE p[2]]
           Joins(f) == f = [k \in 0..Len(buf) |-> IF k = 0 THEN <<>> ELSE f[k - 1] \o buf[k]]
<1>1. \A k \in 1..Len(buf) : buf[k] \in Seq(S)
    OBVIOUS
<1>2. ASSUME NEW k \in Nat, NEW x \in Seq(S) PROVE g[<<k, x>>] \in Seq(S)
    BY <1>1
<1>3. PICK f \in [0..Len(buf) -> Seq(S)] : f[0] = <<>> /\ \A k \in 1..Len(buf) : f[k] = g[<<k, f[k - 1]>>]
    <2> HIDE DEF g
    <2> DEFINE D == Seq(S)
    <2>1. <<>> \in D /\ Len(buf) \in Nat
        OBVIOUS
    <2>2. \A k \in Nat, x \in D : g[<<k, x>>] \in D
        BY <1>2, Zenon
    <2> HIDE DEF D
    <2>3. Recurs(D, <<>>, g, Len(buf))
        BY <2>1, <2>2, PrefixRecursion
    <2> QED BY <2>3, Zenon DEF D, Recurs
<1>4. \A k \in 1..Len(buf) : f[k] = f[k - 1] \o buf[k]
    <2> SUFFICES ASSUME NEW k \in 1..Len(buf) PROVE f[k] = f[k - 1] \o buf[k]
        BY Zenon
    <2>1. k \in Nat /\ k - 1 \in 0..Len(buf)
        OBVIOUS
    <2>2. f[k - 1] \in Seq(S)
        BY <2>1, Zenon
    <2> QED BY <1>3, <2>1, <2>2, Zenon
<1>5. Joins(f)
    BY <1>3, <1>4
<1> DEFINE h == CHOOSE f1 : Joins(f1)
<1>6. Joins(h)
    BY <1>5, Zenon
<1>7. Bytes(buf) = h[Len(buf)]
    BY DEF Bytes
<1>8. h[0] = <<>> /\ \A k \in 1..Len(buf) : h[k] = h[k - 1] \o buf[k]
    <2> HIDE DEF h
    <2>1. \A k \in 0..Len(buf) : h[k] = IF k = 0 THEN <<>> ELSE h[k - 1] \o buf[k]
        BY <1>6, Zenon
    <2>2. 0 \in 0..Len(buf) /\ \A k \in 1..Len(buf) : k \in 0..Len(buf) /\ k # 0
        OBVIOUS
    <2> QED BY <2>1, <2>2, Zenon
<1>9. \A m \in Nat : m \in 0..Len(buf) => h[m] = f[m]
    <2> HIDE DEF h
    <2> DEFINE E == {m \in Nat : m \in 0..Len(buf) => h[m] = f[m]}
    <2>1. 0 \in E
        BY <1>3, <1>8
    <2>2. ASSUME NEW m \in Nat, m \in E PROVE m + 1 \in E
        <3> SUFFICES ASSUME m + 1 \in 0..Len(buf) PROVE h[m + 1] = f[m + 1]
            OBVIOUS
        <3>1. m \in 0..Len(buf) /\ m + 1 \in 1..Len(buf) /\ (m + 1) - 1 = m
            OBVIOUS
        <3> QED BY <1>4, <1>8, <2>2, <3>1, Zenon
    <2>3. Nat \subseteq E
        <3> HIDE DEF E
        <3> QED BY <2>1, <2>2, SetInduction
    <2> QED BY <2>3
<1>10. Bytes(buf) = f[Len(buf)]
    BY <1>7, <1>9
<1> QED BY <1>3, <1>4, <1>10, Zenon
Buf == Seq(Seq(Nat))

\* The pieces of a buffer hold bytes.
LEMMA BytesType == \A buf \in Buf : Bytes(buf) \in Seq(Nat) /\ Size(buf) \in Nat
<1> SUFFICES ASSUME NEW buf \in Buf PROVE Bytes(buf) \in Seq(Nat)
    BY DEF Size
<1>1. PICK f \in [0..Len(buf) -> Seq(Nat)] : Bytes(buf) = f[Len(buf)]
    BY BytesUpto, Zenon DEF Buf
<1>2. Len(buf) \in 0..Len(buf)
    BY DEF Buf
<1> QED BY <1>1, <1>2

\* An empty buffer has no bytes.
LEMMA BytesEmpty == Bytes(<<>>) = <<>> /\ Size(<<>>) = 0
<1> DEFINE e == <<>>
<1>1. e \in Buf /\ Len(e) = 0
    BY DEF Buf
<1> HIDE DEF e
<1>2. PICK f \in [0..Len(e) -> Seq(Nat)] : f[0] = <<>> /\ Bytes(e) = f[Len(e)]
    BY <1>1, BytesUpto DEF Buf
<1> QED BY <1>1, <1>2 DEF Size, e

\* A piece put at the end adds its bytes at the end.
LEMMA BytesAppend ==
    ASSUME NEW buf \in Buf, NEW p \in Seq(Nat)
    PROVE  Bytes(Append(buf, p)) = Bytes(buf) \o p
<1> DEFINE new == Append(buf, p)
<1>1. /\ new \in Buf /\ Len(new) = Len(buf) + 1 /\ new[Len(buf) + 1] = p
      /\ \A i \in 1..Len(buf) : new[i] = buf[i]
    BY DEF Buf
<1>2. PICK f \in [0..Len(buf) -> Seq(Nat)] :
          /\ f[0] = <<>> /\ Bytes(buf) = f[Len(buf)]
          /\ \A k \in 1..Len(buf) : f[k] = f[k - 1] \o buf[k]
    BY BytesUpto, Zenon DEF Buf
<1> HIDE DEF new
<1>3. PICK h \in [0..Len(new) -> Seq(Nat)] :
          /\ h[0] = <<>> /\ Bytes(new) = h[Len(new)]
          /\ \A k \in 1..Len(new) : h[k] = h[k - 1] \o new[k]
    BY <1>1, BytesUpto DEF Buf
<1>4. Len(buf) \in Nat
    BY DEF Buf
<1> DEFINE E == {m \in Nat : m \in 0..Len(buf) => h[m] = f[m]}
<1>5. 0 \in E
    BY <1>2, <1>3
<1>6. ASSUME NEW m \in Nat, m \in E PROVE m + 1 \in E
    <2> SUFFICES ASSUME m + 1 \in 0..Len(buf) PROVE h[m + 1] = f[m + 1]
        OBVIOUS
    <2>1. /\ m \in 0..Len(buf) /\ m + 1 \in 1..Len(buf) /\ m + 1 \in 1..Len(new)
          /\ (m + 1) - 1 = m
        BY <1>1, <1>4
    <2>2. h[m] = f[m]
        BY <1>6, <2>1
    <2>3. h[m + 1] = h[m] \o new[m + 1]
        BY <1>3, <2>1, Zenon
    <2>4. f[m + 1] = f[m] \o buf[m + 1]
        BY <1>2, <2>1, Zenon
    <2> QED BY <1>1, <2>1, <2>2, <2>3, <2>4, Zenon
<1>7. Nat \subseteq E
    <2> HIDE DEF E
    <2> QED BY <1>5, <1>6, SetInduction
<1>8. h[Len(buf)] = f[Len(buf)]
    BY <1>4, <1>7
<1>9. h[Len(buf) + 1] = h[Len(buf)] \o p
    <2>1. Len(buf) + 1 \in 1..Len(new) /\ (Len(buf) + 1) - 1 = Len(buf)
        BY <1>1, <1>4
    <2> QED BY <1>1, <1>3, <2>1, Zenon
<1>10. Bytes(new) = Bytes(buf) \o p
    BY <1>1, <1>2, <1>3, <1>8, <1>9
<1> QED BY <1>10 DEF new

\* A single piece is its bytes.
LEMMA BytesOne == \A p \in Seq(Nat) : Bytes(<<p>>) = p
<1> SUFFICES ASSUME NEW p \in Seq(Nat) PROVE Bytes(<<p>>) = p
    OBVIOUS
<1>1. <<>> \in Buf /\ Append(<<>>, p) = <<p>>
    BY DEF Buf
<1>2. Bytes(<<p>>) = <<>> \o p
    BY <1>1, BytesAppend, BytesEmpty, Zenon
<1> QED BY <1>2, ConcatEmptySeq

\* Concatenation is associative.
LEMMA Assoc == \A s, t, u \in Seq(Nat) : s \o (t \o u) = (s \o t) \o u
<1> SUFFICES ASSUME NEW s \in Seq(Nat), NEW t \in Seq(Nat), NEW u \in Seq(Nat)
             PROVE  s \o (t \o u) = (s \o t) \o u
    BY Zenon
<1>1. (s \o t) \o u = s \o (t \o u)
    BY ConcatAssociative, SMTT(30)
<1> QED BY <1>1

Grouped(s, t, u) == s \o (t \o u) = (s \o t) \o u

\* The same, with the equation behind a name.
LEMMA Regroup == \A s, t, u \in Seq(Nat) : Grouped(s, t, u)
    BY Assoc, Zenon DEF Grouped

\* The bytes of two buffers follow one another.
LEMMA BytesConcat ==
    ASSUME NEW s \in Buf, NEW t \in Buf
    PROVE  Bytes(s \o t) = Bytes(s) \o Bytes(t)
<1> DEFINE Splits(u) == Bytes(s \o u) = Bytes(s) \o Bytes(u)
           E == {n \in Nat : \A u \in Buf : Len(u) = n => Splits(u)}
<1>1. 0 \in E
    <2> SUFFICES ASSUME NEW u \in Buf, Len(u) = 0 PROVE Splits(u)
        OBVIOUS
    <2>1. u = <<>>
        BY DEF Buf
    <2>2. s \o <<>> = s /\ Bytes(s) \o <<>> = Bytes(s)
        BY BytesType, ConcatEmptySeq DEF Buf
    <2> QED BY <2>1, <2>2, BytesEmpty, Zenon
<1>2. ASSUME NEW n \in Nat, n \in E PROVE n + 1 \in E
    <2> SUFFICES ASSUME NEW u \in Buf, Len(u) = n + 1 PROVE Splits(u)
        OBVIOUS
    <2>1. u # <<>>
        BY DEF Buf
    <2>2. PICK v \in Buf, p \in Seq(Nat) : u = Append(v, p)
        BY <2>1, SequenceEmptyOrAppend, Zenon DEF Buf
    <2>3. Len(v) = n
        BY <2>2 DEF Buf
    <2>4. Bytes(s \o v) = Bytes(s) \o Bytes(v)
        BY <1>2, <2>3
    <2>5. s \o u = Append(s \o v, p) /\ s \o v \in Buf
        BY <2>2 DEF Buf
    <2>6. Bytes(s \o u) = (Bytes(s) \o Bytes(v)) \o p
        BY <2>4, <2>5, BytesAppend, Zenon
    <2>7. Bytes(u) = Bytes(v) \o p
        BY <2>2, BytesAppend
    <2>8. Bytes(s) \in Seq(Nat) /\ Bytes(v) \in Seq(Nat)
        BY BytesType
    <2>9. (Bytes(s) \o Bytes(v)) \o p = Bytes(s) \o (Bytes(v) \o p)
        BY <2>8, Assoc, Zenon
    <2> QED BY <2>6, <2>7, <2>9, Zenon
<1>3. Nat \subseteq E
    <2> HIDE DEF E
    <2> QED BY <1>1, <1>2, SetInduction
<1>4. Len(t) \in Nat
    BY DEF Buf
<1> QED BY <1>3, <1>4

\* Total is the last of the partial sums.
LEMMA TotalUpto ==
    ASSUME NEW sizes \in Seq(Nat)
    PROVE  \E f \in [0..Len(sizes) -> Nat] :
               /\ f[0] = 0 /\ Total(sizes) = f[Len(sizes)]
               /\ \A k \in 1..Len(sizes) : f[k] = f[k - 1] + sizes[k]
<1> DEFINE g == [p \in Nat \X Nat |-> IF p[1] \in 1..Len(sizes) THEN p[2] + sizes[p[1]] ELSE p[2]]
           Adds(f) == f = [k \in 0..Len(sizes) |-> IF k = 0 THEN 0 ELSE f[k - 1] + sizes[k]]
<1>1. \A k \in 1..Len(sizes) : sizes[k] \in Nat
    OBVIOUS
<1>2. ASSUME NEW k \in Nat, NEW x \in Nat PROVE g[<<k, x>>] \in Nat
    BY <1>1
<1>3. PICK f \in [0..Len(sizes) -> Nat] : f[0] = 0 /\ \A k \in 1..Len(sizes) : f[k] = g[<<k, f[k - 1]>>]
    <2> HIDE DEF g
    <2>1. 0 \in Nat /\ Len(sizes) \in Nat
        OBVIOUS
    <2>2. \A k \in Nat, x \in Nat : g[<<k, x>>] \in Nat
        BY <1>2, Zenon
    <2>3. Recurs(Nat, 0, g, Len(sizes))
        BY <2>1, <2>2, PrefixRecursion, Zenon
    <2> QED BY <2>3, Zenon DEF Recurs
<1>4. \A k \in 1..Len(sizes) : f[k] = f[k - 1] + sizes[k]
    <2> SUFFICES ASSUME NEW k \in 1..Len(sizes) PROVE f[k] = f[k - 1] + sizes[k]
        OBVIOUS
    <2>1. k \in Nat /\ k - 1 \in 0..Len(sizes)
        OBVIOUS
    <2>2. f[k - 1] \in Nat
        BY <2>1
    <2> QED BY <1>3, <2>1, <2>2, Zenon
<1>5. Adds(f)
    BY <1>3, <1>4
<1> DEFINE h == CHOOSE f1 : Adds(f1)
<1>6. Adds(h)
    BY <1>5, Zenon
<1>7. Total(sizes) = h[Len(sizes)]
    BY DEF Total
<1>8. h[0] = 0 /\ \A k \in 1..Len(sizes) : h[k] = h[k - 1] + sizes[k]
    <2> HIDE DEF h
    <2>1. \A k \in 0..Len(sizes) : h[k] = IF k = 0 THEN 0 ELSE h[k - 1] + sizes[k]
        BY <1>6, Zenon
    <2>2. 0 \in 0..Len(sizes) /\ \A k \in 1..Len(sizes) : k \in 0..Len(sizes) /\ k # 0
        OBVIOUS
    <2> QED BY <2>1, <2>2, Zenon
<1>9. \A m \in Nat : m \in 0..Len(sizes) => h[m] = f[m]
    <2> HIDE DEF h
    <2> DEFINE E == {m \in Nat : m \in 0..Len(sizes) => h[m] = f[m]}
    <2>1. 0 \in E
        BY <1>3, <1>8
    <2>2. ASSUME NEW m \in Nat, m \in E PROVE m + 1 \in E
        <3> SUFFICES ASSUME m + 1 \in 0..Len(sizes) PROVE h[m + 1] = f[m + 1]
            OBVIOUS
        <3>1. m \in 0..Len(sizes) /\ m + 1 \in 1..Len(sizes) /\ (m + 1) - 1 = m
            OBVIOUS
        <3> QED BY <1>4, <1>8, <2>2, <3>1
    <2>3. Nat \subseteq E
        <3> HIDE DEF E
        <3> QED BY <2>1, <2>2, SetInduction, Zenon
    <2> QED BY <2>3
<1>10. Total(sizes) = f[Len(sizes)]
    BY <1>7, <1>9
<1> QED BY <1>3, <1>4, <1>10

\* Sizes add up to a number.
LEMMA TotalType == \A sizes \in Seq(Nat) : Total(sizes) \in Nat
<1> SUFFICES ASSUME NEW sizes \in Seq(Nat) PROVE Total(sizes) \in Nat
    OBVIOUS
<1>1. PICK f \in [0..Len(sizes) -> Nat] : Total(sizes) = f[Len(sizes)]
    BY TotalUpto
<1>2. Len(sizes) \in 0..Len(sizes)
    OBVIOUS
<1> QED BY <1>1, <1>2

\* No sizes add up to 0.
LEMMA TotalEmpty == Total(<<>>) = 0
<1> DEFINE e == <<>>
<1>1. e \in Seq(Nat) /\ Len(e) = 0
    OBVIOUS
<1> HIDE DEF e
<1>2. PICK f \in [0..Len(e) -> Nat] : f[0] = 0 /\ Total(e) = f[Len(e)]
    BY <1>1, TotalUpto, Zenon
<1> QED BY <1>1, <1>2 DEF e

\* A size put at the end is added.
LEMMA TotalAppend ==
    ASSUME NEW sizes \in Seq(Nat), NEW n \in Nat
    PROVE  Total(Append(sizes, n)) = Total(sizes) + n
<1> DEFINE new == Append(sizes, n)
<1>1. /\ new \in Seq(Nat) /\ Len(new) = Len(sizes) + 1 /\ new[Len(sizes) + 1] = n
      /\ \A i \in 1..Len(sizes) : new[i] = sizes[i]
    OBVIOUS
<1>2. PICK f \in [0..Len(sizes) -> Nat] :
          /\ f[0] = 0 /\ Total(sizes) = f[Len(sizes)]
          /\ \A k \in 1..Len(sizes) : f[k] = f[k - 1] + sizes[k]
    BY TotalUpto
<1> HIDE DEF new
<1>3. PICK h \in [0..Len(new) -> Nat] :
          /\ h[0] = 0 /\ Total(new) = h[Len(new)]
          /\ \A k \in 1..Len(new) : h[k] = h[k - 1] + new[k]
    BY <1>1, TotalUpto, Zenon
<1>4. Len(sizes) \in Nat
    OBVIOUS
<1> DEFINE E == {m \in Nat : m \in 0..Len(sizes) => h[m] = f[m]}
<1>5. 0 \in E
    BY <1>2, <1>3
<1>6. ASSUME NEW m \in Nat, m \in E PROVE m + 1 \in E
    <2> SUFFICES ASSUME m + 1 \in 0..Len(sizes) PROVE h[m + 1] = f[m + 1]
        OBVIOUS
    <2>1. /\ m \in 0..Len(sizes) /\ m + 1 \in 1..Len(sizes) /\ m + 1 \in 1..Len(new)
          /\ (m + 1) - 1 = m
        BY <1>1, <1>4
    <2> QED BY <1>1, <1>2, <1>3, <1>6, <2>1
<1>7. Nat \subseteq E
    <2> HIDE DEF E
    <2> QED BY <1>5, <1>6, SetInduction, Zenon
<1>8. h[Len(sizes)] = f[Len(sizes)]
    BY <1>4, <1>7
<1>9. h[Len(sizes) + 1] = h[Len(sizes)] + n
    <2>1. Len(sizes) + 1 \in 1..Len(new) /\ (Len(sizes) + 1) - 1 = Len(sizes)
        BY <1>1, <1>4
    <2> QED BY <1>1, <1>3, <2>1, Zenon
<1>10. Total(new) = Total(sizes) + n
    BY <1>1, <1>2, <1>3, <1>8, <1>9
<1> QED BY <1>10 DEF new

\* A single size is the total.
LEMMA TotalOne == \A n \in Nat : Total(<<n>>) = n
<1> SUFFICES ASSUME NEW n \in Nat PROVE Total(<<n>>) = n
    OBVIOUS
<1> DEFINE e == <<>>
<1>1. e \in Seq(Nat) /\ Append(e, n) = <<n>> /\ Total(e) = 0
    BY TotalEmpty
<1> HIDE DEF e
<1>2. Total(Append(e, n)) = Total(e) + n
    BY <1>1, TotalAppend, Zenon
<1> QED BY <1>1, <1>2
-----------------------------------------------------------------------------
(* What a call writes, and what a send leaves.                              *)

\* A run of n bytes has n bytes.
LEMMA RunType == \A a, n \in Nat : Run(a, n) \in Seq(Nat) /\ Len(Run(a, n)) = n
    BY DEF Run

\* A run and the run that begins where it ends are one run.
LEMMA RunJoins ==
    ASSUME NEW a \in Nat, NEW n \in Nat, NEW m \in Nat
    PROVE  Run(a, n) \o Run(a + n, m) = Run(a, n + m)
<1> DEFINE u == Run(a, n)
           v == Run(a + n, m)
           w == Run(a, n + m)
<1>0. a + n \in Nat /\ n + m \in Nat
    OBVIOUS
<1>1. /\ u \in Seq(Nat) /\ Len(u) = n /\ v \in Seq(Nat) /\ Len(v) = m
      /\ w \in Seq(Nat) /\ Len(w) = n + m
    BY <1>0, RunType
<1>2. /\ \A i \in 1..n : u[i] = a + i
      /\ \A i \in 1..m : v[i] = (a + n) + i
      /\ \A i \in 1..n + m : w[i] = a + i
    BY DEF Run
<1> HIDE DEF u, v, w
<1>3. /\ u \o v \in Seq(Nat) /\ Len(u \o v) = n + m
      /\ \A i \in 1..n + m : (u \o v)[i] = IF i <= n THEN u[i] ELSE v[i - n]
    BY <1>1, ConcatProperties, Zenon
<1>4. ASSUME NEW i \in 1..n + m PROVE (u \o v)[i] = w[i]
    <2>1. CASE i <= n
        BY <1>2, <1>3, <2>1
    <2>2. CASE ~(i <= n)
        <3>1. i - n \in 1..m
            BY <2>2
        <3> QED BY <1>2, <1>3, <2>2, <3>1
    <2> QED BY <2>1, <2>2, Zenon
<1>5. u \o v = w
    BY <1>1, <1>3, <1>4, SeqEqual, Zenon
<1> QED BY <1>5 DEF u, v, w

\* writelines gets the next bytes, cut into pieces of the given sizes.
LEMMA PiecesAre ==
    ASSUME NEW sizes \in Seq(Nat), written \in Nat
    PROVE  /\ Pieces(sizes) \in Buf /\ Len(Pieces(sizes)) = Len(sizes)
           /\ Bytes(Pieces(sizes)) = Run(written, Total(sizes))
           /\ \A i \in 1..Len(sizes) : Len(Pieces(sizes)[i]) = sizes[i]
<1> DEFINE before(i) == Total(SubSeq(sizes, 1, i - 1))
           P == Pieces(sizes)
<1>1. Len(sizes) \in Nat /\ DOMAIN sizes = 1..Len(sizes)
    OBVIOUS
<1>2. ASSUME NEW i \in 1..Len(sizes) PROVE SubSeq(sizes, 1, i - 1) \in Seq(Nat) /\ sizes[i] \in Nat
    OBVIOUS
<1>3. ASSUME NEW i \in 1..Len(sizes) PROVE before(i) \in Nat
    BY <1>2, TotalType, Zenon
<1>4. \A i \in 1..Len(sizes) : P[i] = Run(written + before(i), sizes[i])
    BY <1>1 DEF Pieces, Run
<1>5. P = [i \in 1..Len(sizes) |-> P[i]]
    BY <1>1 DEF Pieces
<1> HIDE DEF before, P
<1>6. ASSUME NEW i \in 1..Len(sizes) PROVE P[i] \in Seq(Nat) /\ Len(P[i]) = sizes[i]
    <2>1. written + before(i) \in Nat /\ sizes[i] \in Nat
        BY <1>2, <1>3
    <2> QED BY <1>4, <2>1, RunType
<1>7. P \in Buf /\ Len(P) = Len(sizes)
    BY <1>1, <1>5, <1>6 DEF Buf
<1> DEFINE E == {k \in Nat : k <= Len(sizes) =>
                    Bytes(SubSeq(P, 1, k)) = Run(written, Total(SubSeq(sizes, 1, k)))}
<1>8. 0 \in E
    <2>1. SubSeq(P, 1, 0) = <<>> /\ SubSeq(sizes, 1, 0) = <<>>
        BY SubSeqEmpty
    <2>2. Run(written, 0) = <<>>
        BY DEF Run
    <2> QED BY <2>1, <2>2, BytesEmpty, TotalEmpty, Zenon
<1>9. ASSUME NEW k \in Nat, k \in E PROVE k + 1 \in E
    <2> SUFFICES ASSUME k + 1 <= Len(sizes)
                 PROVE  Bytes(SubSeq(P, 1, k + 1)) = Run(written, Total(SubSeq(sizes, 1, k + 1)))
        OBVIOUS
    <2> DEFINE Q == SubSeq(P, 1, k)
               t == SubSeq(sizes, 1, k)
    <2>0. k + 1 \in 1..Len(sizes) /\ (k + 1) - 1 = k /\ k <= Len(sizes)
        BY <1>1
    <2>1. Q \in Buf /\ SubSeq(P, 1, k + 1) = Append(Q, P[k + 1])
        BY <1>7, <2>0 DEF Buf
    <2>2. t \in Seq(Nat) /\ SubSeq(sizes, 1, k + 1) = Append(t, sizes[k + 1])
        BY <2>0
    <2>3. Bytes(Q) = Run(written, Total(t))
        BY <1>9, <2>0
    <2>4. before(k + 1) = Total(t)
        BY <2>0 DEF before
    <2> HIDE DEF Q, t
    <2>5. Bytes(SubSeq(P, 1, k + 1)) = Run(written, Total(t)) \o P[k + 1]
        BY <1>6, <2>0, <2>1, <2>3, BytesAppend, Zenon
    <2>6. Total(SubSeq(sizes, 1, k + 1)) = Total(t) + sizes[k + 1]
        BY <1>2, <2>0, <2>2, TotalAppend, Zenon
    <2>7. P[k + 1] = Run(written + Total(t), sizes[k + 1])
        BY <1>4, <2>0, <2>4
    <2>8. Total(t) \in Nat /\ sizes[k + 1] \in Nat
        BY <1>2, <2>0, <2>2, TotalType
    <2>9. Run(written, Total(t)) \o Run(written + Total(t), sizes[k + 1])
            = Run(written, Total(t) + sizes[k + 1])
        BY <2>8, RunJoins
    <2> QED BY <2>5, <2>6, <2>7, <2>9, Zenon
<1>10. Nat \subseteq E
    <2> HIDE DEF E
    <2> QED BY <1>8, <1>9, SetInduction, Zenon
<1>11. Bytes(SubSeq(P, 1, Len(sizes))) = Run(written, Total(SubSeq(sizes, 1, Len(sizes))))
    BY <1>1, <1>10
<1>12. SubSeq(P, 1, Len(sizes)) = P /\ SubSeq(sizes, 1, Len(sizes)) = sizes
    BY <1>7, SubSeqFull DEF Buf
<1> QED BY <1>6, <1>7, <1>11, <1>12, Zenon DEF P

\* The one piece of write and of sendto.
LEMMA PieceIs ==
    ASSUME NEW n \in Nat, written \in Nat
    PROVE  Pieces(<<n>>)[1] = Run(written, n)
<1> DEFINE e == <<n>>
<1>1. DOMAIN e = 1..1 /\ e[1] = n
    OBVIOUS
<1>2. Total(SubSeq(e, 1, 1 - 1)) = 0
    <2>1. SubSeq(e, 1, 1 - 1) = <<>>
        BY SubSeqEmpty
    <2> QED BY <2>1, TotalEmpty, Zenon
<1> HIDE DEF e
<1>3. Pieces(e)[1] = [j \in 1..e[1] |-> written + Total(SubSeq(e, 1, 1 - 1)) + j]
    BY <1>1 DEF Pieces
<1>4. Pieces(e)[1] = [j \in 1..n |-> written + j]
    BY <1>1, <1>2, <1>3
<1> QED BY <1>4 DEF Run, e

\* A set of numbers has a least one.
LEMMA LeastOf ==
    ASSUME NEW T, T \subseteq Nat, T # {}
    PROVE  \E x \in T : \A y \in T : x <= y
<1> DEFINE R == {p \in Nat \X Nat : p[1] < p[2]}
<1>1. OpToRel(<, Nat) = R
    BY DEF OpToRel
<1>2. IsWellFoundedOn(R, Nat)
    BY <1>1, NatLessThanWellFounded
<1>3. PICK x \in T : \A y \in T : <<y, x>> \notin R
    <2> HIDE DEF R
    <2> QED BY <1>2, WFMin, Zenon
<1>4. ASSUME NEW y \in T PROVE x <= y
    <2>1. x \in Nat /\ y \in Nat /\ <<y, x>> \notin R
        BY <1>3
    <2> QED BY <2>1
<1> QED BY <1>4

\* The pieces that are popped hold n bytes, and one piece less does not.
LEMMA PoppedIs ==
    ASSUME NEW buf \in Buf, NEW n \in Nat, n <= Size(buf)
    PROVE  /\ Popped(buf, n) \in 0..Len(buf)
           /\ Size(SubSeq(buf, 1, Popped(buf, n))) >= n
           /\ \A j \in 0..(Popped(buf, n) - 1) : Size(SubSeq(buf, 1, j)) < n
<1> DEFINE size(k) == Size(SubSeq(buf, 1, k))
           T == {k \in 0..Len(buf) : size(k) >= n}
           Fits(k) == size(k) >= n /\ \A j \in 0..(k - 1) : size(j) < n
<1>1. Len(buf) \in Nat /\ SubSeq(buf, 1, Len(buf)) = buf
    BY SubSeqFull DEF Buf
<1>2. ASSUME NEW k \in 0..Len(buf) PROVE size(k) \in Nat
    <2>1. SubSeq(buf, 1, k) \in Buf
        BY DEF Buf
    <2> QED BY <2>1, BytesType
<1>3. size(Len(buf)) >= n
    BY <1>1, Zenon
<1> HIDE DEF size
<1>4. T \subseteq Nat /\ Len(buf) \in T
    BY <1>1, <1>3
<1>5. PICK k \in T : \A y \in T : k <= y
    <2> HIDE DEF T
    <2> QED BY <1>4, LeastOf, Zenon
<1>6. Fits(k)
    <2> SUFFICES ASSUME NEW j \in 0..(k - 1) PROVE size(j) < n
        OBVIOUS
    <2>1. j \in 0..Len(buf) /\ ~(k <= j)
        BY <1>1
    <2>2. j \notin T
        BY <1>5, <2>1
    <2> QED BY <1>2, <2>1, <2>2
<1>7. \E l \in 0..Len(buf) : Fits(l)
    BY <1>6
<1>8. Popped(buf, n) = CHOOSE l \in 0..Len(buf) : Fits(l)
    BY DEF Popped, size
<1> HIDE DEF Fits
<1>9. Popped(buf, n) \in 0..Len(buf) /\ Fits(Popped(buf, n))
    BY <1>7, <1>8
<1> QED BY <1>9 DEF Fits, size

\* The first part of a concatenation.
LEMMA Cut ==
    ASSUME NEW x \in Seq(Nat), NEW y \in Seq(Nat)
    PROVE  SubSeq(x \o y, 1, Len(x)) = x
<1>1. x \o y \in Seq(Nat) /\ Len(x \o y) = Len(x) + Len(y) /\ Len(x) \in Nat /\ Len(y) \in Nat
    BY ConcatProperties
<1>2. \A i \in 1..Len(x) : (x \o y)[i] = x[i]
    OBVIOUS
<1> DEFINE s == SubSeq(x \o y, 1, Len(x))
<1>3. s \in Seq(Nat) /\ Len(s) = Len(x) /\ \A i \in 1..Len(x) : s[i] = (x \o y)[i]
    BY <1>1
<1> HIDE DEF s
<1>4. s = x
    BY <1>2, <1>3, SeqEqual, Zenon
<1> QED BY <1>4 DEF s

\* Positions in the second part of a sequence that is cut in two.
LEMMA UpperHalf ==
    ASSUME NEW S, NEW s \in Seq(S), NEW k \in 0..Len(s)
    PROVE  \A i \in 1..Len(SubSeq(s, k + 1, Len(s))) : SubSeq(s, k + 1, Len(s))[i] = s[k + i]
    OBVIOUS

\* l is s with the piece y put before it.
Led(y, s, l) ==
    /\ Len(l) = 1 + Len(s) /\ Len(s) \in Nat /\ l[1] = y
    /\ \A i \in 1..Len(l) : i # 1 => l[i] = s[i - 1]

\* So it is by concatenation.
LEMMA OnePiece == \A y \in Seq(Nat), s \in Buf : Led(y, s, <<y>> \o s)
    BY DEF Led, Buf

\* A sequence cut in two.
LEMMA Halves ==
    ASSUME NEW S, NEW s \in Seq(S), NEW k \in 0..Len(s)
    PROVE  /\ SubSeq(s, 1, k) \in Seq(S) /\ Len(SubSeq(s, 1, k)) = k
           /\ SubSeq(s, k + 1, Len(s)) \in Seq(S) /\ Len(SubSeq(s, k + 1, Len(s))) = Len(s) - k
           /\ s = SubSeq(s, 1, k) \o SubSeq(s, k + 1, Len(s))
<1>1. Len(s) \in Nat
    OBVIOUS
<1>2. SubSeq(s, 1, Len(s)) = s
    BY SubSeqFull
<1>3. 1 \in 1..Len(s) + 1 /\ k \in (1 - 1)..Len(s) /\ Len(s) \in k..Len(s)
    BY <1>1
<1>4. SubSeq(s, 1, k) \o SubSeq(s, k + 1, Len(s)) = SubSeq(s, 1, Len(s))
    BY <1>3, ConcatAdjacentSubSeq, Zenon
<1>5. SubSeq(s, 1, k) \in Seq(S) /\ Len(SubSeq(s, 1, k)) = k
    BY <1>1
<1>6. SubSeq(s, k + 1, Len(s)) \in Seq(S) /\ Len(SubSeq(s, k + 1, Len(s))) = Len(s) - k
    BY <1>1
<1> QED BY <1>2, <1>4, <1>5, <1>6, Zenon

\* The same for bytes.
LEMMA BytesHalves ==
    \A s \in Seq(Nat) : \A k \in 0..Len(s) :
        /\ SubSeq(s, 1, k) \in Seq(Nat) /\ Len(SubSeq(s, 1, k)) = k
        /\ SubSeq(s, k + 1, Len(s)) \in Seq(Nat) /\ Len(SubSeq(s, k + 1, Len(s))) = Len(s) - k
        /\ s = SubSeq(s, 1, k) \o SubSeq(s, k + 1, Len(s))
    BY Halves, Zenon

\* The same for buffers.
LEMMA BufHalves ==
    \A s \in Buf : \A k \in 0..Len(s) :
        /\ SubSeq(s, 1, k) \in Buf /\ Len(SubSeq(s, 1, k)) = k
        /\ SubSeq(s, k + 1, Len(s)) \in Buf /\ Len(SubSeq(s, k + 1, Len(s))) = Len(s) - k
        /\ s = SubSeq(s, 1, k) \o SubSeq(s, k + 1, Len(s))
    BY Halves, Zenon DEF Buf

\* _adjust_leftover_buffer takes exactly what was sent off the front.
LEMMA LeftoverIs ==
    ASSUME NEW buf \in Buf, NEW n \in Nat, n <= Size(buf)
    PROVE  /\ Leftover(buf, n) \in Buf /\ SubSeq(Bytes(buf), 1, n) \in Seq(Nat)
           /\ SubSeq(Bytes(buf), 1, n) \o Bytes(Leftover(buf, n)) = Bytes(buf)
           /\ Full(buf) => Full(Leftover(buf, n))
<1> DEFINE k == Popped(buf, n)
           A == SubSeq(buf, 1, k)
           C == SubSeq(buf, k + 1, Len(buf))
           L == Leftover(buf, n)
<1>1. k \in 0..Len(buf) /\ Size(A) >= n /\ \A j \in 0..(k - 1) : Size(SubSeq(buf, 1, j)) < n
    BY PoppedIs
<1>2. A \in Buf /\ C \in Buf /\ buf = A \o C /\ Len(A) = k /\ Len(C) = Len(buf) - k
    <2> HIDE DEF k
    <2> QED BY <1>1, BufHalves, Zenon
<1>3. Len(buf) \in Nat /\ \A i \in 1..Len(C) : C[i] = buf[k + i]
    <2>1. Len(buf) \in Nat
        BY DEF Buf
    <2> HIDE DEF k
    <2> QED BY <1>1, <2>1, UpperHalf, Zenon DEF Buf
<1>4. /\ L = (IF Size(A) - n = 0 THEN <<>>
              ELSE <<SubSeq(buf[k], Len(buf[k]) - (Size(A) - n) + 1, Len(buf[k]))>>) \o C
    BY DEF Leftover
<1> HIDE DEF k, A, C, L
<1>5. Bytes(A) \in Seq(Nat) /\ Bytes(C) \in Seq(Nat) /\ Size(A) \in Nat /\ Size(A) = Len(Bytes(A))
    BY <1>2, BytesType DEF Size
<1>6. Bytes(buf) = Bytes(A) \o Bytes(C)
    BY <1>2, BytesConcat
<1>7. CASE Size(A) = n
    <2>1. L = C
        BY <1>2, <1>4, <1>5, <1>7, ConcatEmptySeq DEF Buf
    <2>2. SubSeq(Bytes(buf), 1, n) = Bytes(A)
        BY <1>5, <1>6, <1>7, Cut, Zenon
    <2>3. Full(buf) => Full(L)
        BY <1>1, <1>2, <1>3, <2>1 DEF Full
    <2> QED BY <1>2, <1>5, <1>6, <2>1, <2>2, <2>3, Zenon DEF L
<1>8. CASE Size(A) # n
    <2> DEFINE p == buf[k]
               B == SubSeq(buf, 1, k - 1)
               r == n - Size(B)
               x == SubSeq(p, 1, r)
               y == SubSeq(p, r + 1, Len(p))
    <2>1. k # 0
        <3> SUFFICES ASSUME k = 0 PROVE FALSE
            OBVIOUS
        <3>1. A = <<>>
            BY <1>2
        <3> QED BY <1>1, <1>5, <1>8, <3>1, BytesEmpty
    <2>2. k \in 1..Len(buf) /\ k - 1 \in 0..(k - 1) /\ p \in Seq(Nat)
        BY <1>1, <1>3, <2>1 DEF Buf
    <2>3. B \in Buf /\ A = Append(B, p)
        BY <1>3, <2>2 DEF Buf, A
    <2>4. Size(B) < n
        BY <1>1, <2>2
    <2> HIDE DEF B, p
    <2>5. Bytes(A) = Bytes(B) \o p
        BY <2>2, <2>3, BytesAppend
    <2>6. Bytes(B) \in Seq(Nat) /\ Size(B) \in Nat /\ Size(B) = Len(Bytes(B)) /\ Len(p) \in Nat
        BY <2>2, <2>3, BytesType DEF Size
    <2>7. Size(A) = Size(B) + Len(p)
        BY <1>5, <2>2, <2>5, <2>6, ConcatProperties
    <2>8. r \in 1..Len(p) /\ r # Len(p) /\ Len(p) - (Size(A) - n) = r /\ Size(A) - n # 0
        BY <1>1, <1>5, <1>8, <2>4, <2>6, <2>7
    <2>9. /\ x \in Seq(Nat) /\ Len(x) = r /\ y \in Seq(Nat) /\ Len(y) = Len(p) - r /\ p = x \o y
        <3>1. r \in 0..Len(p)
            BY <2>8
        <3> HIDE DEF r
        <3> QED BY <2>2, <3>1, BytesHalves, Zenon
    <2>10. L = <<y>> \o C
        BY <1>4, <2>8, Zenon DEF p
    <2> HIDE DEF x, y
    <2>11. <<y>> \in Buf /\ Bytes(<<y>>) = y
        BY <2>9, BytesOne DEF Buf
    <2>12. L \in Buf /\ Bytes(L) = y \o Bytes(C)
        <3>1. L \in Buf
            BY <1>2, <2>10, <2>11 DEF Buf
        <3> QED BY <1>2, <2>10, <2>11, <3>1, BytesConcat, Zenon
    <2>13. Bytes(buf) = (Bytes(B) \o x) \o Bytes(L)
        <3> DEFINE b == Bytes(B)
                   c == Bytes(C)
        <3>1. b \in Seq(Nat) /\ c \in Seq(Nat) /\ b \o x \in Seq(Nat)
            BY <1>5, <2>6, <2>9, ConcatProperties
        <3> HIDE DEF b, c
        <3>0. x \in Seq(Nat) /\ y \in Seq(Nat)
            BY <2>9
        <3>2. Grouped(b, x, y) /\ Grouped(b \o x, y, c)
            BY <3>0, <3>1, Regroup, Zenon
        <3>3. ((b \o x) \o y) \o c = (b \o x) \o (y \o c) /\ b \o (x \o y) = (b \o x) \o y
            BY <3>2, Zenon DEF Grouped
        <3>4. Bytes(buf) = (b \o (x \o y)) \o c
            BY <1>6, <2>5, <2>9 DEF b, c
        <3> QED BY <2>12, <3>3, <3>4, Zenon DEF b, c
    <2>14. Bytes(B) \o x \in Seq(Nat) /\ Len(Bytes(B) \o x) = n /\ Bytes(L) \in Seq(Nat)
        <3>1. Bytes(B) \o x \in Seq(Nat) /\ Len(Bytes(B) \o x) = Size(B) + r
            <4>1. /\ Bytes(B) \o x \in Seq(Nat)
                  /\ Len(Bytes(B) \o x) = Len(Bytes(B)) + Len(x)
                BY <2>6, <2>9, ConcatProperties, Zenon
            <4> QED BY <2>6, <2>9, <4>1, Zenon
        <3>2. Size(B) + r = n
            BY <2>6
        <3>3. Bytes(L) \in Seq(Nat)
            BY <2>12, BytesType, Zenon
        <3> QED BY <3>1, <3>2, <3>3
    <2>15. SubSeq(Bytes(buf), 1, n) = Bytes(B) \o x
        BY <2>13, <2>14, Cut
    <2>16. ASSUME Full(buf), NEW i \in 1..Len(L) PROVE L[i] # <<>>
        <3> HIDE DEF k, C, L
        <3>0. /\ Len(L) = 1 + Len(C) /\ Len(C) \in Nat /\ L[1] = y
              /\ \A j \in 1..Len(L) : j # 1 => L[j] = C[j - 1]
            <4>1. Led(y, C, <<y>> \o C)
                BY <1>2, <2>9, OnePiece, Zenon
            <4>2. Led(y, C, L)
                BY <2>10, <4>1, Zenon
            <4> QED BY <4>2, Zenon DEF Led
        <3>1. CASE i = 1
            <4>1. L[i] = y
                BY <3>0, <3>1, Zenon
            <4> QED BY <2>8, <2>9, <4>1
        <3>2. CASE i # 1
            <4>2. i - 1 \in 1..Len(C) /\ k + (i - 1) \in 1..Len(buf)
                BY <1>1, <1>2, <1>3, <3>0, <3>2
            <4>3. L[i] = C[i - 1]
                BY <3>0, <3>2, Zenon
            <4> QED BY <1>3, <2>16, <4>2, <4>3 DEF Full
        <3> QED BY <3>1, <3>2
    <2>17. Full(buf) => Full(L)
        BY <2>16 DEF Full
    <2> QED BY <2>12, <2>13, <2>14, <2>15, <2>17, Zenon DEF L
<1> QED BY <1>7, <1>8
-----------------------------------------------------------------------------
(* Bytes in order.                                                          *)

\* A run from 0 rises.
LEMMA RisingRun == \A n \in Nat : Rising(Run(0, n), n)
<1> SUFFICES ASSUME NEW n \in Nat PROVE Rising(Run(0, n), n)
    OBVIOUS
<1>1. Run(0, n) \in Seq(Nat) /\ Len(Run(0, n)) = n
    BY RunType
<1>2. \A i \in 1..n : Run(0, n)[i] = i
    BY DEF Run
<1> QED BY <1>1, <1>2 DEF Rising

\* A rising sequence stays within a larger bound.
LEMMA RisingMore == \A n, m \in Nat : \A s : Rising(s, n) /\ n <= m => Rising(s, m)
<1> SUFFICES ASSUME NEW n \in Nat, NEW m \in Nat, NEW s, Rising(s, n), n <= m PROVE Rising(s, m)
    OBVIOUS
<1>1. s \in Seq(Nat) /\ \A i \in 1..Len(s) : s[i] \in Nat
    BY DEF Rising
<1> QED BY <1>1 DEF Rising

\* Length and elements of a concatenation.
LEMMA ConcatIs ==
    \A s, t \in Seq(Nat) :
        /\ s \o t \in Seq(Nat) /\ Len(s \o t) = Len(s) + Len(t)
        /\ \A i \in 1..Len(s) + Len(t) :
               (s \o t)[i] = IF i <= Len(s) THEN s[i] ELSE t[i - Len(s)]
    BY ConcatProperties

\* Leaving out a part of it keeps the order.
LEMMA RisingOmit ==
    ASSUME NEW a \in Seq(Nat), NEW b \in Seq(Nat), NEW c \in Seq(Nat), NEW n \in Nat,
           Rising((a \o b) \o c, n)
    PROVE  Rising(a \o c, n)
<1> DEFINE ab == a \o b
           s == ab \o c
           t == a \o c
           at(i) == IF i <= Len(a) THEN i ELSE i + Len(b)
<1>1. Len(a) \in Nat /\ Len(b) \in Nat /\ Len(c) \in Nat
    OBVIOUS
<1>2. /\ ab \in Seq(Nat) /\ Len(ab) = Len(a) + Len(b)
      /\ \A i \in 1..Len(a) : ab[i] = a[i]
    BY ConcatProperties
<1> HIDE DEF ab
<1>3. /\ s \in Seq(Nat) /\ Len(s) = Len(ab) + Len(c)
      /\ \A i \in 1..Len(ab) + Len(c) : s[i] = IF i <= Len(ab) THEN ab[i] ELSE c[i - Len(ab)]
    BY <1>2, ConcatIs, Zenon
<1>4. /\ t \in Seq(Nat) /\ Len(t) = Len(a) + Len(c)
      /\ \A i \in 1..Len(t) : t[i] = IF i <= Len(a) THEN a[i] ELSE c[i - Len(a)]
    BY <1>1, ConcatProperties
<1>5. Rising(s, n)
    BY DEF ab
<1> HIDE DEF s, t
<1>6. ASSUME NEW i \in 1..Len(t) PROVE at(i) \in 1..Len(s) /\ t[i] = s[at(i)]
    <2>1. CASE i <= Len(a)
        <3>1. i \in 1..Len(a) /\ i \in 1..Len(s) /\ i <= Len(ab)
            BY <1>1, <1>2, <1>3, <1>4, <2>1
        <3> QED BY <1>2, <1>3, <1>4, <2>1, <3>1, Zenon
    <2>2. CASE ~(i <= Len(a))
        <3>1. /\ i + Len(b) \in 1..Len(s) /\ ~(i + Len(b) <= Len(ab))
              /\ (i + Len(b)) - Len(ab) = i - Len(a)
            <4>1. i \in Nat /\ i > Len(a) /\ i <= Len(a) + Len(c)
                BY <1>1, <1>4, <2>2
            <4>2. Len(ab) = Len(a) + Len(b) /\ Len(s) = Len(a) + Len(b) + Len(c)
                BY <1>1, <1>2, <1>3
            <4> QED BY <1>1, <4>1, <4>2
        <3> QED BY <1>3, <1>4, <2>2, <3>1, Zenon
    <2> QED BY <2>1, <2>2
<1>7. ASSUME NEW i \in 1..Len(t), NEW j \in 1..Len(t), i < j PROVE at(i) < at(j)
    <2>1. i \in Nat /\ j \in Nat
        BY <1>1, <1>4
    <2> QED BY <1>1, <1>7, <2>1
<1> HIDE DEF at
<1>8. Rising(t, n)
    BY <1>4, <1>5, <1>6, <1>7, Zenon DEF Rising
<1> QED BY <1>8 DEF t

\* A prefix of a rising sequence rises.
LEMMA RisingPrefix ==
    ASSUME NEW a \in Seq(Nat), NEW b \in Seq(Nat), NEW n \in Nat, Rising(a \o b, n)
    PROVE  Rising(a, n)
<1>1. a \o b \in Seq(Nat) /\ <<>> \in Seq(Nat)
    BY ConcatProperties
<1>2. (a \o b) \o <<>> = a \o b /\ a \o <<>> = a
    BY <1>1, ConcatEmptySeq
<1> QED BY <1>1, <1>2, RisingOmit, Zenon

\* The next bytes are written after it.
LEMMA RisingPush ==
    ASSUME NEW s, NEW n \in Nat, NEW k \in Nat, Rising(s, n)
    PROVE  Rising(s \o Run(n, k), n + k)
<1> DEFINE r == Run(n, k)
           t == s \o r
<1>1. /\ s \in Seq(Nat) /\ Len(s) \in Nat /\ r \in Seq(Nat) /\ Len(r) = k
      /\ \A i \in 1..k : r[i] = n + i
    <2>1. \A i \in 1..k : r[i] = n + i
        BY DEF Run
    <2> QED BY <2>1, RunType DEF Rising
<1> HIDE DEF r
<1>2. /\ t \in Seq(Nat) /\ Len(t) = Len(s) + k
      /\ \A i \in 1..Len(s) + k : t[i] = IF i <= Len(s) THEN s[i] ELSE r[i - Len(s)]
    BY <1>1, ConcatIs, Zenon
<1> HIDE DEF t
<1>3. ASSUME NEW i \in 1..Len(t)
      PROVE  IF i <= Len(s) THEN i \in 1..Len(s) /\ t[i] = s[i] /\ 1 <= t[i] /\ t[i] <= n
             ELSE t[i] = n + (i - Len(s))
    <2>1. CASE i <= Len(s)
        <3>1. i \in 1..Len(s) /\ t[i] = s[i]
            BY <1>1, <1>2, <2>1
        <3> QED BY <2>1, <3>1 DEF Rising
    <2>2. CASE ~(i <= Len(s))
        <3>1. i - Len(s) \in 1..k
            BY <1>1, <1>2, <2>2
        <3> QED BY <1>1, <1>2, <2>2, <3>1
    <2> QED BY <2>1, <2>2
<1>4. \A i \in 1..Len(t) : t[i] \in Nat
    BY <1>2
<1>5. ASSUME NEW i \in 1..Len(t) PROVE 1 <= t[i] /\ t[i] <= n + k
    BY <1>1, <1>2, <1>3, <1>4
<1>6. ASSUME NEW i \in 1..Len(t), NEW j \in 1..Len(t), i < j PROVE t[i] < t[j]
    <2>1. CASE j <= Len(s)
        <3>1. i <= Len(s)
            BY <1>1, <1>2, <1>6, <2>1
        <3> QED BY <1>3, <1>6, <2>1, <3>1 DEF Rising
    <2>2. CASE ~(j <= Len(s))
        <3>1. t[j] = n + (j - Len(s)) /\ j - Len(s) >= 1 /\ j \in Nat /\ i \in Nat
            BY <1>1, <1>2, <1>3, <2>2
        <3>2. CASE i <= Len(s)
            <4>1. t[i] <= n
                BY <1>3, <3>2
            <4> QED BY <1>1, <1>4, <3>1, <4>1
        <3>3. CASE ~(i <= Len(s))
            <4>1. t[i] = n + (i - Len(s))
                BY <1>3, <3>3
            <4> QED BY <1>1, <1>6, <3>1, <4>1
        <3> QED BY <3>2, <3>3
    <2> QED BY <2>1, <2>2
<1>7. Rising(t, n + k)
    BY <1>2, <1>5, <1>6 DEF Rising
<1> QED BY <1>7 DEF t, r

\* There are no more of them than were written.
LEMMA RisingLen ==
    ASSUME NEW s, NEW n \in Nat, Rising(s, n)
    PROVE  Len(s) <= n
<1>1. s \in Seq(Nat) /\ Len(s) \in Nat /\ \A i \in 1..Len(s) : s[i] \in Nat
    BY DEF Rising
<1> DEFINE E == {i \in Nat : i \in 1..Len(s) => i <= s[i]}
<1>2. 0 \in E
    OBVIOUS
<1>3. ASSUME NEW i \in Nat, i \in E PROVE i + 1 \in E
    <2> SUFFICES ASSUME i + 1 \in 1..Len(s) PROVE i + 1 <= s[i + 1]
        OBVIOUS
    <2>1. CASE i = 0
        BY <2>1 DEF Rising
    <2>2. CASE i # 0
        <3>1. i \in 1..Len(s) /\ i < i + 1
            BY <1>1, <2>2
        <3>2. s[i] < s[i + 1] /\ i <= s[i]
            BY <1>3, <3>1 DEF Rising
        <3> QED BY <1>1, <3>1, <3>2
    <2> QED BY <2>1, <2>2
<1>4. Nat \subseteq E
    <2> HIDE DEF E
    <2> QED BY <1>2, <1>3, SetInduction
<1>5. CASE Len(s) # 0
    <2>1. Len(s) \in 1..Len(s)
        BY <1>1, <1>5
    <2>2. Len(s) <= s[Len(s)] /\ s[Len(s)] <= n /\ s[Len(s)] \in Nat
        BY <1>1, <1>4, <2>1 DEF Rising
    <2> QED BY <1>1, <2>2
<1> QED BY <1>1, <1>5
-----------------------------------------------------------------------------
(* The parts of a step.                                                     *)

\* The empty stack holds no frame.
LEMMA NoFrame == \A f : ~Holds(f, <<>>)
    BY DEF Holds

\* A call puts its frame on the stack.
LEMMA Pushed ==
    ASSUME NEW st \in Seq(Frame), NEW g \in Frame
    PROVE  /\ <<g>> \o st \in Seq(Frame) /\ <<g>> \o st # <<>>
           /\ Head(<<g>> \o st) = g /\ Tail(<<g>> \o st) = st
           /\ \A f : Holds(f, <<g>> \o st) <=> f = g \/ Holds(f, st)
<1> DEFINE new == <<g>> \o st
<1>1. new \in Seq(Frame) /\ Len(new) = Len(st) + 1 /\ new[1] = g /\ Len(st) \in Nat
    OBVIOUS
<1>2. \A i \in 1..Len(st) : new[i + 1] = st[i]
    OBVIOUS
<1>3. Tail(new) = st
    <2>1. Tail(new) \in Seq(Frame) /\ Len(Tail(new)) = Len(st)
        BY <1>1
    <2>2. \A i \in 1..Len(st) : Tail(new)[i] = st[i]
        BY <1>1, <1>2
    <2> QED BY <2>1, <2>2, SeqEqual
<1> HIDE DEF new
<1>4. new # <<>> /\ Head(new) = g
    BY <1>1
<1>5. ASSUME NEW f PROVE Holds(f, new) <=> f = g \/ Holds(f, st)
    <2>1. ASSUME Holds(f, new), f # g PROVE Holds(f, st)
        <3>1. PICK i \in 1..Len(new) : new[i] = f
            BY <2>1 DEF Holds
        <3>2. i # 1
            BY <1>1, <2>1, <3>1
        <3>3. i - 1 \in 1..Len(st) /\ (i - 1) + 1 = i
            BY <1>1, <3>2
        <3>4. st[i - 1] = f
            BY <1>2, <3>1, <3>3
        <3> QED BY <3>3, <3>4 DEF Holds
    <2>2. ASSUME Holds(f, st) PROVE Holds(f, new)
        <3>1. PICK i \in 1..Len(st) : st[i] = f
            BY <2>2 DEF Holds
        <3>2. i + 1 \in 1..Len(new) /\ new[i + 1] = f
            BY <1>1, <1>2, <3>1
        <3> QED BY <3>2 DEF Holds
    <2>3. 1 \in 1..Len(new)
        BY <1>1
    <2>4. f = g => Holds(f, new)
        BY <1>1, <2>3 DEF Holds
    <2> QED BY <2>1, <2>2, <2>4
<1> QED BY <1>1, <1>3, <1>4, <1>5 DEF new

\* A return takes the innermost frame off.
LEMMA Popping ==
    ASSUME NEW st \in Seq(Frame), st # <<>>
    PROVE  /\ Tail(st) \in Seq(Frame) /\ Head(st) \in Frame
           /\ \A f : Holds(f, st) <=> f = Head(st) \/ Holds(f, Tail(st))
<1>1. Tail(st) \in Seq(Frame) /\ Head(st) \in Frame
    OBVIOUS
<1>2. st = <<Head(st)>> \o Tail(st)
    <2>1. /\ <<Head(st)>> \o Tail(st) \in Seq(Frame)
          /\ Len(<<Head(st)>> \o Tail(st)) = Len(st)
          /\ \A i \in 1..Len(st) : (<<Head(st)>> \o Tail(st))[i] = st[i]
        BY <1>1
    <2> QED BY <2>1, SeqEqual
<1> DEFINE h == Head(st)
           t == Tail(st)
<1> HIDE DEF h, t
<1>3. h \in Frame /\ t \in Seq(Frame) /\ st = <<h>> \o t
    BY <1>1, <1>2 DEF h, t
<1>4. \A f : Holds(f, st) <=> f = h \/ Holds(f, t)
    BY <1>3, Pushed
<1> QED BY <1>1, <1>4 DEF h, t

\* What was written is at most what fits.
LEMMA StaleFits ==
    ASSUME Data, NEW buf \in Buf, NEW rest \in Seq(Nat), Rising(rest \o Bytes(buf), written)
    PROVE  Size(buf) \in 0..MaxWritten
<1>1. written \in Nat /\ written <= MaxWritten /\ MaxWritten \in Nat
    BY WriterConstants DEF Data
<1>2. Len(rest \o Bytes(buf)) <= written
    BY <1>1, RisingLen, Zenon
<1>3. Bytes(buf) \in Seq(Nat) /\ Size(buf) \in Nat /\ Size(buf) = Len(Bytes(buf))
    BY BytesType DEF Size
<1>4. Len(rest \o Bytes(buf)) = Len(rest) + Size(buf) /\ Len(rest) \in Nat
    BY <1>3, ConcatIs
<1> QED BY <1>1, <1>2, <1>3, <1>4

\* What a step may do to the flags.
LEMMA ControlStep ==
    ASSUME Control, sock' \in {sock, "none"}, stack' \in Seq(Frame), lost' \in {lost, lost + 1},
           stale' \in 0..MaxWritten, conn_lost => conn_lost',
           \/ scheduled' = scheduled /\ (conn_lost' => conn_lost) /\ (closing => closing')
           \/ ~conn_lost /\ scheduled' = scheduled + 1 /\ conn_lost' /\ closing'
    PROVE  Control'
    BY DEF Control

\* Nothing is written or sent.
LEMMA DataRests ==
    ASSUME Data, UNCHANGED <<buffer, wire, written, shut, eof>>, sock' \in {sock, "none"},
           conn_lost => conn_lost'
    PROVE  Data'
    BY DEF Data

\* A stream transport has everything still, on the wire or in the buffer.
LEMMA DataStream ==
    ASSUME buffer' \in Buf, wire' \in Seq(Nat), written' \in 0..MaxWritten,
           wire' \o Bytes(buffer') = Run(0, written'), sock' # "datagram",
           shut' => eof' /\ (conn_lost' \/ buffer' = <<>>)
    PROVE  Data'
<1>1. written' \in Nat
    BY WriterConstants
<1>2. Rising(wire' \o Bytes(buffer'), written')
    BY <1>1, RisingRun
<1>3. buffer' = <<>> => wire' = Run(0, written')
    <2> SUFFICES ASSUME buffer' = <<>> PROVE wire' = Run(0, written')
        OBVIOUS
    <2>1. Bytes(buffer') = <<>>
        BY BytesEmpty
    <2> QED BY <2>1, ConcatEmptySeq
<1> QED BY <1>2, <1>3 DEF Data, Buf

\* The buffer is cleared by an error or an abort.
LEMMA DataCleared ==
    ASSUME Data, buffer' = <<>>, wire' = wire, UNCHANGED <<shut, eof, sock>>, conn_lost',
           written' \in 0..MaxWritten, written <= written'
    PROVE  Data'
<1>1. /\ buffer \in Buf /\ wire \in Seq(Nat) /\ written \in Nat /\ written' \in Nat
      /\ Bytes(buffer) \in Seq(Nat)
    BY WriterConstants, BytesType DEF Data, Buf
<1>2. Rising(wire, written')
    <2>1. Rising(wire, written)
        BY <1>1, RisingPrefix DEF Data
    <2> QED BY <1>1, <2>1, RisingMore
<1>3. wire' \o Bytes(buffer') = wire
    BY <1>1, BytesEmpty, ConcatEmptySeq
<1>4. buffer' \in Seq(Seq(Nat))
    OBVIOUS
<1> QED BY <1>1, <1>2, <1>3, <1>4, Zenon DEF Data
-----------------------------------------------------------------------------
(* The data and the calls of connection_lost, action by action.             *)

\* The callbacks that have frames.
LEMMA FrameIs == {"pause", "resume", "error", "lines", "lost"} \subseteq Frame
    BY DEF Frame

\* _maybe_pause_protocol calls pause_writing or does nothing.
LEMMA PauseIs ==
    ASSUME NEW rest \in Seq(Frame), MaybePause(rest)
    PROVE  /\ stack' \in Seq(Frame)
           /\ stack' = rest \/ stack' = <<"pause">> \o rest
<1>1. stack' = rest \/ stack' = <<"pause">> \o rest
    BY DEF MaybePause, Enter
<1> QED BY <1>1, Pushed, FrameIs, Zenon

\* What the end of a write changes.
LEMMA FinishIs ==
    ASSUME NEW buf, NEW rest \in Seq(Frame), FinishWrite(buf, rest)
    PROVE  /\ buffer' = buf /\ UNCHANGED <<closing, conn_lost, scheduled, stale, eof, sock>>
           /\ stack' \in Seq(Frame) /\ lost' \in {lost, lost + 1}
           /\ shut' => shut \/ (buf = <<>> /\ eof)
<1>1. /\ buffer' = buf /\ UNCHANGED <<closing, conn_lost, scheduled, stale, eof, sock>>
      /\ shut' => shut \/ (buf = <<>> /\ eof)
    BY Zenon DEF FinishWrite, ending, ShutWhenEmpty, Completes
<1>2. \/ stack' = rest /\ lost' = lost
      \/ stack' = <<"lost">> \o rest /\ lost' = lost + 1
    BY DEF FinishWrite, EnterLost, Enter
<1> QED BY <1>1, <1>2, Pushed, FrameIs, Zenon

\* What a write that sent some bytes changes.
LEMMA ProgressIs ==
    ASSUME NEW buf, NEW rest \in Seq(Frame), Progress(buf, rest)
    PROVE  /\ buffer' = buf /\ UNCHANGED <<closing, conn_lost, scheduled, stale, eof, sock>>
           /\ stack' \in Seq(Frame) /\ lost' \in {lost, lost + 1}
           /\ shut' => shut \/ (buf = <<>> /\ eof)
<1>1. CASE Resumes(buf)
    <2>1. /\ buffer' = buf /\ UNCHANGED <<ending, eof, sock, shut, lost>>
          /\ stack' = <<"resume">> \o rest
        BY <1>1 DEF Progress, Enter
    <2> QED BY <2>1, Pushed, FrameIs DEF ending
<1>2. CASE ~Resumes(buf)
    <2>1. FinishWrite(buf, rest)
        BY <1>2 DEF Progress
    <2> QED BY <2>1, FinishIs
<1> QED BY <1>1, <1>2

\* _write_sendmsg, called by the loop or by writelines.
LEMMA WriteReadyKeeps ==
    ASSUME WriteInv, NEW buf \in Buf, NEW rest \in Seq(Frame), sock = "stream", ~conn_lost, ~shut,
           written' \in 0..MaxWritten, written <= written',
           wire \o Bytes(buf) = Run(0, written'), WriteReady(buf, rest)
    PROVE  WriteInv'
<1> USE DEF WriteInv
<1>0. wire \in Seq(Nat) /\ Bytes(buf) \in Seq(Nat) /\ Size(buf) \in Nat /\ stale \in 0..MaxWritten
    BY BytesType DEF Data, Control
<1>1. CASE /\ buffer' = buf /\ stack' = rest
           /\ UNCHANGED <<wire, writer, held, ending, eof, shut, sock, waiter, lost>>
    <2>1. UNCHANGED <<closing, conn_lost, scheduled, stale>>
        BY <1>1 DEF ending
    <2>2. Data'
        BY <1>0, <1>1, DataStream
    <2>3. Control'
        BY <1>0, <1>1, <2>1, ControlStep
    <2> QED BY <2>2, <2>3
<1>2. CASE /\ buffer' = <<>> /\ closing' = TRUE /\ conn_lost' = TRUE /\ scheduled' = scheduled + 1
           /\ stack' = rest
           /\ UNCHANGED <<wire, stale, eof, shut, sock, lost>>
    <2>1. Data'
        BY <1>2, DataCleared
    <2>2. Control'
        BY <1>0, <1>2, ControlStep
    <2> QED BY <2>1, <2>2
<1>3. ASSUME NEW n \in 0..Size(buf), wire' = wire \o SubSeq(Bytes(buf), 1, n),
             Progress(Leftover(buf, n), rest)
      PROVE  WriteInv'
    <2> DEFINE L == Leftover(buf, n)
               x == SubSeq(Bytes(buf), 1, n)
    <2>1. L \in Buf /\ x \in Seq(Nat) /\ x \o Bytes(L) = Bytes(buf)
        <3>1. n \in Nat /\ n <= Size(buf)
            BY <1>0
        <3> QED BY <3>1, LeftoverIs
    <2>2. /\ buffer' = L /\ UNCHANGED <<closing, conn_lost, scheduled, stale, eof, sock>>
          /\ stack' \in Seq(Frame) /\ lost' \in {lost, lost + 1}
          /\ shut' => L = <<>> /\ eof
        BY <1>3, ProgressIs
    <2>3. wire' = wire \o x
        BY <1>3
    <2> HIDE DEF L, x
    <2>4. Bytes(L) \in Seq(Nat)
        BY <2>1, BytesType
    <2>5. wire' \o Bytes(buffer') = Run(0, written') /\ wire' \in Seq(Nat)
        <3>1. (wire \o x) \o Bytes(L) = wire \o (x \o Bytes(L))
            BY <1>0, <2>1, <2>4, Assoc
        <3> QED BY <1>0, <2>1, <2>2, <2>3, <3>1, ConcatIs
    <2>6. Data'
        BY <2>1, <2>2, <2>5, DataStream
    <2>7. Control'
        BY <1>0, <2>2, ControlStep
    <2> QED BY <2>6, <2>7
<1> QED BY <1>1, <1>2, <1>3, Zenon DEF WriteReady
\* A call that writes, on a stream transport that has everything still.
LEMMA MayWriteIs ==
    ASSUME WriteInv, NEW c, NEW n \in Nat, ~Datagram, MayWrite(c, n)
    PROVE  /\ sock = "stream" /\ ~conn_lost /\ ~shut /\ stack \in Seq(Frame)
           /\ written \in Nat /\ written' = written + n /\ written' \in 0..MaxWritten
           /\ written <= written'
           /\ buffer \in Buf /\ wire \in Seq(Nat) /\ wire \o Bytes(buffer) = Run(0, written)
<1>1. sock = "stream" /\ ~conn_lost /\ ~eof
    BY DEF MayWrite, MayCall, open, Datagram, WriteInv, Control
<1>2. written' = written + n /\ written + n <= MaxWritten
    BY DEF MayWrite
<1> QED BY <1>1, <1>2, WriterConstants DEF WriteInv, Data, Control, Buf

\* write.
LEMMA WriteKeeps == ASSUME WriteInv, NEW n \in Nat, write(n) PROVE WriteInv'
<1> USE DEF WriteInv
<1> DEFINE data == Pieces(<<n>>)[1]
<1>0. ~Datagram /\ MayWrite("write", n) /\ UNCHANGED <<eof, shut, sock, waiter, lost>>
    BY DEF write
<1>1. /\ sock = "stream" /\ ~conn_lost /\ ~shut /\ stack \in Seq(Frame)
      /\ written \in Nat /\ written' = written + n /\ written' \in 0..MaxWritten
      /\ written <= written'
      /\ buffer \in Buf /\ wire \in Seq(Nat) /\ wire \o Bytes(buffer) = Run(0, written)
    BY <1>0, MayWriteIs
<1>2. data = Run(written, n) /\ data \in Seq(Nat) /\ Len(data) = n
    BY <1>1, PieceIs, RunType, Zenon
<1>3. Run(0, written) \o data = Run(0, written')
    <2>1. Run(0, written) \o Run(0 + written, n) = Run(0, written + n)
        BY <1>1, RunJoins, Zenon
    <2>2. 0 + written = written
        BY <1>1
    <2> HIDE DEF data
    <2> QED BY <1>1, <1>2, <2>1, <2>2
<1>4. stale \in 0..MaxWritten
    BY DEF Control
<1>5. ASSUME buffer = <<>>, NEW k \in 0..n, wire' = wire \o SubSeq(data, 1, k), UNCHANGED ending,
             IF k = n THEN stack' = stack /\ UNCHANGED <<buffer, writer, held>>
             ELSE /\ writer' = TRUE
                  /\ buffer' = <<SubSeq(data, k + 1, n)>>
                  /\ MaybePause(stack)
      PROVE  WriteInv'
    <2> HIDE DEF data
    <2> DEFINE x == SubSeq(data, 1, k)
               y == SubSeq(data, k + 1, n)
    <2>1. x \in Seq(Nat) /\ y \in Seq(Nat) /\ data = x \o y /\ Len(x) = k /\ Len(y) = n - k
        BY <1>2, BytesHalves
    <2>2. wire = Run(0, written)
        BY <1>1, <1>5, BytesEmpty, ConcatEmptySeq, Zenon
    <2>3. buffer' \in Buf /\ Bytes(buffer') = y /\ stack' \in Seq(Frame)
        <3>1. CASE k = n
            <4>1. y = <<>>
                BY <2>1, <3>1
            <4> QED BY <1>1, <1>5, <3>1, <4>1, BytesEmpty, Zenon
        <3>2. CASE k # n
            <4>1. buffer' = <<y>> /\ MaybePause(stack)
                BY <1>5, <3>2
            <4> HIDE DEF y
            <4> QED BY <1>1, <2>1, <4>1, BytesOne, PauseIs DEF Buf
        <3> QED BY <3>1, <3>2
    <2>4. wire' = wire \o x /\ UNCHANGED <<closing, conn_lost, scheduled, stale>>
        BY <1>5 DEF ending
    <2> HIDE DEF x, y
    <2>5. wire' \in Seq(Nat) /\ wire' \o Bytes(buffer') = Run(0, written')
        <3>1. (wire \o x) \o y = wire \o (x \o y)
            BY <1>1, <2>1, Assoc, Zenon
        <3> QED BY <1>1, <1>3, <2>1, <2>2, <2>3, <2>4, <3>1, ConcatIs, Zenon
    <2>6. Data'
        BY <1>0, <1>1, <2>3, <2>5, DataStream
    <2>7. Control'
        BY <1>0, <1>4, <2>3, <2>4, ControlStep
    <2> QED BY <2>6, <2>7
<1>6. ASSUME ForceClose(<<>>), UNCHANGED <<wire, held, stack>> PROVE WriteInv'
    <2>1. /\ buffer' = <<>> /\ closing' /\ conn_lost' /\ scheduled' = scheduled + 1 /\ stale' = stale
        BY <1>1, <1>6 DEF ForceClose, Datagram
    <2>2. Data'
        BY <1>0, <1>1, <1>6, <2>1, DataCleared
    <2>3. Control'
        BY <1>0, <1>1, <1>4, <1>6, <2>1, ControlStep
    <2> QED BY <2>2, <2>3
<1>7. ASSUME buffer' = Append(buffer, data), MaybePause(stack), UNCHANGED <<wire, writer, ending>>
      PROVE  WriteInv'
    <2> HIDE DEF data
    <2>1. buffer' \in Buf /\ Bytes(buffer') = Bytes(buffer) \o data
        <3>1. Append(buffer, data) \in Buf
            BY <1>1, <1>2 DEF Buf
        <3> QED BY <1>1, <1>2, <1>7, <3>1, BytesAppend, Zenon
    <2>2. stack' \in Seq(Frame)
        BY <1>1, <1>7, PauseIs
    <2>3. wire' \o Bytes(buffer') = Run(0, written')
        <3>1. Bytes(buffer) \in Seq(Nat)
            BY <1>1, BytesType
        <3>2. wire \o (Bytes(buffer) \o data) = (wire \o Bytes(buffer)) \o data
            BY <1>1, <1>2, <3>1, Assoc
        <3> QED BY <1>1, <1>3, <1>7, <2>1, <3>2
    <2>4. Data'
        BY <1>0, <1>1, <1>7, <2>1, <2>3, DataStream
    <2>5. Control'
        BY <1>0, <1>4, <1>7, <2>2, ControlStep DEF ending
    <2> QED BY <2>4, <2>5
<1> QED BY <1>5, <1>6, <1>7, Zenon DEF write

\* writelines.
LEMMA WritelinesKeeps ==
    ASSUME WriteInv, NEW sizes \in Seq(Nat), writelines(sizes)
    PROVE  WriteInv'
<1> DEFINE P == Pieces(sizes)
           n == Total(sizes)
           buf == buffer \o P
<1>0. ~Datagram /\ MayWrite("writelines", n) /\ WriteReady(buf, <<"lines">> \o stack)
    BY DEF writelines
<1>1. n \in Nat
    BY TotalType
<1> HIDE DEF n
<1>2. /\ sock = "stream" /\ ~conn_lost /\ ~shut /\ stack \in Seq(Frame)
      /\ written \in Nat /\ written' = written + n /\ written' \in 0..MaxWritten
      /\ written <= written'
      /\ buffer \in Buf /\ wire \in Seq(Nat) /\ wire \o Bytes(buffer) = Run(0, written)
    BY <1>0, <1>1, MayWriteIs
<1>3. P \in Buf /\ Bytes(P) = Run(written, n)
    BY <1>2, PiecesAre DEF n
<1> HIDE DEF P
<1>4. buf \in Buf /\ Bytes(buf) = Bytes(buffer) \o Run(written, n)
    <2>1. buf \in Buf
        BY <1>2, <1>3 DEF Buf
    <2> QED BY <1>2, <1>3, <2>1, BytesConcat, Zenon
<1> HIDE DEF buf
<1>5. wire \o Bytes(buf) = Run(0, written')
    <2>1. Run(0, written) \o Run(0 + written, n) = Run(0, written + n)
        BY <1>1, <1>2, RunJoins, Zenon
    <2>2. Bytes(buffer) \in Seq(Nat) /\ Run(written, n) \in Seq(Nat)
        BY <1>1, <1>2, BytesType, RunType
    <2>3. wire \o (Bytes(buffer) \o Run(written, n)) = (wire \o Bytes(buffer)) \o Run(written, n)
        BY <1>2, <2>2, Assoc
    <2>4. 0 + written = written
        BY <1>2
    <2> QED BY <1>2, <1>4, <2>1, <2>3, <2>4
<1>6. <<"lines">> \o stack \in Seq(Frame)
    BY <1>2, Pushed, FrameIs
<1> QED BY <1>0, <1>2, <1>4, <1>5, <1>6, WriteReadyKeeps, Zenon

\* The loop calls the writer of a stream.
LEMMA RunWriterKeeps == ASSUME WriteInv, RunWriter PROVE WriteInv'
<1>1. /\ sock = "stream" /\ ~conn_lost /\ buffer # <<>> /\ written' = written
      /\ WriteReady(buffer, <<>>)
    BY DEF RunWriter, open, Datagram, WriteInv, Control
<1>2. /\ buffer \in Buf /\ ~shut /\ wire \o Bytes(buffer) = Run(0, written')
      /\ written' \in 0..MaxWritten /\ written <= written'
    BY <1>1, WriterConstants DEF WriteInv, Data, Buf
<1>3. <<>> \in Seq(Frame)
    OBVIOUS
<1> QED BY <1>1, <1>2, <1>3, WriteReadyKeeps, Zenon

\* sendto.
LEMMA SendtoKeeps == ASSUME WriteInv, sendto PROVE WriteInv'
<1> USE DEF WriteInv
<1> DEFINE data == Pieces(<<1>>)[1]
           all == wire \o Bytes(buffer)
<1>0. /\ Datagram /\ written < MaxWritten /\ written' = written + 1
      /\ UNCHANGED <<eof, shut, sock, waiter, lost>>
    BY DEF sendto
<1>1. /\ sock = "datagram" /\ sock' = "datagram" /\ ~eof' /\ ~shut' /\ stack \in Seq(Frame)
      /\ written \in Nat /\ written' \in 0..MaxWritten /\ written' \in Nat /\ written <= written'
      /\ buffer \in Buf /\ wire \in Seq(Nat) /\ Rising(all, written) /\ stale \in 0..MaxWritten
    BY <1>0, WriterConstants DEF Datagram, Data, Control, Buf
<1>2. data = Run(written, 1) /\ data \in Seq(Nat) /\ Bytes(buffer) \in Seq(Nat)
    <2>1. 1 \in Nat
        OBVIOUS
    <2> QED BY <1>1, <2>1, PieceIs, RunType, BytesType, Zenon
<1>3. Rising(all \o data, written') /\ Rising(all, written')
    <2> HIDE DEF data, all
    <2> QED BY <1>0, <1>1, <1>2, RisingPush, RisingMore
<1>4. ASSUME buffer' \in Buf, wire' \in Seq(Nat), stack' \in Seq(Frame),
             wire' \o Bytes(buffer') \in {all, all \o data},
             UNCHANGED ending \/ (ForceClose(<<>>) /\ buffer = <<>>)
      PROVE  WriteInv'
    <2>1. /\ stale' \in 0..MaxWritten /\ (conn_lost => conn_lost')
          /\ \/ scheduled' = scheduled /\ (conn_lost' => conn_lost) /\ (closing => closing')
             \/ ~conn_lost /\ scheduled' = scheduled + 1 /\ conn_lost' /\ closing'
        <3>1. CASE UNCHANGED ending
            BY <1>1, <3>1 DEF ending
        <3>2. CASE ForceClose(<<>>)
            <4>1. Size(<<>>) \in 0..MaxWritten
                BY BytesEmpty, WriterConstants
            <4> QED BY <1>1, <3>2, <4>1 DEF ForceClose
        <3> QED BY <1>4, <3>1, <3>2
    <2>2. Data'
        <3> HIDE DEF all, data
        <3> QED BY <1>1, <1>3, <1>4, Zenon DEF Data, Buf
    <2>3. Control'
        BY <1>0, <1>4, <2>1, ControlStep
    <2> QED BY <2>2, <2>3
<1>5. CASE buffer = <<>> /\ wire' = wire \o data /\ UNCHANGED <<buffer, writer, held, ending, stack>>
    <2> HIDE DEF data
    <2>1. all = wire /\ wire' \o Bytes(buffer') = wire' /\ wire' \in Seq(Nat)
        <3>1. wire' \in Seq(Nat)
            BY <1>1, <1>2, <1>5, ConcatIs
        <3> QED BY <1>1, <1>5, <3>1, BytesEmpty, ConcatEmptySeq, Zenon
    <2> QED BY <1>1, <1>4, <1>5, <2>1, Zenon
<1>6. CASE buffer = <<>> /\ buffer' = <<data>> /\ MaybePause(stack) /\ UNCHANGED <<wire, ending>>
    <2> HIDE DEF data
    <2>1. buffer' \in Buf /\ Bytes(buffer') = data /\ stack' \in Seq(Frame)
        BY <1>1, <1>2, <1>6, BytesOne, PauseIs DEF Buf
    <2>2. all = wire
        BY <1>1, <1>6, BytesEmpty, ConcatEmptySeq
    <2>3. wire' \o Bytes(buffer') = all \o data
        BY <1>6, <2>1, <2>2, Zenon
    <2> QED BY <1>1, <1>4, <1>6, <2>1, <2>3, Zenon
<1>7. CASE Enter("error", stack) /\ UNCHANGED <<buffer, wire, writer, held, ending>>
    <2>1. stack' \in Seq(Frame)
        BY <1>1, <1>7, Pushed, FrameIs DEF Enter
    <2>2. wire' \o Bytes(buffer') = all
        BY <1>7
    <2> QED BY <1>1, <1>4, <1>7, <2>1, <2>2
<1>8. CASE buffer = <<>> /\ ForceClose(<<>>) /\ UNCHANGED <<wire, held, stack>>
    <2>1. buffer' = buffer
        BY <1>8 DEF ForceClose
    <2>2. wire' \o Bytes(buffer') = all
        BY <1>8, <2>1
    <2> QED BY <1>1, <1>4, <1>8, <2>1, <2>2
<1>9. CASE buffer' = Append(buffer, data) /\ MaybePause(stack) /\ UNCHANGED <<wire, writer, ending>>
    <2> HIDE DEF data
    <2>1. buffer' \in Buf /\ Bytes(buffer') = Bytes(buffer) \o data
        <3>1. Append(buffer, data) \in Buf
            BY <1>1, <1>2 DEF Buf
        <3> QED BY <1>1, <1>2, <1>9, <3>1, BytesAppend, Zenon
    <2>2. wire' \o Bytes(buffer') = all \o data
        <3>1. wire \o (Bytes(buffer) \o data) = (wire \o Bytes(buffer)) \o data
            BY <1>1, <1>2, Assoc, Zenon
        <3> QED BY <1>9, <2>1, <3>1
    <2>3. stack' \in Seq(Frame)
        BY <1>1, <1>9, PauseIs
    <2> QED BY <1>1, <1>4, <1>9, <2>1, <2>2, <2>3
<1> QED BY <1>5, <1>6, <1>7, <1>8, <1>9, Zenon DEF sendto

\* The loop calls the writer of a datagram transport.
LEMMA SendtoReadyKeeps == ASSUME WriteInv, SendtoReady PROVE WriteInv'
<1> USE DEF WriteInv
<1>1. PICK n \in 0..Len(buffer) :
         LET left == SubSeq(buffer, n + 1, Len(buffer)) IN
         /\ wire' = wire \o Bytes(SubSeq(buffer, 1, n))
         /\ \/ left = <<>> /\ Progress(<<>>, <<>>)
            \/ left # <<>> /\ Progress(PutBack(left), <<>>)
            \/ /\ Failing /\ left # <<>>
               /\ buffer' = Tail(left)
               /\ Enter("error", <<>>)
               /\ UNCHANGED <<writer, held, ending, eof, shut, sock, waiter, lost>>
            \/ /\ Failing /\ left # <<>>
               /\ ForceClose(Tail(left))
               /\ UNCHANGED <<held, eof, shut, sock, waiter, lost, stack>>
    BY Zenon DEF SendtoReady
<1> DEFINE left == SubSeq(buffer, n + 1, Len(buffer))
           gone == SubSeq(buffer, 1, n)
<1>2. /\ sock = "datagram" /\ ~eof /\ ~shut /\ written' = written /\ stack \in Seq(Frame)
      /\ stale \in 0..MaxWritten /\ written \in 0..MaxWritten /\ written \in Nat
      /\ buffer \in Buf /\ wire \in Seq(Nat) /\ Rising(wire \o Bytes(buffer), written)
    BY WriterConstants DEF SendtoReady, Datagram, Data, Control, Buf
<1>3. left \in Buf /\ gone \in Buf /\ buffer = gone \o left
    BY <1>2, BufHalves, Zenon
<1>4. wire' = wire \o Bytes(gone)
    BY <1>1
<1>5. \/ Progress(left, <<>>)
      \/ /\ left # <<>> /\ buffer' = Tail(left) /\ Enter("error", <<>>)
         /\ UNCHANGED <<ending, eof, shut, sock, lost>>
      \/ /\ left # <<>> /\ ForceClose(Tail(left)) /\ UNCHANGED <<eof, shut, sock, lost, stack>>
    BY <1>1, Zenon DEF PutBack
<1> HIDE DEF left, gone
<1>6. Bytes(gone) \in Seq(Nat) /\ Bytes(left) \in Seq(Nat) /\ wire' \in Seq(Nat)
    BY <1>2, <1>3, <1>4, BytesType, ConcatIs
<1>7. Rising(wire' \o Bytes(left), written)
    <2>1. Bytes(buffer) = Bytes(gone) \o Bytes(left)
        BY <1>3, BytesConcat
    <2>2. wire \o (Bytes(gone) \o Bytes(left)) = (wire \o Bytes(gone)) \o Bytes(left)
        BY <1>2, <1>6, Assoc
    <2> QED BY <1>2, <1>4, <2>1, <2>2
<1>8. ASSUME left # <<>>
      PROVE  Tail(left) \in Buf /\ Rising(wire' \o Bytes(Tail(left)), written)
    <2> DEFINE h == Head(left)
               t == Tail(left)
    <2>1. h \in Seq(Nat) /\ t \in Buf
        BY <1>3, <1>8 DEF Buf
    <2>2. left = <<h>> \o t
        <3>1. /\ <<h>> \o t \in Seq(Seq(Nat)) /\ Len(<<h>> \o t) = Len(left)
              /\ \A i \in 1..Len(left) : (<<h>> \o t)[i] = left[i]
            BY <1>3, <1>8, <2>1 DEF Buf
        <3>2. left \in Seq(Seq(Nat))
            BY <1>3 DEF Buf
        <3> QED BY <3>1, <3>2, SeqEqual
    <2> HIDE DEF h, t
    <2>3. <<h>> \in Buf /\ Bytes(<<h>>) = h
        BY <2>1, BytesOne DEF Buf
    <2>4. Bytes(left) = h \o Bytes(t) /\ Bytes(t) \in Seq(Nat)
        BY <2>1, <2>2, <2>3, BytesConcat, BytesType, Zenon
    <2>5. wire' \o (h \o Bytes(t)) = (wire' \o h) \o Bytes(t)
        BY <1>6, <2>1, <2>4, Assoc
    <2>6. Rising((wire' \o h) \o Bytes(t), written)
        BY <1>7, <2>4, <2>5
    <2>7. Rising(wire' \o Bytes(t), written)
        BY <1>2, <1>6, <2>1, <2>4, <2>6, RisingOmit
    <2> QED BY <2>1, <2>7 DEF t
<1>9. Rising(wire' \o Bytes(<<>>), written) /\ <<>> \in Buf
    <2>1. Rising(wire', written)
        BY <1>2, <1>6, <1>7, RisingPrefix
    <2>2. wire' \o Bytes(<<>>) = wire'
        BY <1>6, BytesEmpty, ConcatEmptySeq
    <2>3. <<>> \in Buf
        BY DEF Buf
    <2> QED BY <2>1, <2>2, <2>3, Zenon
<1>10. ASSUME buffer' \in Buf, Rising(wire' \o Bytes(buffer'), written), sock' = "datagram", ~eof', ~shut'
       PROVE  Data'
    BY <1>2, <1>6, <1>10 DEF Data, Buf
<1>11. CASE Progress(left, <<>>)
    <2>1. <<>> \in Seq(Frame)
        OBVIOUS
    <2>2. /\ buffer' = left /\ UNCHANGED <<closing, conn_lost, scheduled, stale, eof, sock>>
          /\ stack' \in Seq(Frame) /\ lost' \in {lost, lost + 1} /\ ~shut'
        BY <1>2, <1>11, <2>1, ProgressIs, Zenon
    <2>3. Data'
        BY <1>2, <1>3, <1>7, <1>10, <2>2
    <2>4. Control'
        BY <1>2, <2>2, ControlStep
    <2> QED BY <2>3, <2>4
<1>12. CASE /\ left # <<>> /\ buffer' = Tail(left) /\ Enter("error", <<>>)
            /\ UNCHANGED <<ending, eof, shut, sock, lost>>
    <2>1. stack' \in Seq(Frame)
        <3>1. <<>> \in Seq(Frame)
            OBVIOUS
        <3> QED BY <1>12, <3>1, Pushed, FrameIs DEF Enter
    <2>2. Data'
        BY <1>2, <1>8, <1>10, <1>12
    <2>3. Control'
        BY <1>2, <1>12, <2>1, ControlStep DEF ending
    <2> QED BY <2>2, <2>3
<1>13. CASE left # <<>> /\ ForceClose(Tail(left)) /\ UNCHANGED <<eof, shut, sock, lost, stack>>
    <2>1. buffer' \in {<<>>, Tail(left)}
        BY <1>13 DEF ForceClose
    <2>2. Data'
        BY <1>2, <1>8, <1>9, <1>10, <1>13, <2>1, Zenon
    <2>3. Size(Tail(left)) \in 0..MaxWritten
        BY <1>6, <1>8, <1>13, StaleFits
    <2>4. Control'
        BY <1>2, <1>13, <2>3, ControlStep DEF ForceClose
    <2> QED BY <2>2, <2>4
<1> QED BY <1>5, <1>11, <1>12, <1>13

\* The steps that send nothing.
LEMMA OthersKeep ==
    ASSUME WriteInv,
           \/ write_eof \/ make_empty_waiter \/ reset_empty_waiter \/ cancel_sendfile
           \/ close \/ abort \/ LinesTail \/ RunLost \/ Return
    PROVE  WriteInv'
<1> USE DEF WriteInv
<1>0. /\ stack \in Seq(Frame) /\ stale \in 0..MaxWritten /\ scheduled \in 0..1
      /\ sock \in {"stream", "datagram", "none"}
      /\ stack # <<>> => Tail(stack) \in Seq(Frame)
    BY DEF Control
<1>1. CASE write_eof
    <2>1. /\ sock # "datagram" /\ open /\ eof' /\ (shut' => buffer = <<>>)
          /\ UNCHANGED <<buffer, wire, written, closing, conn_lost, scheduled, stale, sock, lost, stack>>
        BY <1>1, Zenon DEF write_eof, MayCall, Datagram, sent, ending
    <2>2. sock = "stream"
        BY <1>0, <2>1 DEF open
    <2>3. shut' => conn_lost \/ wire = Run(0, written)
        <3> SUFFICES ASSUME shut', ~conn_lost PROVE wire = Run(0, written)
            OBVIOUS
        <3>1. buffer = <<>> /\ wire \in Seq(Nat) /\ wire \o Bytes(buffer) = Run(0, written)
            BY <2>1, <2>2 DEF Data
        <3>2. wire \o <<>> = wire
            BY <3>1, ConcatEmptySeq, Zenon
        <3> QED BY <3>1, <3>2, BytesEmpty, Zenon
    <2>4. Data'
        BY <2>1, <2>2, <2>3 DEF Data
    <2>5. Control'
        BY <1>0, <2>1, ControlStep, Zenon
    <2> QED BY <2>4, <2>5
<1>2. CASE make_empty_waiter \/ reset_empty_waiter \/ cancel_sendfile \/ close
    <2>1. /\ UNCHANGED <<buffer, wire, written, shut, eof, sock, stale, lost, stack>>
          /\ conn_lost => conn_lost'
        BY <1>2 DEF make_empty_waiter, reset_empty_waiter, cancel_sendfile, close, sent, ending
    <2>2. \/ scheduled' = scheduled /\ (conn_lost' => conn_lost) /\ (closing => closing')
          \/ ~conn_lost /\ scheduled' = scheduled + 1 /\ conn_lost' /\ closing'
        BY <1>2, <2>1 DEF Control, make_empty_waiter, reset_empty_waiter, cancel_sendfile,
           close, sent, ending, FirstClose
    <2>3. Data'
        BY <2>1, DataRests
    <2>4. Control'
        BY <1>0, <2>1, <2>2, ControlStep
    <2> QED BY <2>3, <2>4
<1>3. CASE abort
    <2>1. /\ ~conn_lost /\ buffer' = <<>> /\ closing' /\ conn_lost' /\ scheduled' = scheduled + 1
          /\ stale' \in {stale, Size(buffer)}
          /\ UNCHANGED <<wire, written, eof, shut, sock, lost, stack>>
        BY <1>3 DEF abort, ForceClose, sent
    <2>2. written' \in 0..MaxWritten /\ written <= written' /\ buffer \in Buf /\ wire \in Seq(Nat)
        BY <2>1, WriterConstants DEF Data, Buf
    <2>3. Data'
        BY <2>1, <2>2, DataCleared
    <2>4. Size(buffer) \in 0..MaxWritten
        BY <2>2, StaleFits DEF Data
    <2>5. Control'
        BY <1>0, <2>1, <2>4, ControlStep, Zenon
    <2> QED BY <2>3, <2>5
<1>4. CASE LinesTail
    <2>1. /\ stack # <<>>
          /\ UNCHANGED <<buffer, wire, written, closing, conn_lost, scheduled, stale, eof, shut, sock, lost>>
          /\ MaybePause(Tail(stack)) \/ stack' = Tail(stack)
        BY <1>4 DEF LinesTail, sent, ending
    <2>2. stack' \in Seq(Frame)
        BY <1>0, <2>1, PauseIs, Zenon
    <2>3. Data'
        BY <2>1, DataRests
    <2>4. Control'
        BY <1>0, <2>1, <2>2, ControlStep
    <2> QED BY <2>3, <2>4
<1>5. CASE RunLost
    <2>1. /\ scheduled' = 0 /\ (stack' = stack \/ Enter("lost", <<>>)) /\ lost' \in {lost, lost + 1}
          /\ UNCHANGED <<buffer, wire, written, closing, conn_lost, stale, eof, shut, sock>>
        BY <1>0, <1>5 DEF RunLost, EnterLost, sent
    <2>2. stack' \in Seq(Frame)
        <3>1. <<>> \in Seq(Frame)
            OBVIOUS
        <3> QED BY <1>0, <2>1, <3>1, Pushed, FrameIs, Zenon DEF Enter
    <2>3. Data'
        BY <2>1, DataRests
    <2>4. Control'
        BY <2>1, <2>2 DEF Control
    <2> QED BY <2>3, <2>4
<1>6. CASE Return
    <2>1. stack # <<>> /\ UNCHANGED <<wire, written>>
        BY <1>6 DEF Return, sent
    <2>2. CASE /\ stack' = Tail(stack) /\ sock' \in {sock, "none"}
               /\ UNCHANGED <<buffer, ending, eof, shut, lost>>
        <3>1. UNCHANGED <<closing, conn_lost, scheduled, stale>>
            BY <2>2 DEF ending
        <3>2. Data'
            BY <2>1, <2>2, <3>1, DataRests
        <3>3. Control'
            BY <1>0, <2>1, <2>2, <3>1, ControlStep, Zenon
        <3> QED BY <3>2, <3>3
    <2>3. CASE open /\ FinishWrite(buffer, Tail(stack))
        <3>1. /\ UNCHANGED <<buffer, closing, conn_lost, scheduled, stale, eof, sock>>
              /\ stack' \in Seq(Frame) /\ lost' \in {lost, lost + 1}
              /\ shut' => shut \/ (buffer = <<>> /\ eof)
            BY <1>0, <2>1, <2>3, FinishIs, Zenon
        <3>2. shut' /\ ~conn_lost /\ ~shut => wire = Run(0, written)
            <4> SUFFICES ASSUME shut', ~conn_lost, ~shut PROVE wire = Run(0, written)
                OBVIOUS
            <4>1. sock = "stream" /\ buffer = <<>>
                BY <1>0, <2>3, <3>1 DEF open, Data
            <4>2. wire \in Seq(Nat) /\ wire \o Bytes(buffer) = Run(0, written)
                BY <4>1 DEF Data
            <4> QED BY <4>1, <4>2, BytesEmpty, ConcatEmptySeq
        <3>3. Data'
            BY <2>1, <3>1, <3>2 DEF Data
        <3>4. Control'
            BY <1>0, <3>1, ControlStep
        <3> QED BY <3>3, <3>4
    <2> QED BY <1>6, <2>2, <2>3 DEF Return
<1> QED BY <1>1, <1>2, <1>3, <1>4, <1>5, <1>6

\* The invariant holds when the transport is made.
LEMMA WriteInit == Init => WriteInv
<1> SUFFICES ASSUME Init PROVE WriteInv
    OBVIOUS
<1>1. wire \o Bytes(buffer) = <<>> /\ Run(0, written) = <<>>
    <2>1. <<>> \in Seq(Nat)
        OBVIOUS
    <2> QED BY <2>1, BytesEmpty, ConcatEmptySeq DEF Init, Run
<1>2. buffer \in Seq(Seq(Nat)) /\ wire \in Seq(Nat) /\ written \in 0..MaxWritten
    BY WriterConstants DEF Init
<1>3. Rising(<<>>, written)
    BY DEF Rising
<1>4. Data
    BY <1>1, <1>2, <1>3 DEF Init, Data
<1>5. Control
    BY WriterConstants DEF Init, Control
<1> QED BY <1>4, <1>5 DEF WriteInv

\* Every step keeps it.
LEMMA WriteStep == WriteInv /\ [Next]_vars => WriteInv'
<1> SUFFICES ASSUME WriteInv, [Next]_vars PROVE WriteInv'
    OBVIOUS
<1>1. \A n \in Sizes : n \in Nat
    BY WriterConstants
<1>2. \A sizes \in Lines : sizes \in Seq(Nat)
    BY WriterConstants
<1>3. CASE UNCHANGED vars
    <2>1. /\ UNCHANGED <<buffer, wire, written, eof, shut, sock, lost, stack>>
          /\ UNCHANGED <<closing, conn_lost, scheduled, stale>>
        BY <1>3 DEF vars, sent, ending
    <2>2. Data'
        BY <2>1, DataRests DEF WriteInv
    <2>3. Control'
        BY <2>1 DEF WriteInv, Control
    <2> QED BY <2>2, <2>3 DEF WriteInv
<1> QED BY <1>1, <1>2, <1>3, WriteKeeps, WritelinesKeeps, RunWriterKeeps, SendtoKeeps,
           SendtoReadyKeeps, OthersKeep DEF Next

\* The inductive invariant of the data and of the calls of connection_lost.
THEOREM WriteInvariant == Spec => []WriteInv
<1> QED BY WriteInit, WriteStep, PTL DEF Spec

\* Whatever sends take in part and whatever the protocol calls in its
\* callbacks, a stream transport puts exactly what was written on the wire, in
\* order, up to what it still buffers, and is shut down after the last byte.
THEOREM WrittenInOrder == Spec => []InOrder
<1>1. WriteInv => InOrder
    <2> SUFFICES ASSUME WriteInv PROVE InOrder
        OBVIOUS
    <2> DEFINE all == wire \o Bytes(buffer)
    <2>1. /\ Rising(all, written)
          /\ sock = "stream" /\ ~conn_lost => all = Run(0, written)
          /\ shut /\ ~conn_lost => wire = Run(0, written)
        BY DEF WriteInv, Data
    <2>2. \A i, j \in DOMAIN all : i < j => all[i] < all[j]
        <3> HIDE DEF all
        <3> QED BY <2>1 DEF Rising
    <2>3. Run(0, written) = [n \in 1..written |-> n]
        BY DEF WriteInv, Data, Run
    <2> QED BY <2>1, <2>2, <2>3, Zenon DEF InOrder
<1> QED BY <1>1, WriteInvariant, PTL
-----------------------------------------------------------------------------
(* connection_lost is called once.                                         *)

\* Unless it is in connection_lost, a transport with its socket has not called it.
LEMMA NotYetLost ==
    ASSUME LostInv, open, stack # <<>> => Head(stack) # "lost"
    PROVE  lost = 0 /\ ~Holds("lost", stack)
    BY DEF LostInv

\* Under Parted no write is called by connection_lost itself.
LEMMA MayWritePart ==
    ASSUME Parted, NEW c \in {"write", "writelines"}, MayCall(c)
    PROVE  open /\ (stack # <<>> => Head(stack) # "lost")
    BY DEF Parted, MayCall

\* The protocol is not told that the connection is lost.
LEMMA LostLater ==
    ASSUME lost = 0, lost' = 0, open, sock' = sock, ~Holds("lost", stack')
    PROVE  LostInv'
    BY DEF LostInv, open

\* The transport calls connection_lost for the first time.
LEMMA LostNow ==
    ASSUME lost = 0, open, sock' = sock, NEW rest \in Seq(Frame), ~Holds("lost", rest), EnterLost(rest)
    PROVE  LostInv'
<1>1. stack' = <<"lost">> \o rest /\ lost' = 1
    BY DEF EnterLost, Enter
<1>2. stack' # <<>> /\ Head(stack') = "lost" /\ Tail(stack') = rest
    BY <1>1, Pushed, FrameIs
<1> QED BY <1>1, <1>2, Zenon DEF LostInv, open

\* A callback other than connection_lost is called, or none.
LEMMA PausesLater ==
    ASSUME lost = 0, lost' = 0, open, sock' = sock, NEW rest \in Seq(Frame), ~Holds("lost", rest),
           NEW f \in {"pause", "resume", "error"}, stack' = rest \/ stack' = <<f>> \o rest
    PROVE  LostInv'
<1>1. ~Holds("lost", <<f>> \o rest)
    BY Pushed, FrameIs
<1> QED BY <1>1, LostLater, Zenon

\* The end of a write calls connection_lost at most once.
LEMMA FinishLost ==
    ASSUME lost = 0, open, NEW rest \in Seq(Frame), ~Holds("lost", rest), NEW buf, FinishWrite(buf, rest)
    PROVE  LostInv'
<1>1. sock' = sock /\ (EnterLost(rest) \/ (stack' = rest /\ lost' = lost))
    BY DEF FinishWrite
<1> QED BY <1>1, LostNow, LostLater

\* So does a write that sent some bytes.
LEMMA ProgressLost ==
    ASSUME lost = 0, open, NEW rest \in Seq(Frame), ~Holds("lost", rest), NEW buf, Progress(buf, rest)
    PROVE  LostInv'
<1>1. \/ FinishWrite(buf, rest)
      \/ stack' = <<"resume">> \o rest /\ sock' = sock /\ lost' = lost
    BY DEF Progress, Enter
<1> QED BY <1>1, FinishLost, PausesLater

\* And the writer, whatever send returns.
LEMMA ReadyLost ==
    ASSUME lost = 0, open, NEW rest \in Seq(Frame), ~Holds("lost", rest), NEW buf, WriteReady(buf, rest)
    PROVE  LostInv'
<1>1. \/ stack' = rest /\ sock' = sock /\ lost' = lost
      \/ \E b : Progress(b, rest)
    BY DEF WriteReady
<1> QED BY <1>1, LostLater, ProgressLost

\* A step that changes neither the stack nor the socket.
LEMMA LostRests ==
    ASSUME LostInv, UNCHANGED <<lost, sock, stack>>
    PROVE  LostInv'
    BY DEF LostInv, open

\* The steps that send.
LEMMA WritesLost ==
    ASSUME Parted, Control, LostInv,
           \/ \E n \in Sizes : write(n)
           \/ \E sizes \in Lines : writelines(sizes)
           \/ sendto \/ RunWriter \/ SendtoReady
    PROVE  LostInv'
<1>0. stack \in Seq(Frame) /\ <<>> \in Seq(Frame) /\ ~Holds("lost", <<>>)
    BY NoFrame DEF Control
<1>1. ASSUME NEW n \in Sizes, write(n) PROVE LostInv'
    <2>1. MayCall("write") /\ UNCHANGED <<sock, lost>>
        BY <1>1 DEF write, MayWrite
    <2>2. open /\ lost = 0 /\ ~Holds("lost", stack)
        BY <2>1, MayWritePart, NotYetLost, ZenonT(30)
    <2>3. stack' = stack \/ stack' = <<"pause">> \o stack
        BY <1>1 DEF write, MaybePause, Enter
    <2> QED BY <1>0, <2>1, <2>2, <2>3, PausesLater, Zenon
<1>2. ASSUME NEW sizes \in Lines, writelines(sizes) PROVE LostInv'
    <2>1. MayCall("writelines") /\ WriteReady(buffer \o Pieces(sizes), <<"lines">> \o stack)
        BY <1>2 DEF writelines, MayWrite
    <2>2. open /\ lost = 0 /\ ~Holds("lost", stack)
        BY <2>1, MayWritePart, NotYetLost
    <2>3. <<"lines">> \o stack \in Seq(Frame) /\ ~Holds("lost", <<"lines">> \o stack)
        BY <1>0, <2>2, Pushed, FrameIs
    <2> QED BY <2>1, <2>2, <2>3, ReadyLost, Zenon
<1>3. CASE sendto
    <2>1. MayCall("write") /\ UNCHANGED <<sock, lost>>
        BY <1>3 DEF sendto
    <2>2. open /\ lost = 0 /\ ~Holds("lost", stack)
        BY <2>1, MayWritePart, NotYetLost, ZenonT(30)
    <2>3. stack' = stack \/ stack' = <<"pause">> \o stack \/ stack' = <<"error">> \o stack
        BY <1>3 DEF sendto, MaybePause, Enter
    <2> QED BY <1>0, <2>1, <2>2, <2>3, PausesLater, Zenon
<1>4. CASE RunWriter
    <2>1. stack = <<>> /\ open /\ WriteReady(buffer, <<>>)
        BY <1>4 DEF RunWriter
    <2> QED BY <1>0, <2>1, NotYetLost, ReadyLost, Zenon
<1>5. CASE SendtoReady
    <2>1. /\ stack = <<>> /\ open
          /\ \/ \E b : Progress(b, <<>>)
             \/ (stack' = stack \/ stack' = <<"error">> \o stack) /\ UNCHANGED <<sock, lost>>
        BY <1>5, Zenon DEF SendtoReady, Enter
    <2>2. lost = 0
        BY <2>1, NotYetLost
    <2> QED BY <1>0, <2>1, <2>2, ProgressLost, PausesLater, Zenon
<1> QED BY <1>1, <1>2, <1>3, <1>4, <1>5

\* The steps that send nothing.
LEMMA OthersLost ==
    ASSUME Control, LostInv,
           \/ write_eof \/ make_empty_waiter \/ reset_empty_waiter \/ cancel_sendfile
           \/ close \/ abort \/ LinesTail \/ RunLost \/ Return
    PROVE  LostInv'
<1> DEFINE rest == Tail(stack)
<1>0. /\ stack \in Seq(Frame) /\ <<>> \in Seq(Frame) /\ ~Holds("lost", <<>>)
      /\ stack # <<>> =>
           /\ rest \in Seq(Frame)
           /\ Holds("lost", stack) <=> Head(stack) = "lost" \/ Holds("lost", rest)
    <2>1. stack \in Seq(Frame)
        BY DEF Control
    <2> QED BY <2>1, NoFrame, Popping
<1> HIDE DEF rest
<1>1. CASE write_eof \/ make_empty_waiter \/ reset_empty_waiter \/ cancel_sendfile \/ close \/ abort
    <2>1. UNCHANGED <<lost, sock, stack>>
        BY <1>1 DEF write_eof, make_empty_waiter, reset_empty_waiter, cancel_sendfile, close, abort
    <2> QED BY <2>1, LostRests, ZenonT(20)
\* A frame that is not connection_lost's leaves.
<1>2. ASSUME stack # <<>>, Head(stack) # "lost", stack' = rest, UNCHANGED <<lost, sock>>
      PROVE  LostInv'
    BY <1>0, <1>2 DEF LostInv, open
<1>3. CASE LinesTail
    <2>1. /\ stack # <<>> /\ Head(stack) = "lines" /\ UNCHANGED <<lost, sock>>
          /\ stack' = rest \/ (open /\ stack' = <<"pause">> \o rest)
        BY <1>3 DEF LinesTail, MaybePause, Enter, rest
    <2>2. ASSUME open PROVE lost = 0 /\ rest \in Seq(Frame) /\ ~Holds("lost", rest)
        BY <1>0, <2>1, <2>2, NotYetLost
    <2> QED BY <1>2, <2>1, <2>2, PausesLater, Zenon
<1>4. CASE RunLost
    <2>1. stack = <<>> /\ sock' = sock /\ IF open THEN EnterLost(<<>>) ELSE UNCHANGED <<lost, stack>>
        BY <1>4 DEF RunLost, StillConnected
    <2>2. CASE open
        BY <1>0, <2>1, <2>2, NotYetLost, LostNow, Zenon
    <2>3. CASE ~open
        BY <2>1, <2>3, LostRests
    <2> QED BY <2>2, <2>3
<1>5. CASE Return
    <2>1. /\ stack # <<>>
          /\ \/ Head(stack) # "lost" /\ stack' = rest /\ UNCHANGED <<lost, sock>>
             \/ Head(stack) # "lost" /\ open /\ FinishWrite(buffer, rest)
             \/ Head(stack) = "lost" /\ stack' = rest /\ sock' = "none" /\ lost' = lost
        BY <1>5 DEF Return, rest
    <2>2. CASE Head(stack) # "lost" /\ open /\ FinishWrite(buffer, rest)
        <3>1. lost = 0 /\ rest \in Seq(Frame) /\ ~Holds("lost", rest)
            BY <1>0, <2>1, <2>2, NotYetLost, Zenon
        <3> QED BY <2>2, <3>1, FinishLost
    <2>3. CASE Head(stack) = "lost" /\ stack' = rest /\ sock' = "none" /\ lost' = lost
        BY <1>0, <2>1, <2>3 DEF LostInv, open, rest
    <2> QED BY <1>2, <2>1, <2>2, <2>3
<1> QED BY <1>1, <1>3, <1>4, <1>5

\* Every step keeps LostInv.
LEMMA LostStep ==
    ASSUME Parted, WriteInv, LostInv, [Next]_vars
    PROVE  LostInv'
<1>1. Control
    BY DEF WriteInv
<1>2. CASE UNCHANGED vars
    BY <1>2, LostRests DEF vars
<1> QED BY <1>1, <1>2, WritesLost, OthersLost DEF Next

\* It holds when the transport is made.
LEMMA LostInit == Init => LostInv
    BY NoFrame, WriterConstants DEF Init, LostInv, open

\* A protocol that writes nothing in connection_lost is told once that the
\* connection is lost, however it closes and aborts the transport in its
\* callbacks.  One that calls writelines there, after a close that waited for
\* the buffer, is told again: _write_sendmsg ends the transport a second time.
THEOREM ConnectionLostOnce ==
    ASSUME Parted
    PROVE  Spec => []LostOnce
<1>1. WriteInv /\ LostInv /\ [Next]_vars => LostInv'
    BY LostStep
<1>2. LostInv => LostOnce
    BY DEF LostInv, LostOnce
<1> QED BY <1>1, <1>2, LostInit, WriteInvariant, PTL DEF Spec
-----------------------------------------------------------------------------
(* The writer is registered exactly while bytes are unsent.                *)

\* An empty buffer has no empty piece.
LEMMA FullEmpty == Full(<<>>)
    BY DEF Full

\* Two buffers have no empty piece exactly when neither has.
LEMMA FullConcat ==
    ASSUME NEW s \in Buf, NEW t \in Buf
    PROVE  Full(s \o t) <=> Full(s) /\ Full(t)
<1>1. /\ Len(s \o t) = Len(s) + Len(t) /\ Len(s) \in Nat /\ Len(t) \in Nat
      /\ \A i \in 1..Len(s) : (s \o t)[i] = s[i]
      /\ \A i \in 1..Len(t) : (s \o t)[Len(s) + i] = t[i]
    BY DEF Buf
<1> DEFINE u == s \o t
<1> HIDE DEF u
<1>2. ASSUME Full(u) PROVE Full(s) /\ Full(t)
    <2>1. \A i \in 1..Len(s) : i \in 1..Len(u)
        BY <1>1 DEF u
    <2>2. \A i \in 1..Len(t) : Len(s) + i \in 1..Len(u)
        BY <1>1 DEF u
    <2> QED BY <1>1, <1>2, <2>1, <2>2, Zenon DEF Full, u
<1>3. ASSUME Full(s), Full(t), NEW i \in 1..Len(u) PROVE u[i] # <<>>
    <2>1. CASE i <= Len(s)
        <3>1. i \in 1..Len(s)
            BY <2>1
        <3> QED BY <1>1, <1>3, <3>1 DEF Full, u
    <2>2. CASE ~(i <= Len(s))
        <3>1. i - Len(s) \in 1..Len(t) /\ Len(s) + (i - Len(s)) = i
            BY <1>1, <2>2 DEF u
        <3> QED BY <1>1, <1>3, <3>1 DEF Full, u
    <2> QED BY <2>1, <2>2
<1> QED BY <1>2, <1>3 DEF Full, u

\* A buffer of one piece.
LEMMA FullOne == \A p : Full(<<p>>) <=> p # <<>>
    BY DEF Full

\* A piece with bytes may be put at the end.
LEMMA FullAppend ==
    ASSUME NEW s \in Buf, NEW p \in Seq(Nat), Full(s), p # <<>>
    PROVE  Full(Append(s, p)) /\ Append(s, p) # <<>>
<1>1. <<p>> \in Buf
    BY DEF Buf
<1>2. Append(s, p) = s \o <<p>>
    BY AppendIsConcat DEF Buf
<1>3. Append(s, p) # <<>>
    BY AppendProperties DEF Buf
<1> QED BY <1>1, <1>2, <1>3, FullConcat, FullOne

\* A buffer without empty pieces has bytes in it unless it is empty.
LEMMA FullSize ==
    ASSUME NEW buf \in Buf, Full(buf)
    PROVE  Size(buf) > 0 <=> buf # <<>>
<1>1. CASE buf = <<>>
    BY <1>1, BytesEmpty
<1>2. CASE buf # <<>>
    <2> DEFINE A == SubSeq(buf, 1, 1)
               C == SubSeq(buf, 1 + 1, Len(buf))
    <2>1. 1 \in 0..Len(buf) /\ 1 \in 1..Len(buf)
        BY <1>2 DEF Buf
    <2>2. A \in Buf /\ C \in Buf /\ buf = A \o C
        BY <2>1, BufHalves, Zenon
    <2> DEFINE h == buf[1]
    <2>3. h \in Seq(Nat) /\ h # <<>>
        <3>1. h \in Seq(Nat)
            BY <2>1 DEF Buf
        <3>2. h # <<>>
            BY <2>1, Zenon DEF Full
        <3> QED BY <3>1, <3>2
    <2>4. A = <<h>>
        <3>1. <<h>> \in Seq(Seq(Nat)) /\ A \in Seq(Seq(Nat)) /\ Len(A) = 1 /\ A[1] = h
            BY <2>1, <2>2, <2>3 DEF Buf
        <3> HIDE DEF A, h
        <3> QED BY <3>1, SeqEqual
    <2> HIDE DEF A, C, h
    <2>7. Bytes(A) = h /\ Len(h) \in Nat /\ Len(h) # 0
        BY <2>3, <2>4, BytesOne
    <2>5. Bytes(buf) = Bytes(A) \o Bytes(C) /\ Bytes(C) \in Seq(Nat)
        BY <2>2, BytesConcat, BytesType, Zenon
    <2>6. Len(Bytes(buf)) = Len(Bytes(A)) + Len(Bytes(C)) /\ Len(Bytes(C)) \in Nat
        BY <2>3, <2>5, <2>7, ConcatIs
    <2> QED BY <1>2, <2>6, <2>7 DEF Size
<1> QED BY <1>1, <1>2
\* The protocol's callback that is the innermost frame is not connection_lost.
LEMMA NotInLost ==
    ASSUME NEW rest \in Seq(Frame), ~Holds("lost", rest), rest # <<>>
    PROVE  Head(rest) # "lost"
    BY Popping

\* A frame other than connection_lost's is pushed, or none.
LEMMA PausedWriting ==
    ASSUME NEW rest \in Seq(Frame), ~Holds("lost", rest), NEW f \in {"pause", "resume", "error"},
           stack' = rest \/ stack' = <<f>> \o rest,
           Full(buffer'), conn_lost' => buffer' = <<>>,
           buffer' # <<>> => writer' \/ Holds("lines", rest),
           writer' => buffer' # <<>> \/ Holds("resume", rest) \/ (f = "resume" /\ stack' # rest)
    PROVE  Writing'
<1> DEFINE new == <<f>> \o rest
<1>1. new # <<>> /\ Head(new) = f /\ \A g : Holds(g, new) <=> g = f \/ Holds(g, rest)
    BY Pushed, FrameIs
<1>2. stack' = rest \/ stack' = new
    OBVIOUS
<1> HIDE DEF new
<1>3. stack' # <<>> => Head(stack') # "lost"
    BY <1>1, <1>2, NotInLost
<1>4. Holds("lines", rest) => Holds("lines", stack')
    BY <1>1, <1>2
<1>5. writer' => buffer' # <<>> \/ Holds("resume", stack')
    BY <1>1, <1>2
<1> QED BY <1>3, <1>4, <1>5 DEF Writing

\* The end of a write leaves a writer exactly where one is needed.
LEMMA FinishWriting ==
    ASSUME NEW buf, Full(buf), NEW rest \in Seq(Frame), ~Holds("lost", rest), conn_lost => buf = <<>>,
           buf # <<>> => writer \/ Holds("lines", rest), FinishWrite(buf, rest)
    PROVE  Writing'
<1>1. buffer' = buf /\ UNCHANGED <<conn_lost, sock>>
    BY FinishIs
<1>2. writer' <=> writer /\ buf # <<>>
    BY Zenon DEF FinishWrite, DropWriter
<1>3. stack' = rest \/ (buf = <<>> /\ stack' = <<"lost">> \o rest)
    BY DEF FinishWrite, EndsWith, Completes, EnterLost, Enter
<1>4. CASE stack' = rest
    BY <1>1, <1>2, <1>4, PausedWriting
<1>5. CASE buf = <<>>
    BY <1>1, <1>2, <1>5 DEF Writing
<1> QED BY <1>3, <1>4, <1>5

\* So does a write that sent some bytes.
LEMMA ProgressWriting ==
    ASSUME NEW buf, Full(buf), NEW rest \in Seq(Frame), ~Holds("lost", rest), conn_lost => buf = <<>>,
           buf # <<>> => writer \/ Holds("lines", rest), Progress(buf, rest)
    PROVE  Writing'
<1>1. CASE Resumes(buf)
    <2>1. /\ buffer' = buf /\ stack' = <<"resume">> \o rest /\ UNCHANGED <<writer, conn_lost>>
        BY <1>1 DEF Progress, Enter, ending
    <2>2. stack' # rest
        <3>1. Tail(stack') = rest /\ stack' \in Seq(Frame) /\ stack' # <<>>
            BY <2>1, Pushed, FrameIs
        <3>2. Len(rest) = Len(stack') - 1 /\ Len(stack') \in Nat
            BY <3>1
        <3> QED BY <3>2
    <2> QED BY <2>1, <2>2, PausedWriting
<1>2. CASE ~Resumes(buf)
    <2>1. FinishWrite(buf, rest)
        BY <1>2, Zenon DEF Progress
    <2> QED BY <2>1, FinishWriting
<1> QED BY <1>1, <1>2

\* And the writer, whatever send returns.
LEMMA ReadyWriting ==
    ASSUME NEW buf \in Buf, Full(buf), buf # <<>>, NEW rest \in Seq(Frame), ~Holds("lost", rest),
           ~conn_lost, writer \/ Holds("lines", rest), WriteReady(buf, rest)
    PROVE  Writing'
<1>1. CASE buffer' = buf /\ stack' = rest /\ UNCHANGED <<writer, ending>>
    BY <1>1, PausedWriting DEF ending
<1>2. CASE buffer' = <<>> /\ writer' = FALSE
    BY <1>2, FullEmpty DEF Writing
<1>3. ASSUME NEW n \in 0..Size(buf), Progress(Leftover(buf, n), rest)
      PROVE  Writing'
    <2> DEFINE L == Leftover(buf, n)
    <2>1. n \in Nat /\ n <= Size(buf)
        BY <1>3, BytesType
    <2>2. Full(L)
        BY <2>1, LeftoverIs
    <2> HIDE DEF L
    <2>3. Progress(L, rest)
        BY <1>3 DEF L
    <2> QED BY <2>2, <2>3, ProgressWriting
<1> QED BY <1>1, <1>2, <1>3, Zenon DEF WriteReady

\* The data and the lost connection, as far as the writer goes.
LEMMA Settled ==
    ASSUME WriteInv, LostInv, Writing, open, stack # <<>> => Head(stack) # "lost"
    PROVE  /\ buffer \in Buf /\ Full(buffer) /\ stack \in Seq(Frame) /\ ~Holds("lost", stack)
           /\ written \in Nat
           /\ sock = "stream" =>
                /\ conn_lost => buffer = <<>>
                /\ buffer # <<>> => writer \/ Holds("lines", stack)
                /\ writer => buffer # <<>> \/ Holds("resume", stack)
    BY NotYetLost DEF WriteInv, Data, Control, Buf, Writing

\* A sequence of some length is not empty.
LEMMA HasBytes == \A s \in Seq(Nat) : Len(s) # 0 => s # <<>>
    OBVIOUS

\* Under Solid the pieces given to writelines have bytes.
LEMMA SolidPieces ==
    ASSUME Solid, NEW sizes \in Lines, written \in Nat
    PROVE  Pieces(sizes) \in Buf /\ Full(Pieces(sizes)) /\ Pieces(sizes) # <<>>
<1> DEFINE P == Pieces(sizes)
<1>1. sizes \in Seq(Nat) /\ sizes # <<>>
    BY WriterConstants
<1>2. P \in Buf /\ Len(P) = Len(sizes) /\ \A i \in 1..Len(sizes) : Len(P[i]) = sizes[i]
    BY <1>1, PiecesAre
<1> HIDE DEF P
<1>3. \A i \in 1..Len(P) : Len(P[i]) # 0
    BY <1>2 DEF Solid
<1>4. Full(P)
    BY <1>3 DEF Full
<1>5. P # <<>>
    BY <1>1, <1>2
<1> QED BY <1>2, <1>4, <1>5 DEF P

\* write.
LEMMA WriteWriting ==
    ASSUME Parted, WriteInv, LostInv, Writing, NEW n \in Sizes, write(n)
    PROVE  Writing'
<1> DEFINE data == Pieces(<<n>>)[1]
<1>0. MayWrite("write", n) /\ ~Datagram /\ sock' = sock
    BY DEF write
<1>1. open /\ ~conn_lost /\ (stack # <<>> => Head(stack) # "lost")
    BY <1>0, MayWritePart DEF MayWrite
<1>2. /\ sock = "stream" /\ sock' = "stream" /\ buffer \in Buf /\ Full(buffer)
      /\ stack \in Seq(Frame) /\ ~Holds("lost", stack) /\ written \in Nat
      /\ buffer # <<>> => writer \/ Holds("lines", stack)
      /\ writer => buffer # <<>> \/ Holds("resume", stack)
    BY <1>0, <1>1, Settled DEF WriteInv, Control, open, Datagram
<1>3. n \in Nat /\ n # 0
    BY WriterConstants
<1>4. data \in Seq(Nat) /\ Len(data) = n /\ data # <<>>
    <2>1. data = Run(written, n)
        BY <1>2, <1>3, PieceIs
    <2> HIDE DEF data
    <2>2. data \in Seq(Nat) /\ Len(data) = n
        BY <1>2, <1>3, <2>1, RunType, Zenon
    <2> QED BY <1>3, <2>2
<1>5. \/ buffer = <<>> /\ stack' = stack /\ UNCHANGED <<buffer, writer, conn_lost>>
      \/ \E k \in 0..n : /\ k # n /\ writer' = TRUE /\ buffer' = <<SubSeq(data, k + 1, n)>>
                         /\ MaybePause(stack) /\ UNCHANGED ending
      \/ buffer = <<>> /\ ForceClose(<<>>) /\ UNCHANGED stack
      \/ buffer # <<>> /\ buffer' = Append(buffer, data) /\ MaybePause(stack) /\ UNCHANGED <<writer, ending>>
    BY Zenon DEF write, ending
<1> HIDE DEF data
<1>6. CASE buffer = <<>> /\ stack' = stack /\ UNCHANGED <<buffer, writer, conn_lost>>
    BY <1>1, <1>2, <1>6, PausedWriting
<1>7. ASSUME NEW k \in 0..n, k # n, writer' = TRUE, buffer' = <<SubSeq(data, k + 1, n)>>,
             MaybePause(stack), UNCHANGED ending
      PROVE  Writing'
    <2>1. SubSeq(data, k + 1, n) # <<>>
        <3>1. k \in 0..Len(data)
            BY <1>3, <1>4, <1>7
        <3>2. SubSeq(data, k + 1, n) \in Seq(Nat) /\ Len(SubSeq(data, k + 1, n)) = n - k
            BY <1>4, <3>1, BytesHalves
        <3>3. n - k # 0
            BY <1>3, <1>7
        <3> QED BY <3>2, <3>3, Zenon
    <2>2. Full(buffer') /\ buffer' # <<>>
        BY <1>7, <2>1, FullOne, Zenon
    <2>3. stack' = stack \/ stack' = <<"pause">> \o stack
        BY <1>2, <1>7, PauseIs
    <2> QED BY <1>1, <1>2, <1>7, <2>2, <2>3, PausedWriting, Zenon DEF ending
<1>8. CASE buffer = <<>> /\ ForceClose(<<>>) /\ UNCHANGED stack
    <2>1. buffer' = <<>> /\ (writer' <=> writer)
        BY <1>8, Zenon DEF ForceClose
    <2> QED BY <1>2, <1>8, <2>1, FullEmpty, PausedWriting
<1>9. CASE buffer # <<>> /\ buffer' = Append(buffer, data) /\ MaybePause(stack) /\ UNCHANGED <<writer, ending>>
    <2>1. Full(buffer') /\ buffer' # <<>>
        BY <1>2, <1>4, <1>9, FullAppend, Zenon
    <2>2. stack' = stack \/ stack' = <<"pause">> \o stack
        BY <1>2, <1>9, PauseIs
    <2> QED BY <1>1, <1>2, <1>9, <2>1, <2>2, PausedWriting DEF ending
<1> QED BY <1>5, <1>6, <1>7, <1>8, <1>9, Zenon

\* writelines, and the writer it leaves.
LEMMA ReadiesWriting ==
    ASSUME Parted, Solid, WriteInv, LostInv, Writing,
           (\E sizes \in Lines : writelines(sizes)) \/ RunWriter
    PROVE  Writing'
<1>1. ASSUME NEW sizes \in Lines, writelines(sizes) PROVE Writing'
    <2> DEFINE P == Pieces(sizes)
               buf == buffer \o P
    <2>1. MayCall("writelines") /\ ~conn_lost /\ ~Datagram /\ WriteReady(buf, <<"lines">> \o stack)
        BY <1>1 DEF writelines, MayWrite
    <2>2. open /\ (stack # <<>> => Head(stack) # "lost")
        BY <2>1, MayWritePart
    <2>3. buffer \in Buf /\ Full(buffer) /\ stack \in Seq(Frame) /\ ~Holds("lost", stack) /\ written \in Nat
        BY <2>2, Settled
    <2>4. P \in Buf /\ Full(P) /\ P # <<>>
        BY <2>3, SolidPieces
    <2> HIDE DEF P
    <2>5. buf \in Buf /\ Full(buf) /\ buf # <<>>
        <3>1. buf \in Buf /\ buf # <<>>
            BY <2>3, <2>4 DEF Buf
        <3> QED BY <2>3, <2>4, <3>1, FullConcat
    <2> HIDE DEF buf
    <2>6. /\ <<"lines">> \o stack \in Seq(Frame) /\ ~Holds("lost", <<"lines">> \o stack)
          /\ Holds("lines", <<"lines">> \o stack)
        BY <2>3, Pushed, FrameIs
    <2> QED BY <2>1, <2>5, <2>6, ReadyWriting, Zenon
<1>2. CASE RunWriter
    <2>1. stack = <<>> /\ open /\ writer /\ buffer # <<>> /\ ~conn_lost /\ WriteReady(buffer, <<>>)
        BY <1>2 DEF RunWriter
    <2>2. buffer \in Buf /\ Full(buffer)
        BY <2>1, Settled
    <2>3. <<>> \in Seq(Frame) /\ ~Holds("lost", <<>>)
        BY NoFrame
    <2> QED BY <2>1, <2>2, <2>3, ReadyWriting, Zenon
<1> QED BY <1>1, <1>2

\* The steps of a datagram transport.
LEMMA DatagramWriting ==
    ASSUME WriteInv, Writing, sendto \/ SendtoReady
    PROVE  Writing'
<1>0. buffer \in Buf /\ Full(buffer) /\ written \in Nat /\ sock = "datagram"
    BY DEF WriteInv, Data, Buf, Writing, sendto, SendtoReady, Datagram
<1>1. ASSUME Full(buffer'), sock' = sock PROVE Writing'
    BY <1>0, <1>1 DEF Writing
<1>2. CASE sendto
    <2> DEFINE data == Pieces(<<1>>)[1]
    <2>1. data \in Seq(Nat) /\ data # <<>>
        <3>1. 1 \in Nat /\ 1 # 0
            OBVIOUS
        <3>2. data = Run(written, 1)
            BY <1>0, <3>1, PieceIs
        <3> HIDE DEF data
        <3>3. data \in Seq(Nat) /\ Len(data) = 1
            BY <1>0, <3>1, <3>2, RunType, Zenon
        <3>4. Len(data) # 0
            BY <3>1, <3>3, Zenon
        <3> QED BY <3>3, <3>4, HasBytes, Zenon
    <2>2. sock' = sock /\ buffer' \in {buffer, <<>>, <<data>>, Append(buffer, data)}
        BY <1>2 DEF sendto, ForceClose
    <2> HIDE DEF data
    <2>3. Full(buffer')
        BY <1>0, <2>1, <2>2, FullEmpty, FullOne, FullAppend, Zenon
    <2> QED BY <1>1, <2>2, <2>3
<1>3. CASE SendtoReady
    <2>1. PICK n \in 0..Len(buffer) :
             /\ sock' = sock
             /\ \/ buffer' = SubSeq(buffer, n + 1, Len(buffer))
                \/ /\ SubSeq(buffer, n + 1, Len(buffer)) # <<>>
                   /\ buffer' \in {<<>>, Tail(SubSeq(buffer, n + 1, Len(buffer)))}
        BY <1>3, Zenon DEF SendtoReady, ForceClose, Progress, FinishWrite, PutBack
    <2> DEFINE left == SubSeq(buffer, n + 1, Len(buffer))
    <2>2. left \in Buf /\ Full(left)
        <3>1. left \in Buf /\ SubSeq(buffer, 1, n) \in Buf /\ buffer = SubSeq(buffer, 1, n) \o left
            BY <1>0, BufHalves, Zenon
        <3> HIDE DEF left
        <3> QED BY <1>0, <3>1, FullConcat, ZenonT(30)
    <2> HIDE DEF left
    <2>3. left # <<>> => Full(Tail(left))
        BY <2>2 DEF Buf, Full
    <2>4. Full(buffer')
        BY <2>1, <2>2, <2>3, FullEmpty, Zenon DEF left
    <2> QED BY <1>1, <2>1, <2>4
<1> QED BY <1>2, <1>3

\* The steps that send nothing.
LEMMA OthersWriting ==
    ASSUME WriteInv, LostInv, Writing,
           \/ write_eof \/ make_empty_waiter \/ reset_empty_waiter \/ cancel_sendfile
           \/ close \/ abort \/ LinesTail \/ RunLost \/ Return
    PROVE  Writing'
<1> DEFINE rest == Tail(stack)
<1>0. /\ buffer \in Buf /\ Full(buffer) /\ stack \in Seq(Frame)
      /\ sock \in {"stream", "datagram", "none"} /\ scheduled \in 0..1
    BY DEF WriteInv, Data, Control, Buf, Writing
<1>1. stack # <<>> => /\ rest \in Seq(Frame)
                      /\ \A f : Holds(f, stack) <=> f = Head(stack) \/ Holds(f, rest)
    BY <1>0, Popping, Zenon
<1> HIDE DEF rest
<1>2. ASSUME Full(buffer'), sock' # "stream" PROVE Writing'
    BY <1>2 DEF Writing
<1>3. CASE UNCHANGED <<buffer, writer, conn_lost, sock, stack>>
    BY <1>3 DEF Writing
<1>4. CASE close
    <2>1. /\ UNCHANGED <<buffer, sock, stack>>
          /\ \/ buffer = <<>> /\ ~writer'
             \/ UNCHANGED <<writer, conn_lost>>
        BY <1>4 DEF close
    <2> QED BY <1>0, <1>3, <2>1, Zenon DEF Writing
<1>5. CASE abort
    <2>1. ~conn_lost /\ UNCHANGED <<sock, stack>> /\ buffer' = <<>> /\ (writer' <=> writer /\ buffer = <<>>)
        BY <1>5, Zenon DEF abort, ForceClose
    <2> QED BY <2>1, FullEmpty, Zenon DEF Writing
<1>6. CASE LinesTail
    <2>1. stack # <<>> /\ Head(stack) = "lines" /\ UNCHANGED <<buffer, conn_lost, sock>>
        BY <1>6 DEF LinesTail, ending
    <2>2. CASE sock # "stream"
        BY <1>0, <1>2, <2>1, <2>2
    <2>3. CASE sock = "stream"
        <3>1. /\ open /\ ~Holds("lost", stack) /\ (conn_lost => buffer = <<>>)
              /\ writer => buffer # <<>> \/ Holds("resume", stack)
            BY <2>1, <2>3, Settled DEF open
        <3>2. rest \in Seq(Frame) /\ ~Holds("lost", rest) /\ (Holds("resume", stack) <=> Holds("resume", rest))
            BY <1>1, <2>1, <3>1, Zenon
        <3>3. \/ buffer # <<>> /\ writer' /\ MaybePause(rest)
              \/ buffer = <<>> /\ stack' = rest /\ writer' = writer
            BY <1>6, <3>1 DEF LinesTail, rest
        <3>4. stack' = rest \/ stack' = <<"pause">> \o rest
            BY <3>2, <3>3, PauseIs, Zenon
        <3> QED BY <1>0, <2>1, <3>1, <3>2, <3>3, <3>4, PausedWriting
    <2> QED BY <2>2, <2>3
<1>7. CASE RunLost
    <2>1. /\ stack = <<>> /\ scheduled = 1 /\ UNCHANGED <<buffer, writer, conn_lost, sock>>
          /\ stack' = <<"lost">> \o <<>> \/ stack' = stack
        BY <1>0, <1>7 DEF RunLost, EnterLost, Enter
    <2>2. conn_lost
        BY <2>1 DEF WriteInv, Control
    <2>3. sock = "stream" => buffer = <<>> /\ ~writer
        BY <2>1, <2>2, NoFrame DEF Writing
    <2> QED BY <1>0, <2>1, <2>3, Zenon DEF Writing
<1>8. CASE Return
    <2>1. /\ stack # <<>>
          /\ \/ /\ Head(stack) \notin {"lost", "lines"} /\ (Head(stack) = "resume" => ~open)
                /\ stack' = rest /\ UNCHANGED <<buffer, writer, conn_lost, sock>>
             \/ Head(stack) = "resume" /\ open /\ FinishWrite(buffer, rest)
             \/ buffer' = buffer /\ sock' = "none"
        BY <1>8 DEF Return, ending, rest
    <2>2. CASE /\ Head(stack) \notin {"lost", "lines"} /\ (Head(stack) = "resume" => ~open)
               /\ stack' = rest /\ UNCHANGED <<buffer, writer, conn_lost, sock>>
        <3>1. CASE sock # "stream"
            BY <1>0, <1>2, <2>2, <3>1, ZenonT(30)
        <3>2. CASE sock = "stream"
            <4>1. open /\ Head(stack) # "resume" /\ Head(stack) # "lines"
                BY <2>2, <3>2, Zenon DEF open
            <4>2. /\ ~Holds("lost", stack) /\ (conn_lost => buffer = <<>>)
                  /\ buffer # <<>> => writer \/ Holds("lines", stack)
                  /\ writer => buffer # <<>> \/ Holds("resume", stack)
                BY <2>1, <2>2, <3>2, <4>1, Settled, Zenon
            <4>3. /\ rest \in Seq(Frame) /\ ~Holds("lost", rest)
                  /\ Holds("resume", stack) <=> Holds("resume", rest)
                  /\ Holds("lines", stack) <=> Holds("lines", rest)
                BY <1>1, <2>1, <4>1, <4>2, Zenon
            <4> QED BY <1>0, <2>2, <4>2, <4>3, PausedWriting
        <3> QED BY <3>1, <3>2
    <2>3. CASE Head(stack) = "resume" /\ open /\ FinishWrite(buffer, rest)
        <3>0. buffer' = buffer /\ sock' = sock
            BY <2>3 DEF FinishWrite
        <3>1. CASE sock # "stream"
            BY <1>0, <1>2, <3>0, <3>1, Zenon
        <3>2. CASE sock = "stream"
            <4>1. /\ ~Holds("lost", stack) /\ (conn_lost => buffer = <<>>)
                  /\ buffer # <<>> => writer \/ Holds("lines", stack)
                BY <2>1, <2>3, <3>2, Settled, ZenonT(30)
            <4>2. /\ rest \in Seq(Frame) /\ ~Holds("lost", rest)
                  /\ Holds("lines", stack) <=> Holds("lines", rest)
                BY <1>1, <2>1, <2>3, <4>1
            <4> QED BY <1>0, <2>3, <4>1, <4>2, FinishWriting, Zenon
        <3> QED BY <3>1, <3>2
    <2>4. CASE buffer' = buffer /\ sock' = "none"
        BY <1>0, <1>2, <2>4
    <2> QED BY <2>1, <2>2, <2>3, <2>4, ZenonT(30)
<1>9. CASE write_eof \/ make_empty_waiter \/ reset_empty_waiter \/ cancel_sendfile
    <2>1. UNCHANGED <<buffer, writer, conn_lost, sock, stack>>
        BY <1>9 DEF write_eof, make_empty_waiter, reset_empty_waiter, cancel_sendfile, ending
    <2> QED BY <1>3, <2>1, ZenonT(30)
<1> QED BY <1>4, <1>5, <1>6, <1>7, <1>8, <1>9

\* Every step keeps Writing.
LEMMA WritingStep ==
    ASSUME Parted, Solid, WriteInv, LostInv, Writing, [Next]_vars
    PROVE  Writing'
<1>1. CASE UNCHANGED vars
    BY <1>1 DEF vars, ending, Writing
<1> QED BY <1>1, WriteWriting, ReadiesWriting, DatagramWriting, OthersWriting, Zenon DEF Next

\* It holds when the transport is made.
LEMMA WritingInit == Init => Writing
    BY FullEmpty DEF Init, Writing

\* If no piece given to writelines is empty and the protocol writes nothing in
\* connection_lost, a writer is registered between two calls exactly while bytes
\* are unsent, and none is left when connection_lost is called: the assertion
\* of _write_sendmsg holds and no idle writer makes the loop spin.
THEOREM WriterWhileUnsent ==
    ASSUME Parted, Solid
    PROVE  Spec => []WriterIffUnsent
<1>1. WriteInv /\ LostInv /\ Writing /\ [Next]_vars => LostInv' /\ Writing'
    BY LostStep, WritingStep
<1>2. WriteInv /\ Writing => WriterIffUnsent
    <2> SUFFICES ASSUME WriteInv, Writing PROVE WriterIffUnsent
        OBVIOUS
    <2>1. Size(buffer) > 0 <=> buffer # <<>>
        BY FullSize DEF WriteInv, Data, Buf, Writing
    <2> QED BY <2>1, NoFrame DEF Writing, WriterIffUnsent
<1> QED BY <1>1, <1>2, LostInit, WritingInit, WriteInvariant, PTL DEF Spec

=============================================================================
