---------------------------- MODULE AsioEchoProofs ----------------------------
(***************************************************************************)
(* Proofs about the asynchronous asio servers, for any number of clients,  *)
(* any line and any size of the buffers and of asio's operations: a        *)
(* connection lives as long as an operation of it is outstanding, because  *)
(* each handler holds it, and the one handler storage it has is enough for *)
(* every operation that fits. Both rest on there being one operation at a  *)
(* time, and the second on asio freeing one before its handler. What is    *)
(* echoed is what was sent, because the bytes a client has got, those on   *)
(* the way, those left to write and those not yet read are what it sent.   *)
(***************************************************************************)
EXTENDS AsioEcho, FiniteSetTheorems, SequenceTheorems, TLAPS

Programs == {"allocation", "buffer", "daytime"}

\* The connection objects the servers can have.
ConnObjects ==
  [ops : SUBSET {"read", "write"}, self : SUBSET {"read", "write"},
   life : {"none", "alive", "gone"}, in_use : BOOLEAN, heap : SUBSET {"read", "write"},
   data : Seq(Nat), text : Seq(Nat), size : Nat, pos : Nat]

ClientObjects == [pc : {"connect", "hello", "talk", "read", "quit", "abort"},
                  lines : Nat, sent : Seq(Nat), got : Seq(Nat)]

Types ==
  /\ program \in Programs
  /\ conn \in [Conns -> ConnObjects]
  /\ client \in [Conns -> ClientObjects]
  /\ up \in [Conns -> Seq(Nat)]
  /\ down \in [Conns -> Seq(Nat)]

\* Where async_write takes the response from.
ResponseBytes(r) == IF program = "allocation" THEN r.data ELSE r.text

\* The operations that fit have the storage, the others memory from the heap.
Stored(r) ==
  program # "daytime" => /\ r.heap = {op \in r.ops : ~Fits(op)}
                         /\ r.in_use <=> r.ops # r.heap

\* At most one operation is outstanding, its handler holds the connection, and it
\* has the storage if it fits; a write has bytes left to send, all of them inside
\* the response.
OneOperation(r) ==
  /\ r \in ConnObjects
  /\ r.ops \in {{}, {"read"}, {"write"}}
  /\ r.self = r.ops
  /\ Stored(r)
  /\ program = "daytime" => r.ops # {"read"} /\ (r.ops = {"write"} => r.size = 1)
  /\ r.ops = {"write"} => r.pos < r.size /\ r.size = Len(ResponseBytes(r))

\* Between the completion of an operation and the next one.
Idle(r) == OneOperation(r) /\ r.ops = {}

IInv ==
  /\ Types
  /\ \A c \in Conns : OneOperation(conn[c])
  /\ HandlerKeepsConnection
  /\ \A c \in Conns : conn[c].life = "none" => conn[c] = NewConn

-----------------------------------------------------------------------------
\* A part of a sequence of bytes is a sequence of bytes, of the length asked for.
LEMMA SubSeqTyped ==
  ASSUME NEW s \in Seq(Nat), NEW m \in Nat \ {0}, NEW n \in Nat, n <= Len(s)
  PROVE  /\ SubSeq(s, m, n) \in Seq(Nat)
         /\ m = 1 => Len(SubSeq(s, m, n)) = n
OBVIOUS

\* The bytes that are counted are finitely many.
LEMMA EchoedTyped ==
  ASSUME NEW s, NEW i \in Nat
  PROVE  /\ IsFiniteSet({k \in 1 .. i : s[k] # 0})
         /\ Echoed(s, i) \in Nat
         /\ i # 0 /\ s[i] # 0 => Echoed(s, i) > 0
<1> DEFINE K == {k \in 1 .. i : s[k] # 0}
<1>1. IsFiniteSet(1 .. i) /\ K \in SUBSET (1 .. i)
  BY FS_Interval
<1>2. IsFiniteSet(K)
  BY <1>1, FS_Subset
<1>3. Cardinality(K) \in Nat
  BY <1>2, FS_CardinalityType
<1>4. ASSUME i # 0, s[i] # 0 PROVE Cardinality(K) > 0
  <2>1. i \in K
    BY <1>4
  <2>2. Cardinality(K) # 0
    <3> HIDE DEF K
    <3> QED
      BY <1>2, <2>1, FS_EmptySet
  <2> QED
    BY <1>3, <2>2
<1> QED
  BY <1>2, <1>3, <1>4 DEF Echoed

\* Equal beginnings count alike.
LEMMA EchoedSame ==
  ASSUME NEW s, NEW t, NEW i \in Nat, \A k \in 1 .. i : s[k] = t[k]
  PROVE  Echoed(s, i) = Echoed(t, i)
<1>1. {k \in 1 .. i : s[k] # 0} = {k \in 1 .. i : t[k] # 0}
  OBVIOUS
<1> QED
  BY <1>1 DEF Echoed

\* The beginning of an echo is an echo, of anything that begins alike.
LEMMA EchoPrefix ==
  ASSUME NEW s \in Seq(Nat), NEW t \in Seq(Nat), NEW u \in Seq(Nat), NEW v \in Seq(Nat),
         IsEcho(s \o t, u)
  PROVE  IsEcho(s, u \o v)
<1> SUFFICES ASSUME NEW i \in 1 .. Len(s), s[i] # 0
             PROVE  /\ Echoed(s, i) <= Len(u \o v)
                    /\ s[i] = (u \o v)[Echoed(s, i)]
  BY DEF IsEcho
<1>1. /\ s \o t \in Seq(Nat) /\ Len(s \o t) = Len(s) + Len(t)
      /\ \A k \in 1 .. i : (s \o t)[k] = s[k]
  BY ConcatProperties
<1>0. i \in Nat /\ i # 0 /\ Len(u) \in Nat
  OBVIOUS
<1>2. Echoed(s \o t, i) = Echoed(s, i)
  BY <1>0, <1>1, EchoedSame
<1>3. i \in 1 .. Len(s \o t) /\ (s \o t)[i] = s[i]
  BY <1>1
<1>4. Echoed(s, i) <= Len(u) /\ s[i] = u[Echoed(s, i)]
  BY <1>2, <1>3 DEF IsEcho
<1>5. Echoed(s, i) \in 1 .. Len(u)
  <2>1. Echoed(s, i) \in Nat /\ Echoed(s, i) > 0
    BY <1>0, EchoedTyped
  <2> QED
    BY <1>0, <1>4, <2>1
<1>6. Len(u \o v) = Len(u) + Len(v) /\ (u \o v)[Echoed(s, i)] = u[Echoed(s, i)]
  BY <1>5, ConcatProperties
<1> QED
  BY <1>4, <1>5, <1>6

\* One byte of the server's own text changes no count before and after it.
LEMMA EchoedInsert ==
  ASSUME NEW s \in Seq(Nat), NEW t \in Seq(Nat)
  PROVE  LET w == s \o t
             z == s \o <<0>> \o t
         IN  /\ w \in Seq(Nat) /\ z \in Seq(Nat) /\ Len(z) = Len(w) + 1
             /\ \A i \in 0 .. Len(s) : Echoed(z, i) = Echoed(w, i)
             /\ \A i \in Len(s) .. Len(w) : Echoed(z, i + 1) = Echoed(w, i)
             /\ \A i \in 1 .. Len(s) : z[i] = w[i]
             /\ z[Len(s) + 1] = 0
             /\ \A i \in Len(s) + 1 .. Len(w) : z[i + 1] = w[i]
<1> DEFINE w == s \o t
           z == s \o <<0>> \o t
           n == Len(s)
<1>1. /\ n \in Nat /\ Len(t) \in Nat
      /\ w \in Seq(Nat) /\ Len(w) = n + Len(t)
      /\ \A i \in 1 .. n : w[i] = s[i]
      /\ \A i \in n + 1 .. n + Len(t) : w[i] = t[i - n]
  BY ConcatProperties
<1>2. /\ s \o <<0>> \in Seq(Nat) /\ Len(s \o <<0>>) = n + 1
      /\ \A i \in 1 .. n : (s \o <<0>>)[i] = s[i]
      /\ (s \o <<0>>)[n + 1] = 0
  OBVIOUS
<1>3. /\ z \in Seq(Nat) /\ Len(z) = n + 1 + Len(t)
      /\ \A i \in 1 .. n + 1 : z[i] = (s \o <<0>>)[i]
      /\ \A i \in n + 2 .. n + 1 + Len(t) : z[i] = t[i - (n + 1)]
  <2> DEFINE y == s \o <<0>>
  <2>1. y \in Seq(Nat) /\ Len(y) = n + 1 /\ z = y \o t
    BY <1>2
  <2> HIDE DEF y, z
  <2>2. /\ y \o t \in Seq(Nat)
        /\ Len(y \o t) = Len(y) + Len(t)
        /\ \A i \in 1 .. Len(y) + Len(t) :
             (y \o t)[i] = IF i <= Len(y) THEN y[i] ELSE t[i - Len(y)]
    BY <2>1, ConcatProperties
  <2>3. \A i \in 1 .. n + 1 : z[i] = y[i]
    BY <1>1, <2>1, <2>2
  <2>4. ASSUME NEW i \in n + 2 .. n + 1 + Len(t)
        PROVE  z[i] = t[i - (n + 1)]
    <3>1. i \in 1 .. Len(y) + Len(t) /\ ~(i <= Len(y))
      BY <1>1, <2>1
    <3> QED
      BY <2>1, <2>2, <3>1
  <2> QED
    BY <1>1, <2>1, <2>2, <2>3, <2>4 DEF y
<1> HIDE DEF w, z, n
<1>4. \A i \in 1 .. n : z[i] = w[i]
  BY <1>1, <1>2, <1>3
<1>5. z[n + 1] = 0
  BY <1>1, <1>2, <1>3
<1>6. ASSUME NEW i \in n + 1 .. Len(w)
      PROVE  z[i + 1] = w[i]
  <2>1. i \in n + 1 .. n + Len(t) /\ i + 1 \in n + 2 .. n + 1 + Len(t)
        /\ i + 1 - (n + 1) = i - n
    BY <1>1
  <2> QED
    BY <1>1, <1>3, <2>1
<1>7. ASSUME NEW i \in 0 .. n
      PROVE  Echoed(z, i) = Echoed(w, i)
  <2>1. i \in Nat /\ \A k \in 1 .. i : z[k] = w[k]
    BY <1>1, <1>4
  <2> QED
    BY <2>1, EchoedSame
<1>8. ASSUME NEW i \in n .. Len(w)
      PROVE  Echoed(z, i + 1) = Echoed(w, i)
  <2> DEFINE K == {k \in 1 .. i : w[k] # 0}
             M == {k \in 1 .. i + 1 : z[k] # 0}
             f == [k \in K |-> IF k <= n THEN k ELSE k + 1]
  <2>1. i \in Nat
    BY <1>1
  <2>2. IsFiniteSet(K)
    BY <2>1, EchoedTyped
  <2>3. f \in [K -> M]
    <3> SUFFICES ASSUME NEW k \in K PROVE (IF k <= n THEN k ELSE k + 1) \in M
      OBVIOUS
    <3>1. CASE k <= n
      BY <1>1, <1>4, <2>1, <3>1
    <3>2. CASE k > n
      <4>1. k \in n + 1 .. Len(w) /\ k + 1 \in 1 .. i + 1 /\ ~(k <= n)
        BY <1>1, <2>1, <3>2
      <4> QED
        BY <1>6, <4>1
    <3> QED
      BY <1>1, <2>1, <3>1, <3>2
  <2>4. \A a, b \in K : f[a] = f[b] => a = b
    <3> SUFFICES ASSUME NEW a \in K, NEW b \in K, f[a] = f[b] PROVE a = b
      OBVIOUS
    <3>1. a \in Nat /\ b \in Nat /\ n \in Nat
      BY <1>1, <2>1
    <3>2. (IF a <= n THEN a ELSE a + 1) = (IF b <= n THEN b ELSE b + 1)
      OBVIOUS
    <3> QED
      BY <3>1, <3>2
  <2>5. ASSUME NEW m \in M PROVE \E k \in K : f[k] = m
    <3>1. CASE m <= n
      BY <1>1, <1>4, <2>1, <3>1
    <3>2. CASE m > n
      <4>1. m - 1 \in K
        <5>1. m # n + 1
          BY <1>5
        <5>2. m - 1 \in n + 1 .. Len(w) /\ m - 1 \in 1 .. i
          BY <1>1, <2>1, <3>2, <5>1
        <5>3. z[m - 1 + 1] = w[m - 1] /\ m - 1 + 1 = m
          BY <1>6, <5>2
        <5> QED
          BY <5>2, <5>3
      <4>2. f[m - 1] = m
        BY <1>1, <1>5, <2>1, <3>2, <4>1
      <4> QED
        BY <4>1, <4>2
    <3>3. m <= n \/ m > n
      BY <1>1, <2>1
    <3> QED
      BY <3>1, <3>2, <3>3
  <2> HIDE DEF K, M, f
  <2>6. f \in Bijection(K, M)
    BY <2>3, <2>4, <2>5, Zenon DEF Bijection, Injection, Surjection, IsInjective
  <2>7. Cardinality(M) = Cardinality(K)
    BY <2>2, <2>6, FS_Bijection DEF ExistsBijection
  <2> QED
    BY <2>7 DEF Echoed, K, M
<1> QED
  BY <1>1, <1>3, <1>4, <1>5, <1>6, <1>7, <1>8 DEF w, z, n

\* The server's own text does not make an echo something else.
LEMMA EchoInsert ==
  ASSUME NEW s \in Seq(Nat), NEW t \in Seq(Nat), NEW u \in Seq(Nat),
         IsEcho(s \o t, u)
  PROVE  /\ IsEcho(s \o <<0>> \o t, u)
         /\ Echoed(s \o <<0>> \o t, Len(s \o <<0>> \o t)) = Echoed(s \o t, Len(s \o t))
<1> DEFINE w == s \o t
           z == s \o <<0>> \o t
           n == Len(s)
<1>0. n \in Nat /\ Len(w) \in Nat /\ n <= Len(w)
  BY ConcatProperties
<1>1. /\ w \in Seq(Nat) /\ z \in Seq(Nat) /\ Len(z) = Len(w) + 1
      /\ \A i \in 0 .. n : Echoed(z, i) = Echoed(w, i)
      /\ \A i \in n .. Len(w) : Echoed(z, i + 1) = Echoed(w, i)
      /\ \A i \in 1 .. n : z[i] = w[i]
      /\ z[n + 1] = 0
      /\ \A i \in n + 1 .. Len(w) : z[i + 1] = w[i]
  BY EchoedInsert
<1>2. IsEcho(w, u)
  OBVIOUS
<1> HIDE DEF w, z, n
<1>3. ASSUME NEW i \in 1 .. Len(z), z[i] # 0
      PROVE  Echoed(z, i) <= Len(u) /\ z[i] = u[Echoed(z, i)]
  <2>1. CASE i <= n
    <3>1. i \in 1 .. n /\ i \in 0 .. n /\ i \in 1 .. Len(w)
      BY <1>0, <2>1
    <3>2. z[i] = w[i] /\ Echoed(z, i) = Echoed(w, i)
      BY <1>1, <3>1
    <3> QED
      BY <1>2, <1>3, <3>1, <3>2 DEF IsEcho
  <2>2. CASE i > n
    <3>1. i # n + 1
      BY <1>1, <1>3
    <3> DEFINE j == i - 1
    <3>2. j \in n + 1 .. Len(w) /\ j \in n .. Len(w) /\ j \in 1 .. Len(w) /\ i = j + 1
      BY <1>0, <1>1, <2>2, <3>1
    <3> HIDE DEF j
    <3>3. z[i] = w[j] /\ Echoed(z, i) = Echoed(w, j)
      BY <1>1, <3>2
    <3> QED
      BY <1>2, <1>3, <3>2, <3>3 DEF IsEcho
  <2> QED
    BY <1>0, <1>1, <2>1, <2>2
<1>4. Echoed(z, Len(z)) = Echoed(w, Len(w))
  BY <1>0, <1>1
<1> QED
  BY <1>3, <1>4 DEF IsEcho, w, z

\* A line that is sent when everything sent before it is still to come or has
\* come back will follow it.
LEMMA EchoAppend ==
  ASSUME NEW s \in Seq(Nat), NEW u \in Seq(Nat), NEW l \in Seq(Nat),
         \A k \in 1 .. Len(l) : l[k] # 0,
         IsEcho(s, u), Echoed(s, Len(s)) = Len(u)
  PROVE  IsEcho(s \o l, u \o l) /\ Echoed(s \o l, Len(s \o l)) = Len(u \o l)
<1> DEFINE w == s \o l
           v == u \o l
           n == Len(s)
<1>1. /\ n \in Nat /\ Len(l) \in Nat /\ Len(u) \in Nat
      /\ Len(w) = n + Len(l) /\ Len(v) = Len(u) + Len(l)
      /\ \A k \in 1 .. n : w[k] = s[k]
      /\ \A k \in 1 .. Len(l) : w[n + k] = l[k] /\ v[Len(u) + k] = l[k]
      /\ \A k \in 1 .. Len(u) : v[k] = u[k]
  <2>1. n \in Nat /\ Len(l) \in Nat /\ Len(u) \in Nat
    OBVIOUS
  <2>2. /\ Len(w) = n + Len(l)
        /\ \A k \in 1 .. n + Len(l) : w[k] = IF k <= n THEN s[k] ELSE l[k - n]
    BY ConcatProperties
  <2>3. /\ Len(v) = Len(u) + Len(l)
        /\ \A k \in 1 .. Len(u) + Len(l) : v[k] = IF k <= Len(u) THEN u[k] ELSE l[k - Len(u)]
    BY ConcatProperties
  <2> HIDE DEF w, v, n
  <2>4. /\ \A k \in 1 .. n : w[k] = s[k]
        /\ \A k \in 1 .. Len(u) : v[k] = u[k]
    BY <2>1, <2>2, <2>3
  <2>5. ASSUME NEW k \in 1 .. Len(l)
        PROVE  w[n + k] = l[k] /\ v[Len(u) + k] = l[k]
    <3>1. /\ n + k \in 1 .. n + Len(l) /\ ~(n + k <= n) /\ n + k - n = k
          /\ Len(u) + k \in 1 .. Len(u) + Len(l) /\ ~(Len(u) + k <= Len(u))
          /\ Len(u) + k - Len(u) = k
      BY <2>1
    <3> DEFINE i == n + k
    <3>2. w[n + k] = l[k]
      <4>1. i \in 1 .. n + Len(l) /\ ~(i <= n) /\ i - n = k
        BY <2>1
      <4> HIDE DEF i
      <4>2. w[i] = l[i - n]
        BY <2>2, <4>1
      <4> QED
        BY <4>1, <4>2 DEF i
    <3>3. v[Len(u) + k] = l[k]
      BY <2>3, <3>1
    <3> QED
      BY <3>2, <3>3
  <2> QED
    BY <2>1, <2>2, <2>3, <2>4, <2>5
<1> HIDE DEF w, v, n
<1>2. \A i \in 0 .. n : Echoed(w, i) = Echoed(s, i)
  BY <1>1, EchoedSame
<1>3. ASSUME NEW k \in 0 .. Len(l)
      PROVE  Echoed(w, n + k) = Len(u) + k
  <2> DEFINE A == {i \in 1 .. n : w[i] # 0}
             B == n + 1 .. n + k
             C == {i \in 1 .. n + k : w[i] # 0}
  <2>1. \A i \in B : w[i] # 0
    <3> SUFFICES ASSUME NEW i \in B PROVE w[i] # 0
      OBVIOUS
    <3> DEFINE j == i - n
    <3>1. j \in 1 .. Len(l) /\ n + j = i
      BY <1>1
    <3> HIDE DEF j
    <3>2. w[n + j] = l[j] /\ l[j] # 0
      BY <1>1, <3>1
    <3> QED
      BY <3>1, <3>2
  <2>2. C = A \cup B /\ A \cap B = {}
    <3>1. n \in Nat /\ k \in Nat
      BY <1>1
    <3>2. \A i : i \in 1 .. n + k <=> i \in 1 .. n \/ i \in n + 1 .. n + k
      BY <3>1
    <3>3. \A i \in 1 .. n : i \notin n + 1 .. n + k
      BY <3>1
    <3> QED
      BY <2>1, <3>2, <3>3
  <2>3. IsFiniteSet(A) /\ Cardinality(A) = Len(u)
    <3>1. IsFiniteSet(A) /\ Cardinality(A) = Echoed(w, n)
      BY <1>1, EchoedTyped DEF Echoed
    <3> QED
      BY <1>1, <1>2, <3>1 DEF n
  <2>4. IsFiniteSet(B) /\ Cardinality(B) = k
    <3>1. n + 1 \in Int /\ n + k \in Int
      BY <1>1
    <3> DEFINE a == n + 1
               b == n + k
    <3>2. a \in Int /\ b \in Int /\ B = a .. b
      BY <3>1
    <3>3. (IF a > b THEN 0 ELSE b - a + 1) = k
      BY <1>1
    <3> HIDE DEF a, b, B
    <3>4. IsFiniteSet(B) /\ Cardinality(B) = IF a > b THEN 0 ELSE b - a + 1
      BY <3>2, FS_Interval
    <3> QED
      BY <3>3, <3>4
  <2>5. Cardinality(C) = Cardinality(A) + Cardinality(B) - Cardinality({})
    <3> HIDE DEF A, B, C
    <3>1. Cardinality(A \cup B) =
            Cardinality(A) + Cardinality(B) - Cardinality(A \cap B)
      BY <2>3, <2>4, FS_Union
    <3> QED
      BY <2>2, <3>1
  <2>6. Cardinality(C) = Len(u) + k
    <3> HIDE DEF A, B, C
    <3> QED
      BY <1>1, <2>3, <2>4, <2>5, FS_EmptySet
  <2> QED
    BY <2>6 DEF Echoed
<1>4. ASSUME NEW i \in 1 .. Len(w), w[i] # 0
      PROVE  Echoed(w, i) <= Len(v) /\ w[i] = v[Echoed(w, i)]
  <2>1. CASE i <= n
    <3>1. s[i] # 0 /\ i \in 1 .. Len(s) /\ w[i] = s[i] /\ Echoed(w, i) = Echoed(s, i)
      BY <1>1, <1>2, <1>4, <2>1 DEF n
    <3>2. Echoed(s, i) <= Len(u) /\ s[i] = u[Echoed(s, i)]
      BY <3>1 DEF IsEcho
    <3>3. Echoed(s, i) \in 1 .. Len(u)
      <4>1. i \in Nat /\ i # 0
        BY <1>1
      <4>2. Echoed(s, i) \in Nat /\ Echoed(s, i) > 0
        BY <3>1, <4>1, EchoedTyped
      <4> QED
        BY <1>1, <3>2, <4>2
    <3> QED
      BY <1>1, <3>1, <3>2, <3>3
  <2>2. CASE i > n
    <3> DEFINE k == i - n
    <3>1. k \in 1 .. Len(l) /\ k \in 0 .. Len(l) /\ i = n + k
      BY <1>1, <2>2
    <3> HIDE DEF k
    <3>2. Echoed(w, i) = Len(u) + k
      BY <1>3, <3>1
    <3> QED
      BY <1>1, <3>1, <3>2
  <2> QED
    BY <1>1, <2>1, <2>2
<1>5. Echoed(w, Len(w)) = Len(v)
  BY <1>1, <1>3
<1> QED
  BY <1>4, <1>5 DEF IsEcho, w, v

-----------------------------------------------------------------------------
\* An operation that is started with none outstanding finds the storage free.
LEMMA AllocateTyped ==
  ASSUME NEW r \in ConnObjects, NEW op \in {"read", "write"},
         r.ops = {op}, r.heap = {}, ~r.in_use
  PROVE  LET q == allocate(r, op)
         IN  /\ q \in ConnObjects /\ Stored(q)
             /\ q.ops = r.ops /\ q.self = r.self
             /\ q.pos = r.pos /\ q.size = r.size
             /\ q.data = r.data /\ q.text = r.text
<1>1. CASE Fits(op)
  <2> DEFINE q == [r EXCEPT !.in_use = TRUE]
  <2>1. allocate(r, op) = q
    BY <1>1 DEF allocate
  <2>2. q \in ConnObjects /\ q.in_use = TRUE /\ q.heap = {}
    BY DEF ConnObjects
  <2>3. /\ q.ops = r.ops /\ q.self = r.self /\ q.pos = r.pos /\ q.size = r.size
        /\ q.data = r.data /\ q.text = r.text
    BY DEF ConnObjects
  <2> HIDE DEF q
  <2>4. {o \in q.ops : ~Fits(o)} = {} /\ q.ops # {}
    BY <1>1, <2>3
  <2>5. Stored(q)
    BY <2>2, <2>4 DEF Stored
  <2> QED
    BY <2>1, <2>2, <2>3, <2>5
<1>2. CASE ~Fits(op)
  <2> DEFINE h == r.heap \cup {op}
             q == [r EXCEPT !.heap = h]
  <2>1. allocate(r, op) = q
    BY <1>2 DEF allocate
  <2>2. h = {op} /\ h \in SUBSET {"read", "write"}
    OBVIOUS
  <2> HIDE DEF h
  <2>3. q \in ConnObjects /\ q.in_use = r.in_use /\ q.heap = {op}
    BY <2>2 DEF ConnObjects
  <2>4. /\ q.ops = r.ops /\ q.self = r.self /\ q.pos = r.pos /\ q.size = r.size
        /\ q.data = r.data /\ q.text = r.text
    BY DEF ConnObjects
  <2> HIDE DEF q
  <2>5. {o \in q.ops : ~Fits(o)} = {op} /\ q.ops = {op}
    BY <1>2, <2>4
  <2>6. Stored(q)
    BY <2>3, <2>5 DEF Stored
  <2> QED
    BY <2>1, <2>3, <2>4, <2>6
<1> QED
  BY <1>1, <1>2

\* A connection before start() is idle.
LEMMA NewConnIdle == Types => Idle(NewConn)
<1> SUFFICES ASSUME Types PROVE Idle(NewConn)
  OBVIOUS
<1>1. NewConn \in ConnObjects
  BY DEF NewConn, ConnObjects
<1>2. NewConn.ops = {} /\ NewConn.self = {} /\ NewConn.heap = {} /\ NewConn.in_use = FALSE
  BY DEF NewConn
<1> QED
  BY <1>1, <1>2 DEF Idle, OneOperation, Stored

\* The response to n bytes is n + 2 bytes long.
LEMMA ResponseTyped ==
  ASSUME NEW r \in ConnObjects, NEW n \in Nat, n <= Len(r.data)
  PROVE  Response(r, n) \in Seq(Nat) /\ Len(Response(r, n)) = n + 2
<1>1. r.data \in Seq(Nat)
  BY DEF ConnObjects
<1>2. SubSeq(r.data, 1, n) \in Seq(Nat) /\ Len(SubSeq(r.data, 1, n)) = n
  BY <1>1, SubSeqTyped
<1> QED
  BY <1>2 DEF Response

\* The memory of the completed operation is free before its handler runs.
LEMMA CompletedIdle ==
  ASSUME Types, NEW c \in Conns, OneOperation(conn[c]), NEW op \in conn[c].ops
  PROVE  /\ Idle(Completed(c, op))
         /\ Completed(c, op).data = conn[c].data /\ Completed(c, op).text = conn[c].text
         /\ Completed(c, op).pos = conn[c].pos /\ Completed(c, op).size = conn[c].size
<1> DEFINE r == [conn[c] EXCEPT !.ops = @ \ {op}, !.self = @ \ {op}]
<1>1. conn[c] \in ConnObjects /\ Stored(conn[c])
  BY DEF OneOperation
<1>2. conn[c].ops = {op} /\ conn[c].self = {op}
  BY DEF OneOperation
<1>3. r \in ConnObjects /\ r.ops = {} /\ r.self = {}
      /\ r.heap = conn[c].heap /\ r.in_use = conn[c].in_use
  BY <1>1, <1>2 DEF ConnObjects
<1>4. r.data = conn[c].data /\ r.text = conn[c].text /\ r.pos = conn[c].pos
      /\ r.size = conn[c].size
  BY <1>1 DEF ConnObjects
<1> HIDE DEF r
<1>5. CASE program = "daytime"
  <2>1. Completed(c, op) = r
    BY <1>5 DEF Completed, r
  <2> QED
    BY <1>3, <1>4, <1>5, <2>1 DEF Idle, OneOperation, Stored
<1>6. CASE program # "daytime"
  <2> DEFINE d == deallocate(r, op)
  <2>1. Completed(c, op) = d
    BY <1>6 DEF Completed, r
  <2>2. d \in ConnObjects /\ d.ops = {} /\ d.self = {} /\ d.heap = {} /\ ~d.in_use
    <3>1. CASE Fits(op)
      <4>1. r.heap = {}
        BY <1>1, <1>2, <1>3, <1>6, <3>1 DEF Stored
      <4>2. d = [r EXCEPT !.in_use = FALSE]
        BY <4>1 DEF deallocate
      <4> QED
        BY <1>3, <4>1, <4>2 DEF ConnObjects
    <3>2. CASE ~Fits(op)
      <4>1. r.heap = {op} /\ ~r.in_use
        BY <1>1, <1>2, <1>3, <1>6, <3>2 DEF Stored
      <4>2. d = [r EXCEPT !.heap = {}]
        BY <1>3, <4>1 DEF deallocate, ConnObjects
      <4> QED
        BY <1>3, <4>1, <4>2 DEF ConnObjects
    <3> QED
      BY <3>1, <3>2
  <2>3. d.data = r.data /\ d.text = r.text /\ d.pos = r.pos /\ d.size = r.size
    BY <1>3 DEF deallocate, ConnObjects
  <2> HIDE DEF d
  <2> QED
    BY <1>4, <1>6, <2>1, <2>2, <2>3 DEF Idle, OneOperation, Stored
<1> QED
  BY <1>5, <1>6

\* do_read takes the storage its predecessor left.
LEMMA DoReadOne ==
  ASSUME program # "daytime", NEW r, Idle(r)
  PROVE  OneOperation(doRead(r)) /\ doRead(r).ops = {"read"}
<1> DEFINE q == [r EXCEPT !.ops = @ \cup {"read"}, !.self = @ \cup {"read"}]
<1>1. r \in ConnObjects /\ r.ops = {} /\ r.self = {} /\ r.heap = {} /\ ~r.in_use
  BY DEF Idle, OneOperation, Stored
<1>2. q \in ConnObjects /\ q.ops = {"read"} /\ q.self = {"read"} /\ q.heap = {} /\ ~q.in_use
  BY <1>1 DEF ConnObjects
<1>3. doRead(r) = allocate(q, "read")
  BY DEF doRead
<1> HIDE DEF q
<1> QED
  BY <1>2, <1>3, AllocateTyped DEF OneOperation

\* An operation of async_write for what is left of the response.
LEMMA WriteAgainOne ==
  ASSUME program \in Programs, NEW r, Idle(r), NEW n \in Nat,
         r.pos + n < r.size, r.size = Len(ResponseBytes(r)),
         program # "daytime"
  PROVE  LET q == allocate([r EXCEPT !.ops = @ \cup {"write"}, !.pos = @ + n,
                                 !.self = @ \cup {"write"}], "write")
         IN  /\ OneOperation(q) /\ q.ops = {"write"}
             /\ q.pos = r.pos + n /\ q.size = r.size
             /\ ResponseBytes(q) = ResponseBytes(r)
<1> DEFINE q == [r EXCEPT !.ops = @ \cup {"write"}, !.pos = @ + n,
                          !.self = @ \cup {"write"}]
<1>1. r \in ConnObjects /\ r.ops = {} /\ r.self = {} /\ r.heap = {} /\ ~r.in_use
  BY DEF Idle, OneOperation, Stored
<1>2. q \in ConnObjects /\ q.ops = {"write"} /\ q.self = {"write"}
      /\ q.heap = {} /\ ~q.in_use
  <2> DEFINE p == r.pos + n
             w == {"write"}
  <2>1. q \in ConnObjects
    <3>1. p \in Nat /\ w \in SUBSET {"read", "write"}
      BY <1>1 DEF ConnObjects
    <3>2. q = [r EXCEPT !.ops = w, !.pos = p, !.self = w]
      BY <1>1
    <3> HIDE DEF p, w, q
    <3> QED
      BY <1>1, <3>1, <3>2 DEF ConnObjects
  <2>2. q.ops = {"write"} /\ q.self = {"write"} /\ q.heap = {} /\ q.in_use = r.in_use
    BY <1>1 DEF ConnObjects
  <2> QED
    BY <1>1, <2>1, <2>2
<1>3. q.pos = r.pos + n /\ q.size = r.size /\ q.data = r.data /\ q.text = r.text
  BY <1>1 DEF ConnObjects
<1> HIDE DEF q
<1>4. /\ allocate(q, "write") \in ConnObjects /\ Stored(allocate(q, "write"))
      /\ allocate(q, "write").ops = {"write"} /\ allocate(q, "write").self = {"write"}
      /\ allocate(q, "write").pos = r.pos + n /\ allocate(q, "write").size = r.size
      /\ allocate(q, "write").data = r.data /\ allocate(q, "write").text = r.text
  BY <1>2, <1>3, AllocateTyped
<1>5. OneOperation(allocate(q, "write")) /\ ResponseBytes(allocate(q, "write")) = ResponseBytes(r)
  BY <1>4 DEF OneOperation, ResponseBytes
<1> QED
  BY <1>4, <1>5 DEF q

\* do_write of allocation.cpp: the response is in data_.
LEMMA DoWriteOne ==
  ASSUME program = "allocation", NEW r, Idle(r), NEW n \in Nat, n <= Len(r.data)
  PROVE  LET q == doWrite(r, n)
         IN  /\ OneOperation(q) /\ q.ops = {"write"} /\ q.pos = 0 /\ q.size = n + 2
             /\ ResponseBytes(q) = Response(r, n)
<1> DEFINE t == Response(r, n)
           q == [r EXCEPT !.ops = @ \cup {"write"}, !.self = @ \cup {"write"},
                          !.data = t, !.size = n + 2, !.pos = 0]
<1>1. r \in ConnObjects /\ r.ops = {} /\ r.self = {} /\ r.heap = {} /\ ~r.in_use
  BY DEF Idle, OneOperation, Stored
<1>2. t \in Seq(Nat) /\ Len(t) = n + 2
  BY <1>1, ResponseTyped
<1>3. doWrite(r, n) = allocate(q, "write")
  BY DEF doWrite
<1> HIDE DEF t
<1>4. q \in ConnObjects /\ q.ops = {"write"} /\ q.self = {"write"}
      /\ q.heap = {} /\ ~q.in_use
  <2> DEFINE p == n + 2
             w == {"write"}
  <2>1. q \in ConnObjects
    <3>1. p \in Nat /\ w \in SUBSET {"read", "write"}
      BY <1>1 DEF ConnObjects
    <3>2. q = [r EXCEPT !.ops = w, !.self = w, !.data = t, !.size = p, !.pos = 0]
      BY <1>1
    <3> HIDE DEF p, w, q
    <3> QED
      BY <1>1, <1>2, <3>1, <3>2 DEF ConnObjects
  <2>2. q.ops = {"write"} /\ q.self = {"write"} /\ q.heap = {} /\ q.in_use = r.in_use
    BY <1>1, <1>2 DEF ConnObjects
  <2> QED
    BY <1>1, <2>1, <2>2
<1>5. q.data = t /\ q.size = n + 2 /\ q.pos = 0
  BY <1>1 DEF ConnObjects
<1> HIDE DEF q
<1>6. /\ allocate(q, "write") \in ConnObjects /\ Stored(allocate(q, "write"))
      /\ allocate(q, "write").ops = {"write"} /\ allocate(q, "write").self = {"write"}
      /\ allocate(q, "write").pos = 0 /\ allocate(q, "write").size = n + 2 /\ allocate(q, "write").data = t
  BY <1>4, <1>5, AllocateTyped
<1> DEFINE z == allocate(q, "write")
<1>7. OneOperation(z) /\ ResponseBytes(z) = t
  <2>1. /\ z \in ConnObjects /\ Stored(z) /\ z.ops = {"write"} /\ z.self = {"write"}
        /\ z.pos = 0 /\ z.size = n + 2
    BY <1>6
  <2>2. ResponseBytes(z) = t
    BY <1>6 DEF ResponseBytes
  <2> HIDE DEF z
  <2>3. z.pos < z.size /\ z.size = Len(ResponseBytes(z))
    BY <1>2, <2>1, <2>2
  <2> QED
    BY <2>1, <2>2, <2>3 DEF OneOperation
<1> QED
  BY <1>3, <1>6, <1>7 DEF t

\* do_write of reference_counted_buffer.cpp: the response is in a text of its own.
LEMMA DoWriteSharedOne ==
  ASSUME program = "buffer", NEW r, Idle(r), NEW n \in Nat, n <= Len(r.data)
  PROVE  LET q == doWriteShared(r, n)
         IN  /\ OneOperation(q) /\ q.ops = {"write"} /\ q.pos = 0 /\ q.size = n + 2
             /\ ResponseBytes(q) = Response(r, n)
<1> DEFINE t == Response(r, n)
           q == [r EXCEPT !.ops = @ \cup {"write"}, !.self = @ \cup {"write"},
                          !.text = t, !.size = n + 2, !.pos = 0]
<1>1. r \in ConnObjects /\ r.ops = {} /\ r.self = {} /\ r.heap = {} /\ ~r.in_use
  BY DEF Idle, OneOperation, Stored
<1>2. t \in Seq(Nat) /\ Len(t) = n + 2
  BY <1>1, ResponseTyped
<1>3. doWriteShared(r, n) = allocate(q, "write")
  BY DEF doWriteShared
<1> HIDE DEF t
<1>4. q \in ConnObjects /\ q.ops = {"write"} /\ q.self = {"write"}
      /\ q.heap = {} /\ ~q.in_use
  <2> DEFINE p == n + 2
             w == {"write"}
  <2>1. q \in ConnObjects
    <3>1. p \in Nat /\ w \in SUBSET {"read", "write"}
      BY <1>1 DEF ConnObjects
    <3>2. q = [r EXCEPT !.ops = w, !.self = w, !.text = t, !.size = p, !.pos = 0]
      BY <1>1
    <3> HIDE DEF p, w, q
    <3> QED
      BY <1>1, <1>2, <3>1, <3>2 DEF ConnObjects
  <2>2. q.ops = {"write"} /\ q.self = {"write"} /\ q.heap = {} /\ q.in_use = r.in_use
    BY <1>1, <1>2 DEF ConnObjects
  <2> QED
    BY <1>1, <2>1, <2>2
<1>5. q.text = t /\ q.size = n + 2 /\ q.pos = 0
  BY <1>1 DEF ConnObjects
<1> HIDE DEF q
<1>6. /\ allocate(q, "write") \in ConnObjects /\ Stored(allocate(q, "write"))
      /\ allocate(q, "write").ops = {"write"} /\ allocate(q, "write").self = {"write"}
      /\ allocate(q, "write").pos = 0 /\ allocate(q, "write").size = n + 2 /\ allocate(q, "write").text = t
  BY <1>4, <1>5, AllocateTyped
<1> DEFINE z == allocate(q, "write")
<1>7. OneOperation(z) /\ ResponseBytes(z) = t
  <2>1. /\ z \in ConnObjects /\ Stored(z) /\ z.ops = {"write"} /\ z.self = {"write"}
        /\ z.pos = 0 /\ z.size = n + 2
    BY <1>6
  <2>2. ResponseBytes(z) = t
    BY <1>6 DEF ResponseBytes
  <2> HIDE DEF z
  <2>3. z.pos < z.size /\ z.size = Len(ResponseBytes(z))
    BY <1>2, <2>1, <2>2
  <2> QED
    BY <2>1, <2>2, <2>3 DEF OneOperation
<1> QED
  BY <1>3, <1>6, <1>7 DEF t

\* handle of server_async.cpp writes its one message.
LEMMA HandleOne ==
  ASSUME program = "daytime", NEW r, Idle(r), r.pos = 0
  PROVE  /\ OneOperation(handle(r)) /\ handle(r).ops = {"write"}
         /\ handle(r).pos = 0 /\ handle(r).size = 1
         /\ ResponseBytes(handle(r)) = <<0>>
<1> DEFINE t == <<0>>
           q == [r EXCEPT !.ops = @ \cup {"write"}, !.self = @ \cup {"write"},
                          !.text = t, !.size = 1]
<1>1. r \in ConnObjects /\ r.ops = {} /\ r.self = {}
  BY DEF Idle, OneOperation
<1>2. t \in Seq(Nat) /\ Len(t) = 1
  OBVIOUS
<1> HIDE DEF t
<1>3. q \in ConnObjects /\ q.ops = {"write"} /\ q.self = {"write"}
  BY <1>1, <1>2 DEF ConnObjects
<1>4. q.text = t /\ q.size = 1 /\ q.pos = 0
  BY <1>1 DEF ConnObjects
<1>5. handle(r) = q
  BY DEF handle, t
<1> HIDE DEF q
<1>6. q.ops # {} /\ q.ops # {"read"} /\ q.pos < q.size
  BY <1>3, <1>4
<1>7. q.size = Len(ResponseBytes(q))
  BY <1>2, <1>4 DEF ResponseBytes
<1>8. OneOperation(q)
  BY <1>3, <1>4, <1>6, <1>7 DEF OneOperation, Stored
<1>9. ResponseBytes(q) = <<0>>
  BY <1>4 DEF ResponseBytes, t
<1> QED
  BY <1>3, <1>4, <1>5, <1>8, <1>9

\* The answer of any of the servers is one operation.
LEMMA RespondOne ==
  ASSUME program \in Programs, NEW r, Idle(r), NEW n \in Nat, n <= Len(r.data),
         program = "daytime" => r.pos = 0
  PROVE  LET q == Respond(r, n)
         IN  /\ OneOperation(q) /\ q.ops = {"write"} /\ q.pos = 0
             /\ q.size = Len(ResponseBytes(q))
             /\ ResponseBytes(q) = IF program = "daytime" THEN <<0>> ELSE Response(r, n)
<1>0. Len(Response(r, n)) = n + 2 /\ Len(<<0>>) = 1
  BY ResponseTyped DEF Idle, OneOperation
<1>1. CASE program = "allocation"
  <2>1. Respond(r, n) = doWrite(r, n)
    BY <1>1 DEF Respond
  <2> QED
    BY <1>0, <1>1, <2>1, DoWriteOne
<1>2. CASE program = "buffer"
  <2>1. Respond(r, n) = doWriteShared(r, n)
    BY <1>2 DEF Respond
  <2> QED
    BY <1>0, <1>2, <2>1, DoWriteSharedOne
<1>3. CASE program = "daytime"
  <2>1. Respond(r, n) = handle(r)
    BY <1>3 DEF Respond
  <2> QED
    BY <1>0, <1>3, <2>1, HandleOne
<1> QED
  BY <1>1, <1>2, <1>3 DEF Programs

\* What is left of a connection when a handler returns.
LEMMA ReleaseOne ==
  ASSUME Types, NEW r, OneOperation(r)
  PROVE  /\ OneOperation(Release(r))
         /\ Release(r).life = "alive" <=> Release(r).ops # {}
         /\ Release(r).life # "none"
<1>0. r.self = r.ops
  BY DEF OneOperation
<1>1. CASE r.ops = {}
  <2> DEFINE g == [NewConn EXCEPT !.life = "gone", !.ops = r.ops]
  <2>1. NewConn \in ConnObjects
    BY DEF NewConn, ConnObjects
  <2>2. g \in ConnObjects /\ g.life = "gone"
    BY <1>1, <2>1 DEF ConnObjects
  <2>3. g.ops = {} /\ g.self = {} /\ g.heap = {} /\ g.in_use = FALSE
    BY <1>1 DEF NewConn
  <2>4. Release(r) = g
    BY <1>0, <1>1 DEF Release
  <2> HIDE DEF g
  <2> QED
    BY <2>2, <2>3, <2>4 DEF OneOperation, Stored
<1>2. CASE r.ops # {}
  <2> DEFINE g == [r EXCEPT !.life = "alive"]
  <2>1. r \in ConnObjects
    BY DEF OneOperation
  <2>2. g \in ConnObjects /\ g.life = "alive"
    BY <2>1 DEF ConnObjects
  <2>3. /\ g.ops = r.ops /\ g.self = r.self /\ g.heap = r.heap /\ g.in_use = r.in_use
        /\ g.pos = r.pos /\ g.size = r.size /\ g.data = r.data /\ g.text = r.text
    BY <2>1 DEF ConnObjects
  <2>4. Release(r) = g
    BY <1>0, <1>2 DEF Release
  <2> HIDE DEF g
  <2> QED
    BY <1>2, <2>2, <2>3, <2>4 DEF OneOperation, ResponseBytes, Stored
<1> QED
  BY <1>1, <1>2

-----------------------------------------------------------------------------
\* What the invariant says of the connections alone.
ConnInv ==
  /\ conn \in [Conns -> ConnObjects]
  /\ \A c \in Conns : OneOperation(conn[c])
  /\ HandlerKeepsConnection
  /\ \A c \in Conns : conn[c].life = "none" => conn[c] = NewConn

\* A step that replaces one connection object by another good one.
LEMMA ReplaceConn ==
  ASSUME IInv, NEW c \in Conns, NEW r, program' = program,
         conn' = [conn EXCEPT ![c] = r], OneOperation(r),
         r.life = "alive" <=> r.ops # {}, r.life = "none" => r = NewConn
  PROVE  ConnInv'
<1>1. conn \in [Conns -> ConnObjects] /\ r \in ConnObjects
  BY DEF IInv, Types, OneOperation
<1>2. conn' \in [Conns -> ConnObjects]
  BY <1>1
<1>3. ASSUME NEW d \in Conns
      PROVE  /\ OneOperation(conn'[d])
             /\ conn'[d].life = "alive" <=> conn'[d].ops # {}
             /\ conn'[d].life = "none" => conn'[d] = NewConn
  <2>1. CASE d = c
    BY <1>1, <2>1
  <2>2. CASE d # c
    <3>1. conn'[d] = conn[d]
      BY <1>1, <2>2
    <3> QED
      BY <3>1 DEF IInv, HandlerKeepsConnection
  <2> QED
    BY <2>1, <2>2
<1>4. (OneOperation(conn[c]))' = OneOperation(conn'[c])
  BY DEF OneOperation, ResponseBytes, Stored, Fits, Size
<1>5. \A d \in Conns : (OneOperation(conn[d]))'
  BY <1>3 DEF OneOperation, ResponseBytes, Stored, Fits, Size
<1>6. \A d \in Conns : (conn[d].life = "none" => conn[d] = NewConn)'
  BY <1>3 DEF NewConn
<1> QED
  BY <1>2, <1>3, <1>5, <1>6 DEF ConnInv, HandlerKeepsConnection

\* A step that leaves the connections and the program alone.
LEMMA SameConn ==
  ASSUME IInv, UNCHANGED <<program, conn>>
  PROVE  ConnInv'
BY DEF IInv, Types, ConnInv, OneOperation, ResponseBytes, Stored, Fits, Size,
       HandlerKeepsConnection, NewConn

\* A handler that returns leaves a good connection.
LEMMA ReturnConn ==
  ASSUME IInv, NEW c \in Conns, NEW r, program' = program,
         conn' = [conn EXCEPT ![c] = Release(r)], OneOperation(r)
  PROVE  ConnInv'
<1>1. Types
  BY DEF IInv
<1>2. /\ OneOperation(Release(r))
      /\ Release(r).life = "alive" <=> Release(r).ops # {}
      /\ Release(r).life # "none"
  BY <1>1, ReleaseOne
<1> QED
  BY <1>2, ReplaceConn

\* The initial state.
LEMMA InitIInv == Init => IInv
<1> SUFFICES ASSUME Init PROVE IInv
  OBVIOUS
<1>1. NewConn \in ConnObjects
  BY DEF NewConn, ConnObjects
<1>2. <<>> \in Seq(Nat)
  OBVIOUS
<1>3. Types
  BY <1>1, <1>2 DEF Init, Types, Programs, ClientObjects
<1>4. Idle(NewConn) /\ NewConn.ops = {} /\ NewConn.life = "none"
  BY <1>3, NewConnIdle DEF Idle, NewConn
<1>5. \A c \in Conns : conn[c] = NewConn
  BY DEF Init
<1> QED
  BY <1>3, <1>4, <1>5 DEF IInv, HandlerKeepsConnection, Idle

\* doAccept: the new connection writes its first response, or is lost.
LEMMA AcceptStep ==
  ASSUME IInv, NEW c \in Conns, Accept(c)
  PROVE  IInv'
<1>1. UNCHANGED <<program, overrun, client, up, down>>
  BY DEF Accept
<1>2. conn[c] = NewConn
  BY DEF Accept, IInv
<1>3. Types /\ program \in Programs
  BY DEF IInv, Types
<1>4. Idle(NewConn)
  BY <1>3, NewConnIdle
<1>5. NewConn.pos = 0 /\ NewConn.data = <<>> /\ Len(NewConn.data) = 0
  BY DEF NewConn
<1>6. ASSUME conn' = [conn EXCEPT ![c] = Release(Respond(@, 0))]
      PROVE  ConnInv'
  <2>1. OneOperation(Respond(NewConn, 0))
    BY <1>3, <1>4, <1>5, RespondOne
  <2>2. conn' = [conn EXCEPT ![c] = Release(Respond(NewConn, 0))]
    BY <1>2, <1>3, <1>6 DEF Types
  <2> QED
    BY <1>1, <2>1, <2>2, ReturnConn
<1>7. ASSUME conn' = [conn EXCEPT ![c].life = "gone"]
      PROVE  ConnInv'
  <2>1. Release(NewConn) = [NewConn EXCEPT !.life = "gone"]
    <3>1. NewConn \in ConnObjects /\ NewConn.self = {}
      BY DEF NewConn, ConnObjects
    <3> QED
      BY <3>1 DEF Release, ConnObjects
  <2>2. conn' = [conn EXCEPT ![c] = Release(NewConn)]
    BY <1>2, <1>3, <1>7, <2>1 DEF Types
  <2> QED
    BY <1>1, <1>4, <2>2, ReturnConn DEF Idle
<1>8. ConnInv'
  BY <1>6, <1>7 DEF Accept
<1> QED
  BY <1>1, <1>3, <1>8 DEF Types, IInv, ConnInv

\* A piece of the response is taken; the rest is another operation, and the
\* handler runs when there is no rest.
LEMMA WriteSomeStep ==
  ASSUME IInv, NEW c \in Conns, WriteSome(c)
  PROVE  IInv'
<1> DEFINE r == conn[c]
           done == Completed(c, "write")
<1>1. UNCHANGED <<program, accepting, overrun, client, up>>
  BY DEF WriteSome
<1>2. Types /\ OneOperation(r) /\ program \in Programs
  BY DEF IInv, Types
<1>3. r \in ConnObjects /\ r.pos \in Nat /\ r.size \in Nat
      /\ r.data \in Seq(Nat) /\ r.text \in Seq(Nat)
  BY <1>2 DEF OneOperation, ConnObjects
<1>4. "write" \in r.ops /\ r.ops = {"write"}
  BY <1>2 DEF WriteSome, OneOperation
<1>5. r.pos < r.size /\ r.size = Len(ResponseBytes(r))
      /\ (program = "daytime" => r.size = 1)
  BY <1>2, <1>4 DEF OneOperation
<1>6. Idle(done) /\ done.pos = r.pos /\ done.size = r.size
      /\ ResponseBytes(done) = ResponseBytes(r)
  BY <1>2, <1>4, CompletedIdle DEF ResponseBytes
<1>7. PICK n \in 1 .. r.size - r.pos :
        /\ down' = [down EXCEPT ![c] = @ \o SubSeq(ResponseBytes(r), r.pos + 1, r.pos + n)]
        /\ Return(c, IF r.pos + n = r.size THEN onWrite(done)
                     ELSE allocate([done EXCEPT !.ops = @ \cup {"write"}, !.pos = @ + n,
                                                !.self = @ \cup {"write"}], "write"))
  BY DEF WriteSome, ResponseBytes
<1> HIDE DEF r, done
<1>8. n \in Nat /\ n # 0 /\ r.pos + n <= r.size
  BY <1>3, <1>7
<1>9. down' \in [Conns -> Seq(Nat)]
  <2>1. ResponseBytes(r) \in Seq(Nat)
    BY <1>3 DEF ResponseBytes
  <2>2. SubSeq(ResponseBytes(r), r.pos + 1, r.pos + n) \in Seq(Nat)
    <3>1. r.pos + 1 \in Nat \ {0} /\ r.pos + n \in Nat /\ r.pos + n <= Len(ResponseBytes(r))
      BY <1>3, <1>5, <1>8
    <3> QED
      BY <2>1, <3>1, SubSeqTyped
  <2>3. down \in [Conns -> Seq(Nat)]
    BY <1>2 DEF Types
  <2> QED
    BY <1>7, <2>2, <2>3
<1>10. ASSUME r.pos + n = r.size PROVE ConnInv'
  <2>1. OneOperation(onWrite(done))
    BY <1>6, DoReadOne DEF onWrite, Idle
  <2>2. conn' = [conn EXCEPT ![c] = Release(onWrite(done))]
    BY <1>7, <1>10 DEF Return
  <2> QED
    BY <1>1, <2>1, <2>2, ReturnConn
<1>11. ASSUME r.pos + n # r.size PROVE ConnInv'
  <2> DEFINE q == allocate([done EXCEPT !.ops = @ \cup {"write"}, !.pos = @ + n,
                                        !.self = @ \cup {"write"}], "write")
  <2>1. r.pos + n < r.size /\ r.size # 1
    <3>1. \A p, m, k \in Nat : m # 0 /\ p + m <= k /\ p + m # k => p + m < k /\ k # 1
      OBVIOUS
    <3> QED
      BY <1>3, <1>8, <1>11, <3>1
  <2>2. OneOperation(q)
    <3>1. done.pos + n < done.size /\ done.size = Len(ResponseBytes(done))
          /\ program # "daytime"
      BY <1>5, <1>6, <2>1
    <3> QED
      BY <1>2, <1>6, <1>8, <3>1, WriteAgainOne
  <2>3. conn' = [conn EXCEPT ![c] = Release(q)]
    BY <1>7, <1>11 DEF Return
  <2> HIDE DEF q
  <2> QED
    BY <1>1, <2>2, <2>3, ReturnConn
<1> QED
  BY <1>1, <1>2, <1>9, <1>10, <1>11 DEF Types, IInv, ConnInv

\* A chunk arrives and is answered, unless the answer does not fit.
LEMMA ReadSomeStep ==
  ASSUME IInv, NEW c \in Conns, ReadSome(c)
  PROVE  IInv'
<1> DEFINE r == conn[c]
           done == Completed(c, "read")
           chunk(n) == SubSeq(up[c], 1, n)
           put(q, n) == [q EXCEPT !.data = chunk(n) \o SubSeq(@, n + 1, Len(@))]
<1>1. UNCHANGED <<program, accepting, client, down>>
  BY DEF ReadSome
<1>2. Types /\ OneOperation(r) /\ program \in Programs
  BY DEF IInv, Types
<1>3. "read" \in r.ops /\ r.ops = {"read"} /\ program # "daytime"
  BY <1>2 DEF ReadSome, OneOperation
<1>4. Idle(done)
  BY <1>2, <1>3, CompletedIdle
<1>5. PICK n \in 1 .. Capacity :
        /\ n <= Len(up[c])
        /\ up' = [up EXCEPT ![c] = SubSeq(@, n + 1, Len(@))]
        /\ UNCHANGED conn \/ Return(c, Respond(put(done, n), n))
  BY DEF ReadSome
<1>6. up \in [Conns -> Seq(Nat)] /\ up[c] \in Seq(Nat) /\ Len(up[c]) \in Nat
      /\ n \in Nat /\ n # 0
  <2>1. up \in [Conns -> Seq(Nat)]
    BY <1>2 DEF Types
  <2>2. up[c] \in Seq(Nat)
    BY <2>1, Zenon
  <2>3. Len(up[c]) \in Nat
    BY <2>2, LenProperties
  <2>4. Capacity \in Nat
    BY EchoAssumption
  <2>5. n \in Nat /\ n # 0
    BY <2>4
  <2> QED
    BY <2>1, <2>2, <2>3, <2>5
<1>7. up' \in [Conns -> Seq(Nat)]
  <2>1. SubSeq(up[c], n + 1, Len(up[c])) \in Seq(Nat)
    BY <1>6, SubSeqTyped
  <2> QED
    BY <1>5, <1>6, <2>1
<1>8. chunk(n) \in Seq(Nat) /\ Len(chunk(n)) = n
  BY <1>5, <1>6, SubSeqTyped
<1> HIDE DEF r, done, chunk
<1>9. done \in ConnObjects /\ done.data \in Seq(Nat) /\ Len(done.data) \in Nat
  BY <1>4 DEF Idle, OneOperation, ConnObjects
<1> DEFINE data == chunk(n) \o SubSeq(done.data, n + 1, Len(done.data))
           q == put(done, n)
<1>10. data \in Seq(Nat) /\ n <= Len(data)
  <2>1. SubSeq(done.data, n + 1, Len(done.data)) \in Seq(Nat)
    BY <1>6, <1>9, SubSeqTyped
  <2> QED
    BY <1>6, <1>8, <2>1
<1>11. q = [done EXCEPT !.data = data]
  BY <1>9 DEF ConnObjects
<1> HIDE DEF data, put, q
<1>12. q \in ConnObjects /\ q.data = data
  BY <1>9, <1>10, <1>11 DEF ConnObjects
<1>13. q.ops = done.ops /\ q.self = done.self
       /\ q.heap = done.heap /\ q.in_use = done.in_use
  BY <1>9, <1>11 DEF ConnObjects
<1>14. Idle(q)
  BY <1>4, <1>12, <1>13 DEF Idle, OneOperation, Stored
<1>15. OneOperation(Respond(q, n))
  BY <1>2, <1>3, <1>6, <1>10, <1>12, <1>14, RespondOne
<1>16. ASSUME UNCHANGED conn PROVE ConnInv'
  BY <1>1, <1>16, SameConn
<1>17. ASSUME Return(c, Respond(q, n)) PROVE ConnInv'
  BY <1>1, <1>15, <1>17, ReturnConn DEF Return
<1>18. ConnInv'
  BY <1>5, <1>16, <1>17 DEF q
<1> QED
  BY <1>1, <1>2, <1>7, <1>18 DEF Types, IInv, ConnInv

\* A failed operation ends without a successor.
LEMMA FailStep ==
  ASSUME IInv, NEW c \in Conns, Fail(c)
  PROVE  IInv'
<1>1. UNCHANGED <<program, accepting, overrun, client, up, down>>
  BY DEF Fail
<1>2. Types /\ OneOperation(conn[c])
  BY DEF IInv
<1>3. PICK op \in conn[c].ops : Return(c, Completed(c, op))
  BY DEF Fail
<1>4. OneOperation(Completed(c, op))
  BY <1>2, CompletedIdle DEF Idle
<1>5. ConnInv'
  BY <1>1, <1>3, <1>4, ReturnConn DEF Return
<1> QED
  BY <1>1, <1>2, <1>5 DEF Types, IInv, ConnInv

\* The client changes its own state and the bytes on the way.
LEMMA ClientStep ==
  ASSUME IInv, NEW c \in Conns, Client(c)
  PROVE  IInv'
<1>1. UNCHANGED <<program, conn>>
  BY DEF Client
<1>2. Types /\ program \in Programs
  BY DEF IInv, Types
<1>3. /\ client \in [Conns -> ClientObjects] /\ client[c] \in ClientObjects
      /\ up \in [Conns -> Seq(Nat)] /\ up[c] \in Seq(Nat) /\ Len(up[c]) \in Nat
      /\ down \in [Conns -> Seq(Nat)] /\ down[c] \in Seq(Nat) /\ Len(down[c]) \in Nat
  BY <1>2 DEF Types
<1> DEFINE PCs == {"connect", "hello", "talk", "read", "quit", "abort"}
<1>4. ASSUME NEW from, NEW to \in PCs, Go(c, from, to)
      PROVE  client' \in [Conns -> ClientObjects]
  <2>1. [client[c] EXCEPT !.pc = to] \in ClientObjects
    BY <1>3, <1>4 DEF ClientObjects
  <2>2. client' = [client EXCEPT ![c] = [client[c] EXCEPT !.pc = to]]
    BY <1>3, <1>4 DEF Go
  <2> QED
    BY <1>3, <2>1, <2>2
<1>5. ASSUME Connect(c)
      PROVE  client' \in [Conns -> ClientObjects] /\ UNCHANGED <<up, down>>
  <2>1. Go(c, "connect", "hello")
    BY <1>5 DEF Connect
  <2> QED
    BY <1>4, <1>5, <2>1 DEF Connect
<1>6. ASSUME talkToServer(c)
      PROVE  /\ client' \in [Conns -> ClientObjects]
             /\ up' \in [Conns -> Seq(Nat)] /\ UNCHANGED down
  <2> DEFINE line(n) == [i \in 1 .. n |-> client[c].lines + 1]
  <2>1. ASSUME NEW n \in 1 .. MaxLine,
               client' = [client EXCEPT ![c].pc = "read", ![c].lines = @ + 1,
                                        ![c].sent = @ \o line(n)],
               up' = [up EXCEPT ![c] = @ \o line(n)]
        PROVE  client' \in [Conns -> ClientObjects] /\ up' \in [Conns -> Seq(Nat)]
    <3>1. n \in Nat /\ client[c].lines + 1 \in Nat
      BY <1>3, EchoAssumption DEF ClientObjects
    <3>2. line(n) \in Seq(Nat)
      BY <3>1
    <3> HIDE DEF line
    <3> DEFINE k == client[c].lines + 1
               t == client[c].sent \o line(n)
               q == [client[c] EXCEPT !.pc = "read", !.lines = k, !.sent = t]
    <3>3. k \in Nat /\ t \in Seq(Nat)
      BY <1>3, <3>1, <3>2 DEF ClientObjects
    <3>4. client' = [client EXCEPT ![c] = q]
      BY <1>3, <2>1
    <3> HIDE DEF k, t
    <3>5. q \in ClientObjects
      BY <1>3, <3>3 DEF ClientObjects
    <3> HIDE DEF q
    <3>6. up[c] \o line(n) \in Seq(Nat)
      BY <1>3, <3>2
    <3> QED
      BY <1>3, <2>1, <3>4, <3>5, <3>6
  <2>2. ASSUME Go(c, "talk", "quit"), UNCHANGED up
        PROVE  client' \in [Conns -> ClientObjects] /\ up' \in [Conns -> Seq(Nat)]
    BY <1>3, <1>4, <2>2
  <2> HIDE DEF line
  <2> QED
    BY <1>6, <2>1, <2>2 DEF talkToServer, line
<1>7. ASSUME readFromServer(c)
      PROVE  /\ client' \in [Conns -> ClientObjects]
             /\ down' \in [Conns -> Seq(Nat)] /\ UNCHANGED up
  <2>1. ASSUME NEW n \in 1 .. ClientBuf, n <= Len(down[c]),
               client' = [client EXCEPT ![c].pc = "talk",
                                        ![c].got = @ \o SubSeq(down[c], 1, n)],
               down' = [down EXCEPT ![c] = SubSeq(@, n + 1, Len(@))]
        PROVE  client' \in [Conns -> ClientObjects] /\ down' \in [Conns -> Seq(Nat)]
    <3>1. n \in Nat
      BY EchoAssumption
    <3>2. SubSeq(down[c], 1, n) \in Seq(Nat)
      BY <1>3, <2>1, <3>1, SubSeqTyped
    <3>3. SubSeq(down[c], n + 1, Len(down[c])) \in Seq(Nat)
      BY <1>3, <3>1, SubSeqTyped
    <3> DEFINE t == client[c].got \o SubSeq(down[c], 1, n)
               q == [client[c] EXCEPT !.pc = "talk", !.got = t]
    <3>4. t \in Seq(Nat)
      BY <1>3, <3>2 DEF ClientObjects
    <3>5. client' = [client EXCEPT ![c] = q]
      BY <1>3, <2>1
    <3> HIDE DEF t
    <3>6. q \in ClientObjects
      BY <1>3, <3>4 DEF ClientObjects
    <3> HIDE DEF q
    <3> QED
      BY <1>3, <2>1, <3>3, <3>5, <3>6
  <2>2. ASSUME UNCHANGED down,
               Go(c, client[c].pc, "quit") \/ Go(c, "hello", "abort")
        PROVE  client' \in [Conns -> ClientObjects] /\ down' \in [Conns -> Seq(Nat)]
    BY <1>3, <1>4, <2>2
  <2> QED
    BY <1>7, <2>1, <2>2 DEF readFromServer
<1>8. ConnInv'
  BY <1>1, SameConn
<1>9. /\ client' \in [Conns -> ClientObjects]
      /\ up' \in [Conns -> Seq(Nat)] /\ down' \in [Conns -> Seq(Nat)]
  BY <1>3, <1>5, <1>6, <1>7 DEF Client
<1> QED
  BY <1>1, <1>2, <1>8, <1>9 DEF Types, IInv, ConnInv

-----------------------------------------------------------------------------
\* Every step of the composed system keeps the invariant.
LEMMA InductiveInvariant == Spec => []IInv
<1>1. IInv /\ [Next]_vars => IInv'
  <2> SUFFICES ASSUME IInv, [Next]_vars PROVE IInv'
    OBVIOUS
  <2>1. CASE UNCHANGED vars
    <3>1. UNCHANGED <<program, conn, client, up, down>>
      BY <2>1 DEF vars
    <3>2. ConnInv'
      BY <3>1, SameConn
    <3> QED
      BY <3>1, <3>2 DEF IInv, Types, ConnInv
  <2>2. CASE Next
    <3>1. PICK c \in Conns : Server(c) \/ Client(c)
      BY <2>2 DEF Next
    <3> QED
      BY <3>1, AcceptStep, WriteSomeStep, ReadSomeStep, FailStep, ClientStep DEF Server
  <2> QED
    BY <2>1, <2>2
<1> QED
  BY <1>1, InitIInv, PTL DEF Spec

\* Every handler of the chain holds the connection, the ones that finish a write
\* in several pieces too, and nothing else does: in all three servers and whatever
\* operation fails, a connection is there exactly as long as one of its operations
\* is outstanding. For any number of clients and any size of data_, of the lines
\* and the reads.
THEOREM ConnectionOutlivesOperations == Spec => []HandlerKeepsConnection
<1>1. IInv => HandlerKeepsConnection
  BY DEF IInv
<1> QED
  BY <1>1, InductiveInvariant, PTL

\* handler_memory has one storage and that is enough: whatever the sizes of the
\* storage and of asio's operations, in_use_ is exact, and no operation, of a write
\* in several pieces either, takes memory from the heap unless it is too large.
THEOREM OneStorageSuffices == Spec => []StorageSuffices
<1>1. IInv => StorageSuffices
  BY DEF IInv, StorageSuffices, OneOperation, Stored
<1> QED
  BY <1>1, InductiveInvariant, PTL

-----------------------------------------------------------------------------
\* What is left of the response of a connection.
Rest(r) == IF "write" \in r.ops THEN SubSeq(ResponseBytes(r), r.pos + 1, r.size)
                                ELSE <<>>

\* An echo of all that was sent.
Whole(s, u) == IsEcho(s, u) /\ Echoed(s, Len(s)) = Len(u)

\* While a client is served, what it sent is, in order, what it has got, what is
\* on the way to it, what is left to write and what was not read yet. When it is
\* no longer served, what has been written was right.
EchoAt(c) ==
  LET arrived == client[c].got \o down[c]
  IN  IF ~overrun /\ conn[c].life # "gone"
        THEN Whole(arrived \o Rest(conn[c]) \o up[c], client[c].sent)
        ELSE IsEcho(arrived, client[c].sent)

EchoInv == \A c \in Conns : EchoAt(c)

-----------------------------------------------------------------------------
\* Sequences of bytes may be put together in any grouping.
LEMMA ConcatAssoc == \A a, b, c \in Seq(Nat) : (a \o b) \o c = a \o (b \o c)
<1> SUFFICES ASSUME NEW a \in Seq(Nat), NEW b \in Seq(Nat), NEW c \in Seq(Nat)
             PROVE  (a \o b) \o c = a \o (b \o c)
  OBVIOUS
<1> QED
  BY ConcatAssociative

\* What is put together from sequences of bytes is one.
LEMMA ConcatTyped ==
  /\ \A a, b \in Seq(Nat) : a \o b \in Seq(Nat)
  /\ <<>> \in Seq(Nat) /\ <<0>> \in Seq(Nat)
OBVIOUS

\* Nothing is neutral.
LEMMA ConcatNeutral == \A a \in Seq(Nat) : a \o <<>> = a /\ <<>> \o a = a
BY ConcatEmptySeq

\* Of what comes back whole, what has arrived is right.
LEMMA WholeArrived ==
  ASSUME NEW a \in Seq(Nat), NEW y \in Seq(Nat), NEW u \in Seq(Nat), NEW s \in Seq(Nat),
         Whole(a \o y \o u, s)
  PROVE  IsEcho(a, s)
<1>1. a \o y \o u = a \o (y \o u)
  BY ConcatAssoc
<1>2. y \o u \in Seq(Nat) /\ <<>> \in Seq(Nat)
  BY ConcatTyped
<1>3. IsEcho(a \o (y \o u), s)
  BY <1>1 DEF Whole
<1>4. IsEcho(a, s \o <<>>)
  BY <1>2, <1>3, EchoPrefix
<1> QED
  BY <1>4, ConcatNeutral

\* What is sent later changes nothing of what has arrived.
LEMMA ArrivedLater ==
  ASSUME NEW a \in Seq(Nat), NEW s \in Seq(Nat), NEW l \in Seq(Nat), IsEcho(a, s)
  PROVE  IsEcho(a, s \o l)
<1>1. IsEcho(a \o <<>>, s)
  BY ConcatTyped, ConcatAssoc, ConcatNeutral
<1> QED
  BY <1>1, EchoPrefix, ConcatTyped, ConcatAssoc, ConcatNeutral

\* The server's own text may be anywhere.
LEMMA WholeInsert ==
  ASSUME NEW a \in Seq(Nat), NEW u \in Seq(Nat), NEW s \in Seq(Nat), Whole(a \o u, s)
  PROVE  Whole(a \o <<0>> \o u, s)
BY EchoInsert DEF Whole

\* A piece of the response x is written, y is left.
LEMMA WholeWritten ==
  ASSUME NEW a \in Seq(Nat), NEW b \in Seq(Nat), NEW x \in Seq(Nat), NEW y \in Seq(Nat),
         NEW u \in Seq(Nat), NEW s \in Seq(Nat), Whole(a \o b \o (x \o y) \o u, s)
  PROVE  Whole(a \o (b \o x) \o y \o u, s)
<1>1. a \o b \o (x \o y) = a \o (b \o x) \o y
  <2>1. a \o b \in Seq(Nat)
    BY ConcatTyped
  <2>2. a \o b \o (x \o y) = a \o b \o x \o y
    BY <2>1, ConcatAssoc
  <2>3. \A k \in Seq(Nat) : a \o b \o k = a \o (b \o k)
    BY ConcatAssoc, Zenon
  <2> QED
    BY <2>2, <2>3
<1> QED
  BY <1>1

\* A chunk x is read and becomes the response.
LEMMA WholeRead ==
  ASSUME NEW a \in Seq(Nat), NEW x \in Seq(Nat), NEW u \in Seq(Nat), NEW s \in Seq(Nat),
         Whole(a \o <<>> \o (x \o u), s)
  PROVE  Whole(a \o (<<0>> \o x \o <<0>>) \o u, s)
<1>1. Whole(a \o (x \o u), s) /\ x \o u \in Seq(Nat)
  BY ConcatTyped, ConcatAssoc, ConcatNeutral
<1>2. Whole(a \o <<0>> \o (x \o u), s)
  BY <1>1, WholeInsert
<1> DEFINE b == a \o <<0>>
<1>3. b \in Seq(Nat)
  BY ConcatTyped, ConcatAssoc, ConcatNeutral
<1>4. Whole(b \o (x \o u), s)
  BY <1>2
<1> HIDE DEF b
<1>5. Whole(b \o x \o u, s)
  <2>1. b \o x \o u = b \o (x \o u)
    BY <1>3, ConcatAssoc
  <2> QED
    BY <1>4, <2>1
<1>6. Whole(b \o x \o <<0>> \o u, s)
  <2>1. b \o x \in Seq(Nat)
    BY <1>3, ConcatTyped
  <2> QED
    BY <1>5, <2>1, WholeInsert
<1>7. b \o x \o <<0>> = a \o (<<0>> \o x \o <<0>>)
  <2>1. x \o <<0>> \in Seq(Nat) /\ <<0>> \in Seq(Nat)
    BY ConcatTyped
  <2>2. <<0>> \o x \o <<0>> = <<0>> \o (x \o <<0>>)
    BY <2>1, ConcatAssoc
  <2>3. b \o x \o <<0>> = b \o (x \o <<0>>)
    <3> DEFINE z == <<0>>
    <3>1. z \in Seq(Nat)
      BY <2>1
    <3> HIDE DEF z
    <3>2. \A k \in Seq(Nat) : (b \o x) \o k = b \o (x \o k)
      BY <1>3, ConcatAssoc, Zenon
    <3> QED
      BY <3>1, <3>2 DEF z
  <2>4. a \o <<0>> \o (x \o <<0>>) = a \o (<<0>> \o (x \o <<0>>))
    <3> DEFINE z == <<0>>
    <3>1. z \in Seq(Nat)
      BY <2>1
    <3> HIDE DEF z
    <3>2. x \o z \in Seq(Nat)
      BY <3>1, ConcatTyped
    <3>3. \A k \in Seq(Nat) : (a \o z) \o k = a \o (z \o k)
      BY <3>1, ConcatAssoc, Zenon
    <3> QED
      BY <3>2, <3>3 DEF z
  <2> QED
    BY <2>2, <2>3, <2>4 DEF b
<1> QED
  BY <1>6, <1>7

\* A connection that is accepted sends its first response.
LEMMA WholeAccepted ==
  ASSUME NEW a \in Seq(Nat), NEW u \in Seq(Nat), NEW s \in Seq(Nat),
         Whole(a \o <<>> \o u, s)
  PROVE  /\ Whole(a \o (<<0>> \o <<>> \o <<0>>) \o u, s)
         /\ Whole(a \o <<0>> \o u, s)
<1>1. Whole(a \o <<>> \o (<<>> \o u), s) /\ Whole(a \o u, s) /\ <<>> \in Seq(Nat)
  BY ConcatTyped, ConcatAssoc, ConcatNeutral
<1>2. Whole(a \o (<<0>> \o <<>> \o <<0>>) \o u, s)
  BY <1>1, WholeRead
<1> QED
  BY <1>1, <1>2, WholeInsert

\* A line is sent.
LEMMA WholeSent ==
  ASSUME NEW a \in Seq(Nat), NEW u \in Seq(Nat), NEW s \in Seq(Nat), NEW l \in Seq(Nat),
         \A k \in 1 .. Len(l) : l[k] # 0, Whole(a \o u, s)
  PROVE  Whole(a \o (u \o l), s \o l)
<1>1. a \o u \in Seq(Nat)
  BY ConcatTyped
<1>2. a \o u \o l = a \o (u \o l)
  BY ConcatAssoc
<1> DEFINE t == a \o u
<1>3. t \in Seq(Nat) /\ IsEcho(t, s) /\ Echoed(t, Len(t)) = Len(s)
  BY <1>1 DEF Whole
<1> HIDE DEF t
<1>4. Whole(t \o l, s \o l)
  BY <1>3, EchoAppend DEF Whole
<1> QED
  BY <1>2, <1>4 DEF t

-----------------------------------------------------------------------------
\* What is left of a response, and when a handler returns.
LEMMA RestReleased ==
  ASSUME Types, NEW r, OneOperation(r)
  PROVE  /\ Rest(r) \in Seq(Nat)
         /\ r.ops # {} => Rest(Release(r)) = Rest(r) /\ Release(r).life = "alive"
         /\ r.ops = {} => Release(r).life = "gone"
<1>1. r \in ConnObjects /\ r.self = r.ops
  BY DEF OneOperation
<1>2. Rest(r) \in Seq(Nat)
  <2>1. CASE "write" \in r.ops
    <3>1. r.ops = {"write"}
      BY <2>1 DEF OneOperation
    <3>2. /\ r.pos \in Nat /\ r.size \in Nat /\ r.size = Len(ResponseBytes(r))
          /\ ResponseBytes(r) \in Seq(Nat)
      BY <1>1, <3>1 DEF OneOperation, ResponseBytes, ConnObjects
    <3>3. r.pos + 1 \in Nat \ {0}
      BY <3>2
    <3> QED
      BY <2>1, <3>2, <3>3, SubSeqTyped DEF Rest
  <2>2. CASE "write" \notin r.ops
    BY <2>2 DEF Rest
  <2> QED
    BY <2>1, <2>2
<1>3. ASSUME r.ops # {} PROVE Rest(Release(r)) = Rest(r) /\ Release(r).life = "alive"
  <2> DEFINE q == [r EXCEPT !.life = "alive"]
  <2>1. Release(r) = q
    BY <1>1, <1>3 DEF Release
  <2>2. /\ q.ops = r.ops /\ q.pos = r.pos /\ q.size = r.size /\ q.data = r.data
        /\ q.text = r.text /\ q.life = "alive"
    BY <1>1 DEF ConnObjects
  <2> HIDE DEF q
  <2> QED
    BY <2>1, <2>2 DEF Rest, ResponseBytes
<1>4. ASSUME r.ops = {} PROVE Release(r).life = "gone"
  BY <1>1, <1>4 DEF Release, NewConn
<1> QED
  BY <1>2, <1>3, <1>4

\* The bytes of a connection are sequences.
LEMMA EchoTyped ==
  ASSUME IInv, NEW c \in Conns
  PROVE  /\ client[c].got \in Seq(Nat) /\ client[c].sent \in Seq(Nat)
         /\ up[c] \in Seq(Nat) /\ down[c] \in Seq(Nat)
         /\ client[c].got \o down[c] \in Seq(Nat)
         /\ Rest(conn[c]) \in Seq(Nat)
         /\ OneOperation(conn[c])
<1>1. Types /\ OneOperation(conn[c])
  BY DEF IInv
<1>2. client[c] \in ClientObjects /\ up[c] \in Seq(Nat) /\ down[c] \in Seq(Nat)
  BY <1>1 DEF Types
<1>3. client[c].got \in Seq(Nat) /\ client[c].sent \in Seq(Nat)
  BY <1>2 DEF ClientObjects
<1> QED
  BY <1>1, <1>2, <1>3, RestReleased, ConcatTyped

\* Served or not, what has arrived is right.
LEMMA ArrivedRight ==
  ASSUME IInv, NEW c \in Conns, EchoAt(c)
  PROVE  IsEcho(client[c].got \o down[c], client[c].sent)
<1> DEFINE a == client[c].got \o down[c]
           y == Rest(conn[c])
           u == up[c]
           t == client[c].sent
<1>1. a \in Seq(Nat) /\ y \in Seq(Nat) /\ u \in Seq(Nat) /\ t \in Seq(Nat)
  BY EchoTyped
<1>2. Whole(a \o y \o u, t) \/ IsEcho(a, t)
  BY DEF EchoAt
<1> HIDE DEF a, y, u, t
<1>3. IsEcho(a, t)
  BY <1>1, <1>2, WholeArrived
<1> QED
  BY <1>3 DEF a, t

\* What the two parts of the claim come to after a step.
LEMMA EchoAfter ==
  ASSUME NEW c \in Conns, UNCHANGED program,
         IsEcho(client'[c].got \o down'[c], client'[c].sent),
         ~overrun' /\ conn'[c].life # "gone" =>
           Whole(client'[c].got \o down'[c] \o Rest(conn'[c]) \o up'[c], client'[c].sent)
  PROVE  EchoAt(c)'
<1>1. Rest(conn[c])' = Rest(conn'[c])
  BY DEF Rest, ResponseBytes
<1>2. (Whole(client[c].got \o down[c] \o Rest(conn[c]) \o up[c], client[c].sent))' =
        Whole(client'[c].got \o down'[c] \o Rest(conn[c])' \o up'[c], client'[c].sent)
  BY DEF Whole, IsEcho, Echoed
<1>3. (IsEcho(client[c].got \o down[c], client[c].sent))' =
        IsEcho(client'[c].got \o down'[c], client'[c].sent)
  BY DEF IsEcho, Echoed
<1> QED
  BY <1>1, <1>2, <1>3, Zenon DEF EchoAt

\* A step of one connection leaves the others' bytes alone; at most it stops the
\* server for all of them.
LEMMA OneConnection ==
  ASSUME IInv, EchoInv, NEW c \in Conns, UNCHANGED program, overrun => overrun',
         \A d \in Conns \ {c} : /\ conn'[d] = conn[d] /\ client'[d] = client[d]
                                /\ up'[d] = up[d] /\ down'[d] = down[d],
         EchoAt(c)'
  PROVE  EchoInv'
<1> SUFFICES ASSUME NEW d \in Conns, d # c PROVE EchoAt(d)'
  BY DEF EchoInv
<1>1. EchoAt(d)
  BY DEF EchoInv
<1>2. IsEcho(client[d].got \o down[d], client[d].sent)
  BY <1>1, ArrivedRight
<1>3. /\ conn'[d] = conn[d] /\ client'[d] = client[d]
      /\ up'[d] = up[d] /\ down'[d] = down[d]
  OBVIOUS
<1>4. ~overrun' /\ conn'[d].life # "gone" =>
        Whole(client[d].got \o down[d] \o Rest(conn[d]) \o up[d], client[d].sent)
  BY <1>1, <1>3, Zenon DEF EchoAt
<1> QED
  BY <1>2, <1>3, <1>4, EchoAfter

\* The response to n bytes, as it is left to write.
LEMMA RestRespond ==
  ASSUME Types, NEW r, Idle(r), NEW n \in Nat, n <= Len(r.data),
         program = "daytime" => r.pos = 0
  PROVE  Rest(Release(Respond(r, n))) =
           IF program = "daytime" THEN <<0>> ELSE <<0>> \o SubSeq(r.data, 1, n) \o <<0>>
<1> DEFINE q == Respond(r, n)
           t == IF program = "daytime" THEN <<0>> ELSE Response(r, n)
<1>1. /\ OneOperation(q) /\ q.ops = {"write"} /\ q.pos = 0
      /\ q.size = Len(ResponseBytes(q))
      /\ ResponseBytes(q) = t
  BY RespondOne DEF Types
<1>2. t \in Seq(Nat)
  BY ResponseTyped, ConcatTyped DEF Idle, OneOperation
<1> HIDE DEF q, t
<1>3. Rest(Release(q)) = Rest(q)
  BY <1>1, RestReleased
<1>4. Rest(q) = SubSeq(t, 1, Len(t))
  BY <1>1 DEF Rest
<1>5. SubSeq(t, 1, Len(t)) = t
  BY <1>2, SubSeqFull
<1> QED
  BY <1>3, <1>4, <1>5 DEF t, q, Response

\* Nothing has been sent when nothing happened yet.
LEMMA InitEcho == Init => EchoInv
<1> SUFFICES ASSUME Init, NEW c \in Conns PROVE EchoAt(c)
  BY DEF EchoInv
<1>1. /\ client[c].got = <<>> /\ client[c].sent = <<>> /\ up[c] = <<>> /\ down[c] = <<>>
      /\ conn[c] = NewConn
  BY DEF Init
<1>2. Rest(conn[c]) = <<>>
  BY <1>1 DEF Rest, NewConn
<1>3. <<>> \o <<>> = <<>> /\ <<>> \in Seq(Nat)
  BY ConcatNeutral, ConcatTyped
<1>4. IsEcho(<<>>, <<>>)
  BY DEF IsEcho
<1>5. Echoed(<<>>, Len(<<>>)) = Len(<<>>)
  <2>1. Len(<<>>) = 0 /\ 1 .. 0 = {}
    OBVIOUS
  <2>2. {k \in 1 .. 0 : <<>>[k] # 0} = {}
    BY <2>1
  <2> QED
    BY <2>1, <2>2, FS_EmptySet DEF Echoed
<1> QED
  BY <1>1, <1>2, <1>3, <1>4, <1>5 DEF EchoAt, Whole

\* A client that is served gets back all that it sent.
LEMMA Served ==
  ASSUME IInv, EchoInv, NEW c \in Conns, ~overrun, conn[c].life # "gone"
  PROVE  Whole(client[c].got \o down[c] \o Rest(conn[c]) \o up[c], client[c].sent)
BY Zenon DEF EchoInv, EchoAt

\* The first response has nothing of the client's in it.
LEMMA AcceptEcho ==
  ASSUME IInv, EchoInv, NEW c \in Conns, ~overrun, Accept(c)
  PROVE  EchoInv'
<1>1. UNCHANGED <<program, overrun, client, up, down>>
  BY DEF Accept
<1>2. conn[c] = NewConn /\ conn[c].life # "gone" /\ conn \in [Conns -> ConnObjects]
  BY DEF Accept, IInv, Types
<1>3. Types /\ Idle(NewConn)
  BY NewConnIdle DEF IInv
<1> DEFINE a == client[c].got \o down[c]
           u == up[c]
           t == client[c].sent
<1>4. a \in Seq(Nat) /\ u \in Seq(Nat) /\ t \in Seq(Nat)
  BY EchoTyped
<1>5. Whole(a \o <<>> \o u, t)
  <2>1. Rest(conn[c]) = <<>>
    BY <1>2 DEF Rest, NewConn
  <2> QED
    BY <1>2, <2>1, Served
<1>6. IsEcho(a, t)
  BY ArrivedRight DEF EchoInv
<1> HIDE DEF a, u, t
<1>7. /\ Whole(a \o (<<0>> \o <<>> \o <<0>>) \o u, t)
      /\ Whole(a \o <<0>> \o u, t)
  BY <1>4, <1>5, WholeAccepted
<1>8. conn'[c].life # "gone" => Whole(a \o Rest(conn'[c]) \o u, t)
  <2>1. ASSUME conn' = [conn EXCEPT ![c] = Release(Respond(@, 0))]
        PROVE  Whole(a \o Rest(conn'[c]) \o u, t)
    <3>1. conn'[c] = Release(Respond(NewConn, 0))
      BY <1>2, <2>1
    <3>2. NewConn.data = <<>> /\ NewConn.pos = 0 /\ 0 <= Len(NewConn.data)
      BY DEF NewConn
    <3>3. SubSeq(NewConn.data, 1, 0) = <<>>
      BY <3>2, SubSeqEmpty
    <3>4. Rest(conn'[c]) = IF program = "daytime" THEN <<0>> ELSE <<0>> \o <<>> \o <<0>>
      <4>1. Rest(Release(Respond(NewConn, 0))) =
              IF program = "daytime" THEN <<0>>
              ELSE <<0>> \o SubSeq(NewConn.data, 1, 0) \o <<0>>
        <5>1. 0 \in Nat
          OBVIOUS
        <5> QED
          BY <1>3, <3>2, <5>1, RestRespond, Zenon
      <4> QED
        BY <3>1, <3>3, <4>1, Zenon
    <3> QED
      BY <1>7, <3>4, Zenon
  <2>2. ASSUME conn' = [conn EXCEPT ![c].life = "gone"]
        PROVE  conn'[c].life = "gone"
    BY <1>2, <2>2 DEF ConnObjects
  <2> QED
    BY <2>1, <2>2 DEF Accept
<1>9. EchoAt(c)'
  BY <1>1, <1>6, <1>8, EchoAfter DEF a, u, t
<1>10. \A d \in Conns \ {c} : conn'[d] = conn[d]
  BY <1>2 DEF Accept
<1> QED
  BY <1>1, <1>9, <1>10, OneConnection

\* What is written is what was left, in order, and what is left follows it.
LEMMA WriteSomeEcho ==
  ASSUME IInv, EchoInv, NEW c \in Conns, ~overrun, WriteSome(c)
  PROVE  EchoInv'
<1> DEFINE r == conn[c]
           done == Completed(c, "write")
           bytes == ResponseBytes(r)
<1>1. UNCHANGED <<program, accepting, overrun, client, up>>
  BY DEF WriteSome
<1>2. Types /\ OneOperation(r) /\ program \in Programs /\ conn \in [Conns -> ConnObjects]
  BY DEF IInv, Types
<1>3. r.pos \in Nat /\ r.size \in Nat /\ bytes \in Seq(Nat)
  BY <1>2 DEF OneOperation, ConnObjects, ResponseBytes
<1>4. "write" \in r.ops /\ r.ops = {"write"} /\ r.life = "alive"
  BY <1>2 DEF WriteSome, OneOperation, IInv, HandlerKeepsConnection
<1>5. r.pos < r.size /\ r.size = Len(bytes) /\ (program = "daytime" => r.size = 1)
  BY <1>2, <1>4 DEF OneOperation
<1>6. Idle(done) /\ done.pos = r.pos /\ done.size = r.size
      /\ ResponseBytes(done) = bytes
  BY <1>2, <1>4, CompletedIdle DEF ResponseBytes
<1>7. PICK n \in 1 .. r.size - r.pos :
        /\ down' = [down EXCEPT ![c] = @ \o SubSeq(bytes, r.pos + 1, r.pos + n)]
        /\ Return(c, IF r.pos + n = r.size THEN onWrite(done)
                     ELSE allocate([done EXCEPT !.ops = @ \cup {"write"}, !.pos = @ + n,
                                                !.self = @ \cup {"write"}], "write"))
  BY DEF WriteSome, ResponseBytes
<1>8. n \in Nat /\ n # 0 /\ r.pos + n <= r.size
  BY <1>3, <1>7
<1> DEFINE x == SubSeq(bytes, r.pos + 1, r.pos + n)
           y == SubSeq(bytes, r.pos + n + 1, r.size)
           a == client[c].got
           b == down[c]
           u == up[c]
           t == client[c].sent
<1>9. /\ a \in Seq(Nat) /\ b \in Seq(Nat) /\ u \in Seq(Nat) /\ t \in Seq(Nat)
      /\ down \in [Conns -> Seq(Nat)]
  BY <1>2, EchoTyped DEF Types
<1>10. Whole(a \o b \o Rest(r) \o u, t)
  BY <1>4, Served
<1> HIDE DEF bytes, done
<1>11. x \in Seq(Nat) /\ y \in Seq(Nat) /\ Rest(r) = x \o y
  <2> DEFINE m == r.pos + 1
             k == r.pos + n
  <2>0. \A p, l, w \in Nat : w # 0 /\ p < l /\ p + w <= l =>
          /\ p + 1 \in Nat \ {0} /\ p + w \in Nat /\ p + w + 1 \in Nat \ {0}
          /\ p + 1 \in 1 .. l + 1 /\ p + w \in p + 1 - 1 .. l /\ l \in p + w .. l
    OBVIOUS
  <2>1. /\ m \in Nat \ {0} /\ k \in Nat /\ k + 1 \in Nat \ {0}
        /\ k <= Len(bytes) /\ r.size <= Len(bytes)
    <3> HIDE DEF r
    <3>1. m \in Nat \ {0} /\ k \in Nat /\ k + 1 \in Nat \ {0}
      BY <1>3, <1>5, <1>8, <2>0
    <3>2. k <= Len(bytes) /\ r.size <= Len(bytes)
      BY <1>3, <1>5, <1>8
    <3> QED
      BY <3>1, <3>2
  <2>2. x \in Seq(Nat) /\ y \in Seq(Nat)
    BY <1>3, <2>1, SubSeqTyped
  <2>3. m \in 1 .. Len(bytes) + 1 /\ k \in m - 1 .. Len(bytes) /\ r.size \in k .. Len(bytes)
    <3> DEFINE p == r.pos
               l == r.size
    <3>1. p \in Nat /\ l \in Nat /\ n \in Nat /\ n # 0 /\ p < l /\ p + n <= l
          /\ l = Len(bytes)
      BY <1>3, <1>5, <1>8
    <3> HIDE DEF p, l, r
    <3>2. p + 1 \in 1 .. l + 1 /\ p + n \in p + 1 - 1 .. l /\ l \in p + n .. l
      BY <2>0, <3>1
    <3> QED
      BY <3>1, <3>2 DEF p, l
  <2>4. SubSeq(bytes, m, k) \o SubSeq(bytes, k + 1, r.size) = SubSeq(bytes, m, r.size)
    <3> HIDE DEF m, k, r
    <3> QED
      BY <1>3, <2>3, ConcatAdjacentSubSeq
  <2>5. Rest(r) = SubSeq(bytes, m, r.size)
    BY <1>4 DEF Rest, bytes
  <2> QED
    BY <2>2, <2>4, <2>5
<1>12. /\ conn'[c].life # "gone" => Rest(conn'[c]) = y
       /\ \A d \in Conns \ {c} : conn'[d] = conn[d]
  <2> HIDE DEF x, y, a, b, u, t
  <2>1. ASSUME r.pos + n = r.size
        PROVE  /\ conn'[c].life # "gone" => Rest(conn'[c]) = y
               /\ \A d \in Conns \ {c} : conn'[d] = conn[d]
    <3>1. conn' = [conn EXCEPT ![c] = Release(onWrite(done))]
      BY <1>7, <2>1 DEF Return
    <3>2. conn'[c] = Release(onWrite(done)) /\ \A d \in Conns \ {c} : conn'[d] = conn[d]
      BY <1>2, <3>1
    <3>3. OneOperation(onWrite(done)) /\ "write" \notin onWrite(done).ops
      BY <1>6, DoReadOne DEF onWrite, Idle
    <3>4. Rest(onWrite(done)) = <<>>
      BY <3>3 DEF Rest
    <3>5. y = <<>>
      BY <1>3, <2>1, SubSeqEmpty DEF y
    <3> QED
      BY <1>2, <3>2, <3>3, <3>4, <3>5, RestReleased
  <2>2. ASSUME r.pos + n # r.size
        PROVE  /\ Rest(conn'[c]) = y
               /\ \A d \in Conns \ {c} : conn'[d] = conn[d]
    <3> DEFINE q == allocate([done EXCEPT !.ops = @ \cup {"write"}, !.pos = @ + n,
                                          !.self = @ \cup {"write"}], "write")
    <3>1. conn' = [conn EXCEPT ![c] = Release(q)]
      BY <1>7, <2>2 DEF Return
    <3>2. conn'[c] = Release(q) /\ \A d \in Conns \ {c} : conn'[d] = conn[d]
      BY <1>2, <3>1
    <3>3. done.pos + n < done.size /\ done.size = Len(ResponseBytes(done))
          /\ program # "daytime"
      <4>1. \A p, m, k \in Nat : m # 0 /\ p + m <= k /\ p + m # k => p + m < k /\ k # 1
        OBVIOUS
      <4>2. r.pos + n < r.size /\ r.size # 1
        BY <1>3, <1>8, <2>2, <4>1
      <4> QED
        BY <1>5, <1>6, <4>2
    <3>4. /\ OneOperation(q) /\ q.ops = {"write"}
          /\ q.pos = done.pos + n /\ q.size = done.size
          /\ ResponseBytes(q) = ResponseBytes(done)
      BY <1>2, <1>6, <1>8, <3>3, WriteAgainOne
    <3> HIDE DEF q
    <3>5. Rest(q) = y
      BY <1>6, <3>4 DEF Rest, y
    <3> QED
      BY <1>2, <3>2, <3>4, <3>5, RestReleased
  <2> QED
    BY <2>1, <2>2
<1>13. down'[c] = b \o x /\ \A d \in Conns \ {c} : down'[d] = down[d]
  BY <1>7, <1>9
<1> HIDE DEF x, y, a, b, u, t
<1>14. Whole(a \o (b \o x) \o y \o u, t)
  BY <1>9, <1>10, <1>11, WholeWritten
<1>15. IsEcho(a \o (b \o x), t)
  <2>1. b \o x \in Seq(Nat)
    BY <1>9, <1>11, ConcatTyped
  <2>2. a \o (b \o x) \in Seq(Nat)
    BY <1>9, <2>1, ConcatTyped
  <2> QED
    BY <1>9, <1>11, <1>14, <2>2, WholeArrived
<1>16. EchoAt(c)'
  <2>1. client'[c].got = a /\ client'[c].sent = t /\ up'[c] = u
    BY <1>1 DEF a, t, u
  <2> QED
    BY <1>1, <1>12, <1>13, <1>14, <1>15, <2>1, EchoAfter
<1> QED
  BY <1>1, <1>12, <1>13, <1>16, OneConnection

\* The chunk that is read is what comes next, and it is all that is answered.
LEMMA ReadSomeEcho ==
  ASSUME IInv, EchoInv, NEW c \in Conns, ~overrun, ReadSome(c)
  PROVE  EchoInv'
<1> DEFINE r == conn[c]
           done == Completed(c, "read")
           chunk(n) == SubSeq(up[c], 1, n)
           put(q, n) == [q EXCEPT !.data = chunk(n) \o SubSeq(@, n + 1, Len(@))]
<1>1. UNCHANGED <<program, accepting, client, down>>
  BY DEF ReadSome
<1>2. Types /\ OneOperation(r) /\ program \in Programs /\ conn \in [Conns -> ConnObjects]
  BY DEF IInv, Types
<1>3. "read" \in r.ops /\ r.ops = {"read"} /\ program # "daytime" /\ r.life = "alive"
  BY <1>2 DEF ReadSome, OneOperation, IInv, HandlerKeepsConnection
<1>4. Idle(done)
  BY <1>2, <1>3, CompletedIdle
<1>5. PICK n \in 1 .. Capacity :
        /\ n <= Len(up[c])
        /\ up' = [up EXCEPT ![c] = SubSeq(@, n + 1, Len(@))]
        /\ (overrun' /\ UNCHANGED conn) \/ Return(c, Respond(put(done, n), n))
  BY DEF ReadSome
<1>6. up \in [Conns -> Seq(Nat)] /\ up[c] \in Seq(Nat) /\ Len(up[c]) \in Nat
      /\ n \in Nat /\ n # 0
  <2>1. up \in [Conns -> Seq(Nat)]
    BY <1>2 DEF Types
  <2>2. up[c] \in Seq(Nat)
    BY <2>1, Zenon
  <2>3. Len(up[c]) \in Nat
    BY <2>2, LenProperties
  <2>4. Capacity \in Nat
    BY EchoAssumption
  <2>5. n \in Nat /\ n # 0
    BY <2>4
  <2> QED
    BY <2>1, <2>2, <2>3, <2>5
<1> DEFINE x == chunk(n)
           u == SubSeq(up[c], n + 1, Len(up[c]))
           a == client[c].got \o down[c]
           t == client[c].sent
<1>7. x \in Seq(Nat) /\ Len(x) = n /\ u \in Seq(Nat)
  <2>1. 1 \in Nat \ {0} /\ n + 1 \in Nat \ {0} /\ Len(up[c]) <= Len(up[c])
    BY <1>6
  <2>2. x \in Seq(Nat) /\ Len(x) = n
    BY <1>5, <1>6, <2>1, SubSeqTyped
  <2>3. u \in Seq(Nat)
    BY <1>6, <2>1, SubSeqTyped
  <2> QED
    BY <2>2, <2>3
<1>8. up[c] = x \o u
  <2>1. 1 \in 1 .. Len(up[c]) + 1 /\ n \in 1 - 1 .. Len(up[c]) /\ Len(up[c]) \in n .. Len(up[c])
    BY <1>5, <1>6
  <2>2. x \o u = SubSeq(up[c], 1, Len(up[c]))
    BY <1>6, <2>1, ConcatAdjacentSubSeq
  <2> QED
    BY <1>6, <2>2, SubSeqFull
<1>9. a \in Seq(Nat) /\ t \in Seq(Nat)
  BY EchoTyped
<1>10. Whole(a \o <<>> \o up[c], t)
  <2>1. Rest(r) = <<>>
    BY <1>3 DEF Rest
  <2> QED
    BY <1>3, <2>1, Served
<1>11. IsEcho(a, t)
  BY ArrivedRight DEF EchoInv
<1>12. up'[c] = u /\ \A d \in Conns \ {c} : up'[d] = up[d]
  BY <1>5, <1>6
<1> HIDE DEF r, done, chunk, a, t, u, x
<1>13. done \in ConnObjects /\ done.data \in Seq(Nat) /\ Len(done.data) \in Nat
  BY <1>4 DEF Idle, OneOperation, ConnObjects
<1> DEFINE data == x \o SubSeq(done.data, n + 1, Len(done.data))
           q == put(done, n)
<1>14. data \in Seq(Nat) /\ n <= Len(data) /\ SubSeq(data, 1, n) = x
  <2> DEFINE z == SubSeq(done.data, n + 1, Len(done.data))
  <2>1. z \in Seq(Nat)
    BY <1>6, <1>13, SubSeqTyped
  <2> HIDE DEF z
  <2>2. 1 \in 1 .. Len(x) /\ n \in 1 .. Len(x)
    BY <1>6, <1>7
  <2>3. SubSeq(x \o z, 1, n) = SubSeq(x, 1, n)
    BY <1>7, <2>1, <2>2, SubSeqOfConcat1
  <2>4. SubSeq(x, 1, n) = x
    BY <1>7, SubSeqFull
  <2>5. x \o z \in Seq(Nat) /\ n <= Len(x \o z)
    BY <1>6, <1>7, <2>1
  <2> QED
    BY <2>3, <2>4, <2>5 DEF z
<1>15. q = [done EXCEPT !.data = data]
  BY <1>13 DEF ConnObjects, x
<1> HIDE DEF data, put, q
<1>16. q \in ConnObjects /\ q.data = data
  BY <1>13, <1>14, <1>15 DEF ConnObjects
<1>17. q.ops = done.ops /\ q.self = done.self
       /\ q.heap = done.heap /\ q.in_use = done.in_use
  BY <1>13, <1>15 DEF ConnObjects
<1>18. Idle(q)
  BY <1>4, <1>16, <1>17 DEF Idle, OneOperation, Stored
<1>19. Rest(Release(Respond(q, n))) = <<0>> \o x \o <<0>>
  <2>1. Rest(Release(Respond(q, n))) =
          IF program = "daytime" THEN <<0>> ELSE <<0>> \o SubSeq(q.data, 1, n) \o <<0>>
    BY <1>2, <1>3, <1>6, <1>14, <1>16, <1>18, RestRespond
  <2> QED
    BY <1>3, <1>14, <1>16, <2>1
<1>20. Whole(a \o (<<0>> \o x \o <<0>>) \o u, t)
  BY <1>7, <1>8, <1>9, <1>10, WholeRead
<1>21. /\ ~overrun' => Rest(conn'[c]) = <<0>> \o x \o <<0>>
       /\ \A d \in Conns \ {c} : conn'[d] = conn[d]
  <2>1. ASSUME Return(c, Respond(q, n))
        PROVE  /\ Rest(conn'[c]) = <<0>> \o x \o <<0>>
               /\ \A d \in Conns \ {c} : conn'[d] = conn[d]
    <3>1. conn' = [conn EXCEPT ![c] = Release(Respond(q, n))]
      BY <2>1 DEF Return
    <3>2. conn'[c] = Release(Respond(q, n)) /\ \A d \in Conns \ {c} : conn'[d] = conn[d]
      BY <1>2, <3>1
    <3> QED
      BY <1>19, <3>2
  <2>2. ASSUME overrun', UNCHANGED conn
        PROVE  /\ ~overrun' => Rest(conn'[c]) = <<0>> \o x \o <<0>>
               /\ \A d \in Conns \ {c} : conn'[d] = conn[d]
    BY <2>2, Zenon
  <2> QED
    BY <1>5, <2>1, <2>2, Zenon DEF q
<1>22. EchoAt(c)'
  <2>1. client'[c].got \o down'[c] = a /\ client'[c].sent = t
    BY <1>1 DEF a, t
  <2>2. ~overrun' => Whole(a \o Rest(conn'[c]) \o u, t)
    BY <1>20, <1>21, Zenon
  <2> QED
    BY <1>1, <1>11, <1>12, <2>1, <2>2, EchoAfter
<1>23. \A d \in Conns \ {c} : /\ conn'[d] = conn[d] /\ client'[d] = client[d]
                              /\ up'[d] = up[d] /\ down'[d] = down[d]
  BY <1>1, <1>12, <1>21
<1> QED
  BY <1>1, <1>22, <1>23, OneConnection

\* A connection that fails is lost, with what it had not written.
LEMMA FailEcho ==
  ASSUME IInv, EchoInv, NEW c \in Conns, ~overrun, Fail(c)
  PROVE  EchoInv'
<1>1. UNCHANGED <<program, overrun, client, up, down>>
  BY DEF Fail
<1>2. Types /\ OneOperation(conn[c]) /\ conn \in [Conns -> ConnObjects]
  BY DEF IInv, Types
<1>3. PICK op \in conn[c].ops : Return(c, Completed(c, op))
  BY DEF Fail
<1>4. OneOperation(Completed(c, op)) /\ Completed(c, op).ops = {}
  BY <1>2, CompletedIdle DEF Idle
<1>5. conn'[c] = Release(Completed(c, op)) /\ \A d \in Conns \ {c} : conn'[d] = conn[d]
  BY <1>2, <1>3 DEF Return
<1>6. conn'[c].life = "gone"
  <2> DEFINE q == Completed(c, op)
  <2>1. OneOperation(q) /\ q.ops = {} /\ conn'[c] = Release(q)
    BY <1>4, <1>5
  <2> HIDE DEF q
  <2> QED
    BY <1>2, <2>1, RestReleased
<1>7. IsEcho(client[c].got \o down[c], client[c].sent)
  BY ArrivedRight DEF EchoInv
<1>8. EchoAt(c)'
  BY <1>1, <1>6, <1>7, EchoAfter
<1> QED
  BY <1>1, <1>5, <1>8, OneConnection

\* A client that only goes on, or takes what has arrived.
LEMMA QuietEcho ==
  ASSUME IInv, EchoInv, NEW c \in Conns, UNCHANGED <<program, overrun, conn, up>>,
         client'[c].got \o down'[c] = client[c].got \o down[c],
         client'[c].sent = client[c].sent,
         \A d \in Conns \ {c} : client'[d] = client[d] /\ down'[d] = down[d]
  PROVE  EchoInv'
<1>1. IsEcho(client[c].got \o down[c], client[c].sent)
  BY ArrivedRight DEF EchoInv
<1>2. ~overrun /\ conn[c].life # "gone" =>
        Whole(client[c].got \o down[c] \o Rest(conn[c]) \o up[c], client[c].sent)
  BY Served
<1>3. EchoAt(c)'
  BY <1>1, <1>2, EchoAfter
<1> QED
  BY <1>3, OneConnection

\* What the client sends goes behind everything else.
LEMMA LineEcho ==
  ASSUME IInv, EchoInv, NEW c \in Conns, UNCHANGED <<program, overrun, conn, down>>,
         NEW l \in Seq(Nat), \A k \in 1 .. Len(l) : l[k] # 0,
         client'[c].got = client[c].got, client'[c].sent = client[c].sent \o l,
         up'[c] = up[c] \o l,
         \A d \in Conns \ {c} : client'[d] = client[d] /\ up'[d] = up[d]
  PROVE  EchoInv'
<1> DEFINE a == client[c].got \o down[c]
           y == Rest(conn[c])
           u == up[c]
           t == client[c].sent
<1>1. a \in Seq(Nat) /\ y \in Seq(Nat) /\ u \in Seq(Nat) /\ t \in Seq(Nat)
  BY EchoTyped
<1>2. IsEcho(a, t)
  BY ArrivedRight DEF EchoInv
<1>3. ~overrun /\ conn[c].life # "gone" => Whole(a \o y \o u, t)
  BY Served
<1>4. client'[c].got \o down'[c] = a /\ conn'[c] = conn[c] /\ Rest(conn'[c]) = y
  OBVIOUS
<1>5. up'[c] = u \o l /\ client'[c].sent = t \o l
  OBVIOUS
<1> HIDE DEF a, y, u, t
<1>6. IsEcho(a, t \o l)
  BY <1>1, <1>2, ArrivedLater
<1>7. ASSUME ~overrun, conn[c].life # "gone"
      PROVE  Whole(a \o y \o (u \o l), t \o l)
  <2>1. a \o y \in Seq(Nat)
    BY <1>1, ConcatTyped
  <2> QED
    BY <1>1, <1>3, <1>7, <2>1, WholeSent
<1>8. ~overrun' /\ conn'[c].life # "gone" => Whole(a \o y \o (u \o l), t \o l)
  BY <1>7, <1>4, Zenon
<1>9. EchoAt(c)'
  BY <1>4, <1>5, <1>6, <1>8, EchoAfter
<1> QED
  BY <1>9, OneConnection

\* The client sends lines of bytes that are not the server's text, and takes what
\* has arrived from its beginning.
LEMMA ClientEcho ==
  ASSUME IInv, EchoInv, NEW c \in Conns, Client(c)
  PROVE  EchoInv'
<1>1. UNCHANGED <<program, accepting, overrun, conn>>
  BY DEF Client
<1>2. /\ client \in [Conns -> ClientObjects] /\ client[c] \in ClientObjects
      /\ up \in [Conns -> Seq(Nat)] /\ up[c] \in Seq(Nat)
      /\ down \in [Conns -> Seq(Nat)] /\ down[c] \in Seq(Nat) /\ Len(down[c]) \in Nat
      /\ client[c].got \in Seq(Nat)
  BY DEF IInv, Types, ClientObjects
<1>3. ASSUME NEW from, NEW to, Go(c, from, to), UNCHANGED <<up, down>>
      PROVE  EchoInv'
  <2>1. client' = [client EXCEPT ![c] = [client[c] EXCEPT !.pc = to]]
    BY <1>2, <1>3 DEF Go
  <2>2. /\ client'[c].got = client[c].got /\ client'[c].sent = client[c].sent
        /\ \A d \in Conns \ {c} : client'[d] = client[d]
    BY <1>2, <2>1 DEF ClientObjects
  <2> QED
    BY <1>1, <1>3, <2>2, QuietEcho
<1>4. CASE Connect(c)
  <2>1. Go(c, "connect", "hello") /\ UNCHANGED <<up, down>>
    BY <1>4 DEF Connect
  <2> QED
    BY <1>3, <2>1
<1>5. CASE talkToServer(c)
  <2> DEFINE line(n) == [i \in 1 .. n |-> client[c].lines + 1]
  <2>1. UNCHANGED down
    BY <1>5 DEF talkToServer
  <2>2. ASSUME NEW n \in 1 .. MaxLine,
               client' = [client EXCEPT ![c].pc = "read", ![c].lines = @ + 1,
                                        ![c].sent = @ \o line(n)],
               up' = [up EXCEPT ![c] = @ \o line(n)]
        PROVE  EchoInv'
    <3>1. n \in Nat /\ client[c].lines + 1 \in Nat /\ client[c].lines + 1 # 0
      BY <1>2, EchoAssumption DEF ClientObjects
    <3>2. line(n) \in Seq(Nat) /\ \A k \in 1 .. Len(line(n)) : line(n)[k] # 0
      BY <3>1
    <3> DEFINE l == line(n)
               k == client[c].lines + 1
               t == client[c].sent \o l
               q == [client[c] EXCEPT !.pc = "read", !.lines = k, !.sent = t]
    <3>3. client' = [client EXCEPT ![c] = q]
      BY <1>2, <2>2
    <3> HIDE DEF line, l, k, t
    <3>4. q.got = client[c].got /\ q.sent = t
      BY <1>2 DEF ClientObjects
    <3> HIDE DEF q
    <3>5. /\ client'[c].got = client[c].got /\ client'[c].sent = t
          /\ \A d \in Conns \ {c} : client'[d] = client[d]
      BY <1>2, <3>3, <3>4
    <3>6. up'[c] = up[c] \o l /\ \A d \in Conns \ {c} : up'[d] = up[d]
      BY <1>2, <2>2 DEF l
    <3>7. l \in Seq(Nat) /\ \A m \in 1 .. Len(l) : l[m] # 0
      BY <3>2 DEF l
    <3> QED
      BY <1>1, <2>1, <3>5, <3>6, <3>7, LineEcho DEF t
  <2>3. ASSUME Go(c, "talk", "quit"), UNCHANGED up
        PROVE  EchoInv'
    BY <1>3, <2>1, <2>3
  <2> HIDE DEF line
  <2> QED
    BY <1>5, <2>2, <2>3 DEF talkToServer, line
<1>6. CASE readFromServer(c)
  <2>1. UNCHANGED up
    BY <1>6 DEF readFromServer
  <2>2. ASSUME NEW n \in 1 .. ClientBuf, n <= Len(down[c]),
               client' = [client EXCEPT ![c].pc = "talk",
                                        ![c].got = @ \o SubSeq(down[c], 1, n)],
               down' = [down EXCEPT ![c] = SubSeq(@, n + 1, Len(@))]
        PROVE  EchoInv'
    <3> DEFINE x == SubSeq(down[c], 1, n)
               y == SubSeq(down[c], n + 1, Len(down[c]))
               g == client[c].got \o x
               q == [client[c] EXCEPT !.pc = "talk", !.got = g]
    <3>1. n \in Nat /\ n # 0
      BY EchoAssumption
    <3>2. x \in Seq(Nat) /\ y \in Seq(Nat)
      <4>1. n + 1 \in Nat \ {0} /\ Len(down[c]) <= Len(down[c]) /\ 1 \in Nat \ {0}
        BY <1>2, <3>1
      <4>2. x \in Seq(Nat)
        BY <1>2, <2>2, <3>1, <4>1, SubSeqTyped
      <4>3. y \in Seq(Nat)
        BY <1>2, <4>1, SubSeqTyped
      <4> QED
        BY <4>2, <4>3
    <3>3. down[c] = x \o y
      <4>1. /\ 1 \in 1 .. Len(down[c]) + 1 /\ n \in 1 - 1 .. Len(down[c])
            /\ Len(down[c]) \in n .. Len(down[c])
        BY <1>2, <2>2, <3>1
      <4>2. x \o y = SubSeq(down[c], 1, Len(down[c]))
        BY <1>2, <4>1, ConcatAdjacentSubSeq
      <4> QED
        BY <1>2, <4>2, SubSeqFull
    <3>4. down'[c] = y /\ \A d \in Conns \ {c} : down'[d] = down[d]
      BY <1>2, <2>2
    <3>5. client' = [client EXCEPT ![c] = q]
      BY <1>2, <2>2
    <3> HIDE DEF x, y, g
    <3>6. q.got = g /\ q.sent = client[c].sent
      BY <1>2 DEF ClientObjects
    <3> HIDE DEF q
    <3>7. /\ client'[c].got = g /\ client'[c].sent = client[c].sent
          /\ \A d \in Conns \ {c} : client'[d] = client[d]
      BY <1>2, <3>5, <3>6
    <3>8. g \o y = client[c].got \o down[c]
      <4>1. client[c].got \o x \o y = client[c].got \o (x \o y)
        BY <1>2, <3>2, ConcatAssoc
      <4> QED
        BY <3>3, <4>1 DEF g
    <3> QED
      BY <1>1, <2>1, <3>4, <3>7, <3>8, QuietEcho
  <2>3. ASSUME UNCHANGED down,
               Go(c, client[c].pc, "quit") \/ Go(c, "hello", "abort")
        PROVE  EchoInv'
    BY <1>3, <2>1, <2>3
  <2> QED
    BY <1>6, <2>2, <2>3 DEF readFromServer
<1> QED
  BY <1>4, <1>5, <1>6 DEF Client

\* What comes back to a client, the server's own text left out, is the beginning
\* of what the client sent, byte by byte: for every number of clients, every
\* length of the lines and every size of data_ and of the reads and writes, in
\* the server that answers from data_ and in the one that answers from a shared
\* buffer.
THEOREM EchoesInOrder == Spec => []EchoIntact
<1>1. IInv /\ EchoInv /\ [Next]_vars => EchoInv'
  <2> SUFFICES ASSUME IInv, EchoInv, [Next]_vars PROVE EchoInv'
    OBVIOUS
  <2>1. CASE UNCHANGED vars
    <3> SUFFICES ASSUME NEW c \in Conns PROVE EchoAt(c)'
      BY DEF EchoInv
    <3>1. UNCHANGED <<program, overrun, conn, client, up, down>>
      BY <2>1 DEF vars
    <3>2. IsEcho(client[c].got \o down[c], client[c].sent)
      BY ArrivedRight DEF EchoInv
    <3>3. ~overrun /\ conn[c].life # "gone" =>
            Whole(client[c].got \o down[c] \o Rest(conn[c]) \o up[c], client[c].sent)
      BY Served
    <3> QED
      BY <3>1, <3>2, <3>3, EchoAfter
  <2>2. CASE Next
    <3>1. PICK c \in Conns : Server(c) \/ Client(c)
      BY <2>2 DEF Next
    <3>2. CASE Server(c)
      BY <3>2, AcceptEcho, WriteSomeEcho, ReadSomeEcho, FailEcho DEF Server
    <3>3. CASE Client(c)
      BY <3>3, ClientEcho
    <3> QED
      BY <3>1, <3>2, <3>3
  <2> QED
    BY <2>1, <2>2
<1>2. IInv /\ EchoInv => EchoIntact
  BY ArrivedRight DEF EchoInv, EchoIntact
<1> QED
  BY <1>1, <1>2, InitEcho, InductiveInvariant, PTL DEF Spec
===============================================================================
