----------------------------- MODULE TftpProofs -----------------------------
(***************************************************************************)
(* That a TFTP transfer is never more than a block ahead of its client,    *)
(* that one that ends with an ACK has delivered everything, that no packet *)
(* is sent more often than the retry limit allows, and that the pending    *)
(* packet always has a timer, whose tries run out: for any payload, any    *)
(* retry limit and any number of requests.                                 *)
(***************************************************************************)
EXTENDS Tftp, SequenceTheorems, FiniteSetTheorems, TLAPS

-----------------------------------------------------------------------------
(* The timers.                                                             *)

\* Where in a queue the j-th call was before the i-th was removed.
Before(i, j) == IF j < i THEN j ELSE j + 1

LEMMA RemovedCalls ==
    ASSUME NEW S, NEW q \in Seq(S), NEW i \in 1 .. Len(q)
    PROVE  /\ RemoveAt(q, i) \in Seq(S) /\ DOMAIN RemoveAt(q, i) = 1 .. Len(q) - 1
           /\ \A j \in 1 .. Len(q) - 1 :
                 /\ Before(i, j) \in DOMAIN q \ {i}
                 /\ RemoveAt(q, i)[j] = q[Before(i, j)]
  <1>. DEFINE a == SubSeq(q, 1, i - 1)
              b == SubSeq(q, i + 1, Len(q))
  <1>1. Len(q) \in Nat /\ \A j \in 1 .. Len(q) : q[j] \in S
    OBVIOUS
  <1>2. a \in Seq(S) /\ Len(a) = i - 1 /\ \A j \in 1 .. i - 1 : a[j] = q[j]
    <2>1. i - 1 \in Int /\ \A j \in 1 .. i - 1 : q[j] \in S
      BY <1>1
    <2>2. /\ a \in Seq(S) /\ Len(a) = IF 1 <= i - 1 THEN i - 1 - 1 + 1 ELSE 0
          /\ \A j \in 1 .. i - 1 - 1 + 1 : a[j] = q[1 + j - 1]
      BY <2>1, SubSeqProperties
    <2>. QED  BY <1>1, <2>2
  <1>3. /\ b \in Seq(S) /\ Len(b) = Len(q) - i
        /\ \A j \in 1 .. Len(q) - i : b[j] = q[i + j]
    <2>1. i + 1 \in Int /\ Len(q) \in Int /\ \A j \in i + 1 .. Len(q) : q[j] \in S
      BY <1>1
    <2>2. /\ b \in Seq(S)
          /\ Len(b) = IF i + 1 <= Len(q) THEN Len(q) - (i + 1) + 1 ELSE 0
          /\ \A j \in 1 .. Len(q) - (i + 1) + 1 : b[j] = q[i + 1 + j - 1]
      BY <2>1, SubSeqProperties
    <2>. QED  BY <1>1, <2>2
  <1>4. RemoveAt(q, i) = a \o b
    BY DEF RemoveAt
  <1>. HIDE DEF a, b
  <1>5. /\ a \o b \in Seq(S) /\ Len(a \o b) = Len(q) - 1
        /\ \A j \in 1 .. Len(q) - 1 :
              (a \o b)[j] = IF j <= i - 1 THEN a[j] ELSE b[j - (i - 1)]
    <2>1. /\ a \o b \in Seq(S) /\ Len(a \o b) = Len(a) + Len(b)
          /\ \A j \in 1 .. Len(a) + Len(b) :
                (a \o b)[j] = IF j <= Len(a) THEN a[j] ELSE b[j - Len(a)]
      BY <1>2, <1>3, ConcatProperties
    <2>. QED  BY <1>1, <1>2, <1>3, <2>1
  <1>6. DOMAIN (a \o b) = 1 .. Len(q) - 1 /\ DOMAIN q = 1 .. Len(q)
    BY <1>1, <1>5
  <1>7. ASSUME NEW j \in 1 .. Len(q) - 1
        PROVE  Before(i, j) \in DOMAIN q \ {i} /\ (a \o b)[j] = q[Before(i, j)]
    <2>1. CASE j <= i - 1
      <3>1. (a \o b)[j] = q[j]
        BY <1>2, <1>5, <2>1
      <3>2. j < i /\ j \in (1 .. Len(q)) \ {i}
        BY <1>1, <2>1
      <3>. QED  BY <1>6, <3>1, <3>2 DEF Before
    <2>2. CASE j > i - 1
      <3>1. j - (i - 1) \in 1 .. Len(q) - i
        BY <1>1, <2>2
      <3>2. (a \o b)[j] = b[j - (i - 1)]
        BY <1>1, <1>5, <2>2
      <3>3. (a \o b)[j] = q[i + (j - (i - 1))]
        BY <1>3, <3>1, <3>2
      <3>4. i + (j - (i - 1)) = j + 1 /\ ~(j < i) /\ j + 1 \in (1 .. Len(q)) \ {i}
        BY <1>1, <2>2
      <3>. QED  BY <1>6, <3>3, <3>4 DEF Before
    <2>3. j <= i - 1 \/ j > i - 1
      BY <1>1
    <2>. QED  BY <2>1, <2>2, <2>3
  <1>. QED  BY <1>4, <1>5, <1>6, <1>7

\* Calls all of whose packets are in B.
CallsFor(q, B) == q \in Seq(Call) /\ \A i \in DOMAIN q : q[i].packet \in B

LEMMA CancelledCalls ==
    ASSUME TypeOK, NEW B, CallsFor(calls, B)
    PROVE  CallsFor(Cancelled, B)
  <1>1. CASE current = 0
    BY <1>1 DEF Cancelled
  <1>2. CASE current # 0
    <2>1. calls \in Seq(Call) /\ current \in 1 .. Len(calls)
      BY <1>2 DEF TypeOK
    <2>2. /\ RemoveAt(calls, current) \in Seq(Call)
          /\ DOMAIN RemoveAt(calls, current) = 1 .. Len(calls) - 1
          /\ \A j \in 1 .. Len(calls) - 1 :
                /\ Before(current, j) \in DOMAIN calls \ {current}
                /\ RemoveAt(calls, current)[j] = calls[Before(current, j)]
      BY <2>1, RemovedCalls
    <2>. QED  BY <1>2, <2>2 DEF Cancelled, CallsFor
  <1>. QED  BY <1>1, <1>2

LEMMA TailCalls ==
    ASSUME NEW B, CallsFor(calls, B), calls # <<>>
    PROVE  /\ CallsFor(Tail(calls), B)
           /\ Head(calls) \in Call /\ Head(calls).packet \in B
  <1>1. /\ calls \in Seq(Call) /\ Tail(calls) \in Seq(Call)
        /\ Len(calls) \in Nat /\ Len(calls) > 0 /\ Len(Tail(calls)) = Len(calls) - 1
        /\ \A i \in 1 .. Len(Tail(calls)) : Tail(calls)[i] = calls[i + 1]
        /\ Head(calls) = calls[1]
    BY DEF CallsFor
  <1>2. \A i \in 1 .. Len(calls) : calls[i].packet \in B
    BY DEF CallsFor
  <1>3. \A i \in 1 .. Len(Tail(calls)) : Tail(calls)[i].packet \in B
    BY <1>1, <1>2
  <1>. QED  BY <1>1, <1>2, <1>3 DEF CallsFor

\* What SendAndArm does to the variables it sets.
LEMMA Armed ==
    ASSUME TypeOK, NEW B, NEW b \in B, b \in Packets,
           NEW k \in 0 .. MaxRetransmits - 1, NEW q, CallsFor(q, B), SendAndArm(b, k, q)
    PROVE  /\ CallsFor(calls', B) /\ current' \in 0 .. Len(calls')
           /\ wire' = wire \cup {b} /\ sent' \in [Packets -> Nat]
  <1>. DEFINE c == [packet |-> b, attempt |-> k]
  <1>1. c \in Call /\ c.packet \in B
    BY DEF Call
  <1>2. q \in Seq(Call) /\ Len(q) \in Nat
    BY DEF CallsFor
  <1>3. calls' = Append(q, c) /\ current' = Len(q) + 1 /\ wire' = wire \cup {b}
    BY DEF SendAndArm
  <1>. HIDE DEF c
  <1>4. /\ calls' \in Seq(Call) /\ Len(calls') = Len(q) + 1
        /\ calls'[Len(q) + 1] = c
        /\ \A i \in 1 .. Len(q) : calls'[i] = q[i]
    BY <1>1, <1>2, <1>3
  <1>5. \A i \in 1 .. Len(calls') : calls'[i].packet \in B
    <2>1. \A i \in 1 .. Len(q) : q[i].packet \in B
      BY <1>2 DEF CallsFor
    <2>. QED  BY <1>1, <1>2, <1>4, <2>1
  <1>6. sent' \in [Packets -> Nat]
    BY DEF SendAndArm, TypeOK
  <1>. QED  BY <1>2, <1>3, <1>4, <1>5, <1>6 DEF CallsFor

LEMMA Quieted ==
    ASSUME TypeOK, NEW B, NEW q, CallsFor(q, B), Quiet(q)
    PROVE  /\ CallsFor(calls', B) /\ current' \in 0 .. Len(calls')
           /\ wire' = wire /\ sent' \in [Packets -> Nat]
  <1>1. calls' = q /\ current' = 0 /\ wire' = wire /\ sent' = sent
    BY DEF Quiet
  <1>2. Len(q) \in Nat
    BY DEF CallsFor
  <1>. QED  BY <1>1, <1>2 DEF TypeOK

-----------------------------------------------------------------------------
(* What the timers still owe, counted.                                     *)

LEMMA OwedCounted ==
    ASSUME NEW q \in Seq(Call), NEW B
    PROVE  IsFiniteSet(Owed(q, B)) /\ Cardinality(Owed(q, B)) \in Nat
  <1>. DEFINE T == (DOMAIN q) \X (0 .. MaxRetransmits - 1)
  <1>1. DOMAIN q = 1 .. Len(q) /\ Len(q) \in Nat /\ MaxRetransmits \in Nat
    BY TftpAssumption
  <1>2. IsFiniteSet(DOMAIN q) /\ IsFiniteSet(0 .. MaxRetransmits - 1)
    BY <1>1, FS_Interval
  <1>3. IsFiniteSet(T)
    BY <1>2, FS_Product
  <1>4. Owed(q, B) \in SUBSET T
    BY DEF Owed
  <1>. HIDE DEF T
  <1>5. IsFiniteSet(Owed(q, B))
    BY <1>3, <1>4, FS_Subset
  <1>. QED  BY <1>5, FS_CardinalityType

\* The tries of one call.
Tries(i, c) == {i} \X (c.attempt + 1 .. MaxRetransmits - 1)

LEMMA TriesCounted ==
    ASSUME NEW i, NEW c \in Call
    PROVE  /\ IsFiniteSet(Tries(i, c))
           /\ Cardinality(Tries(i, c)) = MaxRetransmits - 1 - c.attempt
  <1>. DEFINE n == c.attempt + 1
              m == MaxRetransmits - 1
  <1>1. MaxRetransmits \in Nat \ {0} /\ c.attempt \in 0 .. MaxRetransmits - 1
    BY TftpAssumption DEF Call
  <1>2. n \in Int /\ m \in Int /\ n <= m + 1 /\ m - n + 1 = MaxRetransmits - 1 - c.attempt
    BY <1>1
  <1>. HIDE DEF n, m
  <1>3. IsFiniteSet(n .. m) /\ Cardinality(n .. m) = IF n > m THEN 0 ELSE m - n + 1
    BY <1>2, FS_Interval
  <1>4. Cardinality(n .. m) = m - n + 1
    BY <1>2, <1>3
  <1>5. IsFiniteSet({i}) /\ Cardinality({i}) = 1
    BY FS_Singleton
  <1>6. /\ IsFiniteSet({i} \X (n .. m))
        /\ Cardinality({i} \X (n .. m)) = 1 * (m - n + 1)
    BY <1>3, <1>4, <1>5, FS_Product
  <1>7. Tries(i, c) = {i} \X (n .. m)
    BY DEF Tries, n, m
  <1>. QED  BY <1>2, <1>6, <1>7

\* A queue whose calls are some of another's owes no more than those.
LEMMA OwedMoved ==
    ASSUME NEW q \in Seq(Call), NEW r \in Seq(Call), NEW B,
           NEW I, NEW g \in Injection(DOMAIN r, I),
           I \subseteq DOMAIN q, \A j \in DOMAIN r : r[j] = q[g[j]]
    PROVE  /\ IsFiniteSet({t \in Owed(q, B) : t[1] \in I})
           /\ Cardinality(Owed(r, B)) <= Cardinality({t \in Owed(q, B) : t[1] \in I})
  <1>. DEFINE T == {t \in Owed(q, B) : t[1] \in I}
              f == [t \in Owed(r, B) |-> <<g[t[1]], t[2]>>]
  <1>1. /\ g \in [DOMAIN r -> I]
        /\ \A j, k \in DOMAIN r : g[j] = g[k] => j = k
    BY DEF Injection, IsInjective
  <1>2. ASSUME NEW t \in Owed(r, B)
        PROVE  /\ t \in (DOMAIN r) \X (0 .. MaxRetransmits - 1)
               /\ r[t[1]].packet \in B /\ t[2] > r[t[1]].attempt
    BY DEF Owed
  <1>3. ASSUME NEW t \in Owed(r, B)
        PROVE  f[t] \in T
    <2>1. t[1] \in DOMAIN r /\ t[2] \in 0 .. MaxRetransmits - 1
      BY <1>2
    <2>2. g[t[1]] \in I /\ g[t[1]] \in DOMAIN q /\ q[g[t[1]]] = r[t[1]]
      BY <1>1, <2>1
    <2>. QED  BY <1>2, <2>1, <2>2 DEF Owed
  <1>4. ASSUME NEW s \in Owed(r, B), NEW t \in Owed(r, B), f[s] = f[t]
        PROVE  s = t
    <2>1. /\ s[1] \in DOMAIN r /\ t[1] \in DOMAIN r
          /\ s = <<s[1], s[2]>> /\ t = <<t[1], t[2]>>
      BY <1>2
    <2>2. g[s[1]] = g[t[1]] /\ s[2] = t[2]
      BY <1>4
    <2>. QED  BY <1>1, <2>1, <2>2
  <1>5. f \in Injection(Owed(r, B), T)
    <2>1. f \in [Owed(r, B) -> T]
      BY <1>3
    <2>. QED  BY <1>4, <2>1 DEF Injection, IsInjective
  <1>6. T \in SUBSET Owed(q, B) /\ IsFiniteSet(Owed(q, B))
    BY OwedCounted
  <1>. HIDE DEF f, T
  <1>7. IsFiniteSet(T)
    BY <1>6, FS_Subset
  <1>8. Cardinality(Owed(r, B)) <= Cardinality(T)
    BY <1>5, <1>7, FS_Injection
  <1>. QED  BY <1>7, <1>8 DEF T

\* A new call owes its tries.
LEMMA OwedAppended ==
    ASSUME NEW q \in Seq(Call), NEW c \in Call, NEW B
    PROVE  Cardinality(Owed(Append(q, c), B)) <=
              Cardinality(Owed(q, B))
                + (IF c.packet \in B THEN MaxRetransmits - 1 - c.attempt ELSE 0)
  <1>. DEFINE r == Append(q, c)
              n == Len(q) + 1
              X == IF c.packet \in B THEN Tries(n, c) ELSE {}
  <1>1. /\ r \in Seq(Call) /\ Len(q) \in Nat /\ DOMAIN q = 1 .. Len(q)
        /\ DOMAIN r = 1 .. Len(q) + 1 /\ r[n] = c
        /\ \A j \in 1 .. Len(q) : r[j] = q[j]
    OBVIOUS
  <1>2. c.attempt \in 0 .. MaxRetransmits - 1 /\ MaxRetransmits \in Nat \ {0}
    BY TftpAssumption DEF Call
  <1>. HIDE DEF r
  <1>3. ASSUME NEW t \in Owed(r, B)
        PROVE  t \in Owed(q, B) \cup X
    <2>1. /\ t \in (DOMAIN r) \X (0 .. MaxRetransmits - 1)
          /\ r[t[1]].packet \in B /\ t[2] > r[t[1]].attempt
      BY DEF Owed
    <2>2. /\ t[1] \in 1 .. Len(q) + 1 /\ t[2] \in 0 .. MaxRetransmits - 1
          /\ t = <<t[1], t[2]>>
      BY <1>1, <2>1
    <2>3. CASE t[1] = n
      <3>1. c.packet \in B /\ t[2] \in c.attempt + 1 .. MaxRetransmits - 1
        BY <1>1, <1>2, <2>1, <2>2, <2>3
      <3>2. t \in Tries(n, c)
        BY <2>2, <2>3, <3>1 DEF Tries
      <3>. QED  BY <3>1, <3>2
    <2>4. CASE t[1] # n
      <3>1. t[1] \in DOMAIN q /\ r[t[1]] = q[t[1]]
        BY <1>1, <2>2, <2>4
      <3>2. t \in Owed(q, B)
        BY <2>1, <2>2, <3>1 DEF Owed
      <3>. QED  BY <3>2
    <2>. QED  BY <2>3, <2>4
  <1>4. /\ IsFiniteSet(X)
        /\ Cardinality(X) = IF c.packet \in B THEN MaxRetransmits - 1 - c.attempt ELSE 0
    BY TriesCounted, FS_EmptySet
  <1>5. IsFiniteSet(Owed(q, B)) /\ Cardinality(Owed(q, B)) \in Nat
    BY OwedCounted
  <1>. HIDE DEF X
  <1>6. /\ IsFiniteSet(Owed(q, B) \cup X)
        /\ Cardinality(Owed(q, B) \cup X) =
              Cardinality(Owed(q, B)) + Cardinality(X) - Cardinality(Owed(q, B) \cap X)
    BY <1>4, <1>5, FS_Union
  <1>7. Cardinality(Owed(q, B) \cap X) \in Nat
    BY <1>5, FS_Intersection, FS_CardinalityType
  <1>8. Owed(r, B) \in SUBSET (Owed(q, B) \cup X)
    BY <1>3
  <1>9. Cardinality(Owed(r, B)) <= Cardinality(Owed(q, B) \cup X)
    BY <1>6, <1>8, FS_Subset
  <1>10. Cardinality(Owed(r, B)) \in Nat
    BY <1>1, OwedCounted
  <1>11. Cardinality(Owed(r, B)) <= Cardinality(Owed(q, B)) + Cardinality(X)
    <2>1. Cardinality(X) \in Nat
      BY <1>4, FS_CardinalityType
    <2>. QED  BY <1>5, <1>6, <1>7, <1>9, <1>10, <2>1
  <1>. QED  BY <1>4, <1>11 DEF r

\* A call that expires takes its tries with it.
LEMMA OwedExpired ==
    ASSUME NEW q \in Seq(Call), q # <<>>, NEW B
    PROVE  Cardinality(Owed(Tail(q), B))
              + (IF Head(q).packet \in B THEN MaxRetransmits - 1 - Head(q).attempt ELSE 0)
                <= Cardinality(Owed(q, B))
  <1>. DEFINE r == Tail(q)
              c == Head(q)
              X == IF c.packet \in B THEN Tries(1, c) ELSE {}
              I == 2 .. Len(q)
              T == {t \in Owed(q, B) : t[1] \in I}
              g == [j \in DOMAIN r |-> j + 1]
  <1>1. /\ r \in Seq(Call) /\ c \in Call /\ c = q[1] /\ Len(q) \in Nat /\ Len(q) > 0
        /\ DOMAIN q = 1 .. Len(q) /\ DOMAIN r = 1 .. Len(q) - 1
        /\ \A j \in 1 .. Len(q) - 1 : r[j] = q[j + 1]
    OBVIOUS
  <1>2. c.attempt \in 0 .. MaxRetransmits - 1 /\ MaxRetransmits \in Nat \ {0}
    BY <1>1, TftpAssumption DEF Call
  <1>3. g \in Injection(DOMAIN r, I) /\ I \subseteq DOMAIN q
    BY <1>1 DEF Injection, IsInjective
  <1>4. \A j \in DOMAIN r : r[j] = q[g[j]]
    BY <1>1
  <1>. HIDE DEF r, c, g
  <1>5. IsFiniteSet(T) /\ Cardinality(Owed(r, B)) <= Cardinality(T)
    <2>1. r \in Seq(Call) /\ I \subseteq DOMAIN q
      BY <1>1, <1>3
    <2>2. g \in Injection(DOMAIN r, I)
      BY <1>3
    <2>. HIDE DEF I
    <2>. QED  BY <2>1, <2>2, <1>4, OwedMoved
  <1>6. /\ IsFiniteSet(X)
        /\ Cardinality(X) = IF c.packet \in B THEN MaxRetransmits - 1 - c.attempt ELSE 0
    BY <1>1, TriesCounted, FS_EmptySet
  <1>7. X \subseteq Owed(q, B) /\ T \cap X = {}
    <2>1. ASSUME NEW t \in X
          PROVE  t \in Owed(q, B) /\ t \notin T
      <3>1. /\ c.packet \in B /\ t[1] = 1 /\ t = <<1, t[2]>>
            /\ t[2] \in c.attempt + 1 .. MaxRetransmits - 1
        BY DEF Tries
      <3>2. 1 \in DOMAIN q /\ t[2] \in 0 .. MaxRetransmits - 1 /\ t[2] > c.attempt
        BY <1>1, <1>2, <3>1
      <3>3. t \in (DOMAIN q) \X (0 .. MaxRetransmits - 1)
        BY <3>1, <3>2
      <3>. QED  BY <1>1, <3>1, <3>2, <3>3 DEF Owed
    <2>. QED  BY <2>1
  <1>8. T \cup X \in SUBSET Owed(q, B)
    BY <1>7
  <1>. HIDE DEF T, X
  <1>9. /\ IsFiniteSet(T \cup X)
        /\ Cardinality(T \cup X) = Cardinality(T) + Cardinality(X) - Cardinality(T \cap X)
    BY <1>5, <1>6, FS_Union
  <1>10. Cardinality(T \cap X) = 0
    BY <1>7, FS_EmptySet
  <1>11. Cardinality(T \cup X) <= Cardinality(Owed(q, B))
    BY <1>8, FS_Subset, OwedCounted
  <1>12. /\ Cardinality(T) \in Nat /\ Cardinality(X) \in Nat
         /\ Cardinality(Owed(q, B)) \in Nat /\ Cardinality(Owed(r, B)) \in Nat
    BY <1>1, <1>5, <1>6, OwedCounted, FS_CardinalityType
  <1>13. Cardinality(Owed(r, B)) + Cardinality(X) <= Cardinality(Owed(q, B))
    BY <1>5, <1>9, <1>10, <1>11, <1>12
  <1>. QED  BY <1>6, <1>13 DEF r, c

\* A call that is cancelled leaves no more owed than before.
LEMMA OwedCancelled ==
    ASSUME TypeOK, NEW B
    PROVE  /\ Cancelled \in Seq(Call)
           /\ Cardinality(Owed(Cancelled, B)) <= Cardinality(Owed(calls, B))
  <1>0. calls \in Seq(Call) /\ Cardinality(Owed(calls, B)) \in Nat
    BY OwedCounted DEF TypeOK
  <1>1. CASE current = 0
    BY <1>0, <1>1 DEF Cancelled
  <1>2. CASE current # 0
    <2>. DEFINE r == RemoveAt(calls, current)
                g == [j \in DOMAIN r |-> Before(current, j)]
                T == {t \in Owed(calls, B) : t[1] \in DOMAIN calls}
    <2>1. current \in 1 .. Len(calls) /\ Len(calls) \in Nat
      BY <1>0, <1>2 DEF TypeOK
    <2>2. /\ r \in Seq(Call) /\ DOMAIN r = 1 .. Len(calls) - 1
          /\ \A j \in 1 .. Len(calls) - 1 :
                Before(current, j) \in DOMAIN calls /\ r[j] = calls[Before(current, j)]
      BY <1>0, <2>1, RemovedCalls
    <2>. HIDE DEF r
    <2>3. ASSUME NEW j \in DOMAIN r, NEW k \in DOMAIN r, g[j] = g[k]
          PROVE  j = k
      BY <2>1, <2>2, <2>3 DEF Before
    <2>4. g \in [DOMAIN r -> DOMAIN calls]
      BY <2>2
    <2>5. g \in Injection(DOMAIN r, DOMAIN calls)
      BY <2>3, <2>4 DEF Injection, IsInjective
    <2>6. \A j \in DOMAIN r : r[j] = calls[g[j]]
      BY <2>2
    <2>. HIDE DEF g
    <2>7. Cardinality(Owed(r, B)) <= Cardinality(T)
      BY <1>0, <2>2, <2>5, <2>6, OwedMoved
    <2>8. T \in SUBSET Owed(calls, B) /\ IsFiniteSet(Owed(calls, B))
      BY <1>0, OwedCounted
    <2>. HIDE DEF T
    <2>9. Cardinality(T) <= Cardinality(Owed(calls, B)) /\ Cardinality(T) \in Nat
      BY <2>8, FS_Subset, FS_CardinalityType
    <2>10. Cardinality(Owed(r, B)) \in Nat /\ Cancelled = r
      BY <1>2, <2>2, OwedCounted DEF Cancelled, r
    <2>. QED  BY <1>0, <2>2, <2>7, <2>9, <2>10
  <1>. QED  BY <1>1, <1>2

-----------------------------------------------------------------------------
(* The invariant.                                                          *)

\* The packets that may be in flight now.
Flight == {b \in Packets : NotAhead(b)}

Inductive == TypeOK /\ OneInFlight /\ rrqs >= starts + resolving

LEMMA ConstantFacts ==
    /\ Blocks \in Nat \ {0} /\ MaxRetransmits \in Nat \ {0} /\ MaxRrqs \in Nat
    /\ None \notin Nat /\ Packets = 0 .. Blocks /\ Packets \subseteq Nat
    /\ None \notin Packets
  <1>1. /\ Blocks \in Nat \ {0} /\ MaxRetransmits \in Nat \ {0} /\ MaxRrqs \in Nat
        /\ None \notin Nat
    BY TftpAssumption
  <1>2. Packets = 0 .. Blocks /\ Packets \subseteq Nat
    BY <1>1 DEF Packets
  <1>. QED  BY <1>1, <1>2

LEMMA SumBounded ==
    ASSUME NEW n \in Nat, NEW x \in 0 .. n, NEW y \in Nat, NEW z \in Nat, x >= y + z
    PROVE  y \in 0 .. n /\ z \in 0 .. n
  OBVIOUS

\* A step that sends nothing ahead of the client.
LEMMA StepKeeps ==
    ASSUME Inductive,
           transfer' \in Flight' \cup {None}, wire' \subseteq Flight',
           CallsFor(calls', Flight'), current' \in 0 .. Len(calls'),
           sent' \in [Packets -> Nat], strayAck' \in BOOLEAN,
           acks' \subseteq Packets, \A b \in acks' : b <= got',
           got' \in Packets, UNCHANGED options,
           phase' \in {"idle", "asking", "receiving", "gone"},
           resolving' \in Nat, rrqs' \in 0 .. MaxRrqs, starts' \in Nat,
           rrqs' >= starts' + resolving'
    PROVE  Inductive'
  <1>1. MaxRrqs \in Nat /\ None \notin Packets
    BY ConstantFacts
  <1>2. resolving' \in 0 .. MaxRrqs /\ starts' \in 0 .. MaxRrqs
    BY <1>1, SumBounded
  <1>3. calls' \in Seq(Call) /\ \A i \in DOMAIN calls' : calls'[i].packet \in Flight'
    BY DEF CallsFor
  <1>4. \A b \in Flight' : b \in Packets /\ NotAhead(b)'
    BY DEF Flight, NotAhead
  <1>5. TypeOK'
    BY <1>2, <1>3, <1>4 DEF Inductive, TypeOK
  <1>6. OneInFlight'
    BY <1>1, <1>3, <1>4 DEF OneInFlight
  <1>. QED  BY <1>5, <1>6 DEF Inductive

LEMMA Known ==
    ASSUME Inductive
    PROVE  /\ transfer \in Flight \cup {None} /\ wire \subseteq Flight
           /\ CallsFor(calls, Flight)
  <1>1. calls \in Seq(Call)
    BY DEF Inductive, TypeOK
  <1>2. \A i \in DOMAIN calls : calls[i] \in Call
    BY <1>1, ElementOfSeq
  <1>3. \A i \in DOMAIN calls : calls[i].packet \in Packets
    BY <1>2 DEF Call
  <1>. QED  BY <1>1, <1>3 DEF Inductive, TypeOK, OneInFlight, Flight, CallsFor

LEMMA InitInductive == Init => Inductive
  <1>. SUFFICES ASSUME Init  PROVE Inductive
    OBVIOUS
  <1>1. /\ transfer = None /\ calls = <<>> /\ current = 0 /\ resolving = 0
        /\ acks = {} /\ wire = {} /\ got = 0 /\ rrqs = 0 /\ starts = 0
    BY DEF Init
  <1>2. calls \in Seq(Call) /\ Len(calls) = 0 /\ DOMAIN calls = {}
    BY <1>1
  <1>3. got \in Packets /\ sent \in [Packets -> Nat]
    BY <1>1, ConstantFacts DEF Init
  <1>4. TypeOK
    BY <1>1, <1>2, <1>3, ConstantFacts DEF Init, TypeOK
  <1>5. OneInFlight
    BY <1>1, <1>2 DEF OneInFlight
  <1>. QED  BY <1>1, <1>4, <1>5 DEF Inductive

\* The server: Flight does not change.
LEMMA ServerKeeps ==
    ASSUME Inductive, UNCHANGED machine,
           Timeout \/ OnRrq \/ StartTransfer \/ ResolveFails \/ OnAck \/ OnError
    PROVE  Inductive'
  <1>1. Flight' = Flight
    BY DEF Flight, NotAhead, machine
  <1>2. /\ TypeOK /\ MaxRrqs \in Nat /\ MaxRetransmits \in Nat \ {0} /\ Blocks \in Nat \ {0}
        /\ acks \subseteq Packets /\ \A b \in acks : b <= got
        /\ got \in 0 .. Blocks /\ resolving \in Nat /\ starts \in Nat /\ rrqs \in Nat
        /\ rrqs <= MaxRrqs /\ rrqs >= starts + resolving
        /\ UNCHANGED <<acks, options, phase, got>>
        /\ phase \in {"idle", "asking", "receiving", "gone"}
    <2>1. MaxRrqs \in Nat /\ MaxRetransmits \in Nat \ {0} /\ Blocks \in Nat \ {0}
      BY ConstantFacts
    <2>2. TypeOK /\ rrqs >= starts + resolving /\ \A b \in acks : b <= got
      BY DEF Inductive, OneInFlight
    <2>3. /\ acks \subseteq Packets /\ got \in 0 .. Blocks /\ resolving \in 0 .. MaxRrqs
          /\ starts \in 0 .. MaxRrqs /\ rrqs \in 0 .. MaxRrqs
          /\ phase \in {"idle", "asking", "receiving", "gone"}
      BY <2>2 DEF TypeOK, Packets
    <2>. QED  BY <2>1, <2>2, <2>3 DEF machine
  <1>3. /\ transfer \in Flight \cup {None} /\ wire \subseteq Flight
        /\ CallsFor(calls, Flight) /\ CallsFor(Cancelled, Flight)
    BY <1>2, Known, CancelledCalls
  <1>4. ASSUME calls # <<>>
        PROVE  CallsFor(Tail(calls), Flight) /\ Head(calls).packet \in Flight
               /\ Head(calls) \in Call
    BY <1>3, <1>4, TailCalls
  <1>5. ASSUME NEW b \in Flight, NEW k \in 0 .. MaxRetransmits - 1,
               NEW q, CallsFor(q, Flight), SendAndArm(b, k, q)
        PROVE  /\ CallsFor(calls', Flight) /\ current' \in 0 .. Len(calls')
               /\ wire' \subseteq Flight /\ sent' \in [Packets -> Nat]
    <2>1. b \in Packets
      BY DEF Flight
    <2>. QED  BY <1>2, <1>3, <1>5, <2>1, Armed
  <1>6. ASSUME NEW q, CallsFor(q, Flight), Quiet(q)
        PROVE  /\ CallsFor(calls', Flight) /\ current' \in 0 .. Len(calls')
               /\ wire' \subseteq Flight /\ sent' \in [Packets -> Nat]
    BY <1>2, <1>3, <1>6, Quieted
  <1>7. ASSUME UNCHANGED <<calls, current, wire, sent>>
        PROVE  /\ CallsFor(calls', Flight) /\ current' \in 0 .. Len(calls')
               /\ wire' \subseteq Flight /\ sent' \in [Packets -> Nat]
    BY <1>2, <1>3, <1>7 DEF TypeOK
  <1>8. CASE Timeout
    <2>. DEFINE c == Head(calls)
    <2>1. c \in Call /\ c.packet \in Flight /\ CallsFor(Tail(calls), Flight)
      BY <1>4, <1>8 DEF Timeout
    <2>2. c.attempt \in 0 .. MaxRetransmits - 1
      BY <2>1 DEF Call
    <2>3. /\ UNCHANGED <<resolving, rrqs, starts, strayAck>>
          /\ \/ transfer' = None /\ Quiet(Tail(calls))
             \/ /\ c.attempt + 1 < MaxRetransmits /\ transfer' = transfer
                /\ SendAndArm(c.packet, c.attempt + 1, Tail(calls))
      BY <1>8 DEF Timeout
    <2>. HIDE DEF c
    <2>4. CASE transfer' = None /\ Quiet(Tail(calls))
      BY <1>1, <1>2, <1>6, <2>1, <2>3, <2>4, StepKeeps DEF TypeOK, Packets
    <2>5. CASE /\ c.attempt + 1 < MaxRetransmits /\ transfer' = transfer
               /\ SendAndArm(c.packet, c.attempt + 1, Tail(calls))
      <3>1. c.attempt + 1 \in 0 .. MaxRetransmits - 1
        BY <1>2, <2>2, <2>5
      <3>. QED  BY <1>1, <1>2, <1>3, <1>5, <2>1, <2>3, <2>5, <3>1, StepKeeps DEF TypeOK, Packets
    <2>. QED  BY <2>3, <2>4, <2>5
  <1>9. CASE OnRrq
    BY <1>1, <1>2, <1>3, <1>7, <1>9, StepKeeps DEF OnRrq, TypeOK, Packets
  <1>10. CASE StartTransfer
    <2>1. PICK first \in {0, 1} : /\ transfer' = first /\ SendAndArm(first, 0, calls)
                                  /\ resolving > 0 /\ resolving' = resolving - 1
                                  /\ starts' = starts + 1 /\ UNCHANGED <<rrqs, strayAck>>
      BY <1>10 DEF StartTransfer
    <2>2. first \in Flight /\ 0 \in 0 .. MaxRetransmits - 1
      BY <1>2 DEF Flight, NotAhead, Packets
    <2>. QED  BY <1>1, <1>2, <1>3, <1>5, <2>1, <2>2, StepKeeps DEF TypeOK, Packets
  <1>11. CASE ResolveFails
    BY <1>1, <1>2, <1>3, <1>7, <1>11, StepKeeps DEF ResolveFails, TypeOK, Packets, history
  <1>12. CASE OnAck
    <2>1. PICK b \in acks : AckOfPending(b) \/ AckOfLast(b) \/ AckOfOther(b)
      BY <1>12 DEF OnAck
    <2>2. UNCHANGED <<resolving, rrqs, starts>>
      BY <1>12 DEF OnAck
    <2>3. CASE AckOfPending(b)
      <3>1. b + 1 \in Flight /\ 0 \in 0 .. MaxRetransmits - 1
        BY <1>2, <2>3 DEF AckOfPending, Flight, NotAhead, Packets
      <3>2. /\ transfer' = b + 1 /\ SendAndArm(b + 1, 0, Cancelled) /\ UNCHANGED strayAck
        BY <2>3 DEF AckOfPending
      <3>. QED  BY <1>1, <1>2, <1>3, <1>5, <2>2, <3>1, <3>2, StepKeeps DEF TypeOK, Packets
    <2>4. CASE AckOfLast(b) \/ AckOfOther(b)
      <3>1. /\ transfer' \in {None, transfer} /\ Quiet(Cancelled)
            /\ strayAck' \in {TRUE, strayAck}
        BY <2>4 DEF AckOfLast, AckOfOther
      <3>. QED  BY <1>1, <1>2, <1>3, <1>6, <2>2, <3>1, StepKeeps DEF TypeOK, Packets
    <2>. QED  BY <2>1, <2>3, <2>4
  <1>13. CASE OnError
    BY <1>1, <1>2, <1>3, <1>7, <1>13, StepKeeps DEF OnError, TypeOK, Packets, history
  <1>. QED  BY <1>8, <1>9, <1>10, <1>11, <1>12, <1>13

\* The client: what is in flight stays allowed when it has received more.
LEMMA ClientKeeps ==
    ASSUME Inductive, Ask \/ ReceiveOack \/ ReceiveData \/ Abort
    PROVE  Inductive'
  <1>1. /\ UNCHANGED <<server, wire, options, history>>
        /\ got' \in {got, got + 1} /\ got' \in Packets
        /\ acks' \subseteq acks \cup {got'} \cup {0}
        /\ phase' \in {"idle", "asking", "receiving", "gone"}
    <2>1. ASSUME ReceiveData  PROVE  got + 1 \in Packets
      BY <2>1 DEF ReceiveData, Inductive, TypeOK
    <2>. QED  BY <2>1 DEF Ask, ReceiveOack, ReceiveData, Abort, Inductive, TypeOK
  <1>2. got \in Nat /\ Blocks \in Nat /\ Packets = 0 .. Blocks /\ None \notin Packets
    BY ConstantFacts DEF Inductive, TypeOK
  <1>3. Flight \subseteq Flight'
    BY <1>1, <1>2 DEF Flight, NotAhead
  <1>4. /\ transfer \in Flight \cup {None} /\ wire \subseteq Flight
        /\ CallsFor(calls, Flight)
    BY Known
  <1>5. CallsFor(calls, Flight')
    BY <1>3, <1>4 DEF CallsFor
  <1>6. acks' \subseteq Packets /\ \A b \in acks' : b <= got'
    BY <1>1, <1>2 DEF Inductive, TypeOK, OneInFlight
  <1>7. /\ transfer' \in Flight' \cup {None} /\ wire' \subseteq Flight'
        /\ CallsFor(calls', Flight')
    BY <1>1, <1>3, <1>4, <1>5 DEF server
  <1>8. /\ current' \in 0 .. Len(calls') /\ sent' \in [Packets -> Nat]
        /\ strayAck' \in BOOLEAN /\ resolving' \in Nat /\ rrqs' \in 0 .. MaxRrqs
        /\ starts' \in Nat /\ rrqs' >= starts' + resolving'
    BY <1>1 DEF Inductive, TypeOK, server, history
  <1>. QED  BY <1>1, <1>6, <1>7, <1>8, StepKeeps

LEMMA NextKeeps == Inductive /\ [Next]_vars => Inductive'
  <1>. SUFFICES ASSUME Inductive, [Next]_vars  PROVE  Inductive'
    OBVIOUS
  <1>1. CASE Timeout \/ OnRrq \/ StartTransfer \/ ResolveFails \/ OnAck \/ OnError
    <2>1. UNCHANGED machine
      BY <1>1 DEF Timeout, OnRrq, StartTransfer, ResolveFails, OnAck, OnError
    <2>. QED  BY <1>1, <2>1, ServerKeeps
  <1>2. CASE Ask \/ ReceiveOack \/ ReceiveData \/ Abort
    BY <1>2, ClientKeeps
  <1>3. CASE UNCHANGED vars
    BY <1>3 DEF vars, server, machine, history, Inductive, TypeOK, OneInFlight, NotAhead
  <1>. QED  BY <1>1, <1>2, <1>3 DEF Next

LEMMA InductiveHolds == Spec => []Inductive
  BY InitInductive, NextKeeps, PTL DEF Spec

-----------------------------------------------------------------------------
(* How often a packet is sent.                                             *)

LEMMA OneMoreTransfer ==
    ASSUME NEW m \in Nat, NEW n \in Nat
    PROVE  m * n \in Nat /\ m * (n + 1) = m * n + m
  OBVIOUS

\* A send, and the tries of the timer armed for it, for one packet.
LEMMA ArmedOwes ==
    ASSUME TypeOK, NEW p \in Packets, NEW k \in 0 .. MaxRetransmits - 1,
           NEW q \in Seq(Call), SendAndArm(p, k, q), NEW b \in Packets
    PROVE  /\ calls' \in Seq(Call) /\ sent'[b] \in Nat
           /\ sent'[b] + Cardinality(Owed(calls', {b})) <=
                 sent[b] + Cardinality(Owed(q, {b}))
                   + (IF b = p THEN MaxRetransmits - k ELSE 0)
  <1>. DEFINE c == [packet |-> p, attempt |-> k]
  <1>1. c \in Call /\ c.packet = p /\ c.attempt = k
    BY DEF Call
  <1>2. calls' = Append(q, c)
    BY DEF SendAndArm
  <1>3. sent[b] \in Nat /\ sent'[b] = sent[b] + (IF b = p THEN 1 ELSE 0)
    BY DEF SendAndArm, TypeOK
  <1>. HIDE DEF c
  <1>4. calls' \in Seq(Call)
    BY <1>1, <1>2
  <1>5. /\ Cardinality(Owed(q, {b})) \in Nat /\ Cardinality(Owed(calls', {b})) \in Nat
        /\ MaxRetransmits \in Nat
    BY <1>4, OwedCounted, TftpAssumption
  <1>6. Cardinality(Owed(calls', {b})) <= Cardinality(Owed(q, {b}))
            + (IF c.packet \in {b} THEN MaxRetransmits - 1 - c.attempt ELSE 0)
    BY <1>1, <1>2, OwedAppended
  <1>. QED  BY <1>1, <1>3, <1>4, <1>5, <1>6

LEMMA InitAccounted == Init => SendsAccounted
  <1>. SUFFICES ASSUME Init, NEW b \in Packets
                PROVE  sent[b] + Cardinality(Owed(calls, {b})) + Ahead(b)
                          <= MaxRetransmits * starts
    BY DEF SendsAccounted
  <1>1. transfer = None /\ calls = <<>> /\ starts = 0 /\ sent[b] = 0
    BY DEF Init
  <1>2. Owed(calls, {b}) = {}
    BY <1>1 DEF Owed
  <1>3. Cardinality(Owed(calls, {b})) = 0 /\ Ahead(b) = 0
    BY <1>1, <1>2, FS_EmptySet DEF Ahead
  <1>4. MaxRetransmits * 0 = 0
    BY TftpAssumption
  <1>. QED  BY <1>1, <1>3, <1>4

LEMMA ServerAccounts ==
    ASSUME Inductive, SendsAccounted,
           Timeout \/ OnRrq \/ StartTransfer \/ ResolveFails \/ OnAck \/ OnError
    PROVE  SendsAccounted'
  <1>. DEFINE owed(q, b) == Cardinality(Owed(q, {b}))
              limit == MaxRetransmits * starts
  <1>. SUFFICES ASSUME NEW b \in Packets
                PROVE  sent'[b] + owed(calls', b) + Ahead(b)' <= MaxRetransmits * starts'
    BY DEF SendsAccounted
  <1>1. /\ TypeOK /\ calls \in Seq(Call) /\ sent[b] \in Nat /\ starts \in Nat
        /\ transfer \in Packets \cup {None} /\ acks \subseteq Packets
    BY DEF Inductive, TypeOK
  <1>2. /\ MaxRetransmits \in Nat \ {0} /\ Packets = 0 .. Blocks /\ Blocks \in Nat \ {0}
        /\ None \notin Packets
    BY ConstantFacts
  <1>3. owed(calls, b) \in Nat /\ Ahead(b) \in {0, MaxRetransmits}
    BY <1>1, OwedCounted DEF Ahead
  <1>4. sent[b] + owed(calls, b) + Ahead(b) <= limit
    BY DEF SendsAccounted
  <1>5. limit \in Nat /\ MaxRetransmits * (starts + 1) = limit + MaxRetransmits
    BY <1>1, <1>2, OneMoreTransfer
  <1>6. Cancelled \in Seq(Call) /\ owed(Cancelled, b) <= owed(calls, b)
        /\ owed(Cancelled, b) \in Nat
    BY <1>1, OwedCancelled, OwedCounted
  <1>7. ASSUME calls # <<>>
        PROVE  /\ Tail(calls) \in Seq(Call) /\ Head(calls) \in Call
               /\ owed(Tail(calls), b) \in Nat
               /\ owed(Tail(calls), b)
                    + (IF Head(calls).packet = b
                       THEN MaxRetransmits - 1 - Head(calls).attempt ELSE 0)
                      <= owed(calls, b)
    <2>1. Tail(calls) \in Seq(Call) /\ Head(calls) \in Call
      BY <1>1, <1>7
    <2>. QED  BY <1>1, <1>7, <2>1, OwedExpired, OwedCounted
  <1>8. ASSUME NEW p \in Packets, NEW k \in 0 .. MaxRetransmits - 1,
               NEW q \in Seq(Call), SendAndArm(p, k, q)
        PROVE  /\ sent'[b] \in Nat /\ owed(calls', b) \in Nat
               /\ sent'[b] + owed(calls', b) <=
                     sent[b] + owed(q, b) + (IF b = p THEN MaxRetransmits - k ELSE 0)
    BY <1>1, <1>8, ArmedOwes, OwedCounted
  <1>9. ASSUME NEW q \in Seq(Call), Quiet(q)
        PROVE  sent'[b] = sent[b] /\ owed(calls', b) = owed(q, b)
    BY <1>9 DEF Quiet
  <1>. HIDE DEF owed, limit
  <1>10. CASE Timeout
    <2>. DEFINE c == Head(calls)
    <2>1. /\ c \in Call /\ Tail(calls) \in Seq(Call)
          /\ owed(Tail(calls), b) \in Nat
          /\ owed(Tail(calls), b)
                + (IF c.packet = b THEN MaxRetransmits - 1 - c.attempt ELSE 0)
                  <= owed(calls, b)
      BY <1>7, <1>10 DEF Timeout
    <2>2. c.attempt \in 0 .. MaxRetransmits - 1 /\ c.packet \in Packets
      BY <2>1 DEF Call
    <2>3. /\ starts' = starts
          /\ \/ transfer' = None /\ Quiet(Tail(calls))
             \/ /\ c.attempt + 1 < MaxRetransmits /\ transfer' = transfer
                /\ SendAndArm(c.packet, c.attempt + 1, Tail(calls))
      BY <1>10 DEF Timeout
    <2>. HIDE DEF c
    <2>4. CASE transfer' = None /\ Quiet(Tail(calls))
      <3>1. Ahead(b)' = 0
        BY <2>4 DEF Ahead
      <3>2. sent'[b] = sent[b] /\ owed(calls', b) = owed(Tail(calls), b)
        BY <1>9, <2>1, <2>4
      <3>3. owed(Tail(calls), b) <= owed(calls, b)
        BY <1>2, <1>3, <2>1, <2>2
      <3>. QED  BY <1>1, <1>2, <1>3, <1>4, <1>5, <2>1, <2>3, <3>1, <3>2, <3>3 DEF limit
    <2>5. CASE /\ c.attempt + 1 < MaxRetransmits /\ transfer' = transfer
               /\ SendAndArm(c.packet, c.attempt + 1, Tail(calls))
      <3>1. c.attempt + 1 \in 0 .. MaxRetransmits - 1
        BY <1>2, <2>2, <2>5
      <3>2. /\ sent'[b] \in Nat /\ owed(calls', b) \in Nat
            /\ sent'[b] + owed(calls', b) <= sent[b] + owed(Tail(calls), b)
                 + (IF b = c.packet THEN MaxRetransmits - (c.attempt + 1) ELSE 0)
        BY <1>8, <2>1, <2>2, <2>5, <3>1
      <3>3. sent'[b] + owed(calls', b) <= sent[b] + owed(calls, b)
        <4>0. /\ MaxRetransmits \in Int /\ c.attempt \in Int /\ sent[b] \in Int
              /\ sent'[b] \in Int /\ owed(calls', b) \in Int
              /\ owed(calls, b) \in Int /\ owed(Tail(calls), b) \in Int
          <5>1. c.attempt \in Int
            BY <1>2, <2>2
          <5>2. sent'[b] \in Int /\ owed(calls', b) \in Int
            BY <3>2
          <5>3. owed(Tail(calls), b) \in Int
            BY <2>1
          <5>. QED  BY <1>1, <1>2, <1>3, <5>1, <5>2, <5>3
        <4>1. CASE b = c.packet
          <5>1. owed(Tail(calls), b) + (MaxRetransmits - 1 - c.attempt) <= owed(calls, b)
            BY <2>1, <4>1
          <5>2. sent'[b] + owed(calls', b) <= sent[b] + owed(Tail(calls), b)
                   + (MaxRetransmits - (c.attempt + 1))
            BY <3>2, <4>1
          <5>. QED  BY <4>0, <5>1, <5>2
        <4>2. CASE b # c.packet
          <5>1. owed(Tail(calls), b) + 0 <= owed(calls, b)
            BY <2>1, <4>2
          <5>2. sent'[b] + owed(calls', b) <= sent[b] + owed(Tail(calls), b) + 0
            BY <3>2, <4>2
          <5>. QED  BY <4>0, <5>1, <5>2
        <4>. QED  BY <4>1, <4>2
      <3>4. Ahead(b)' = Ahead(b) /\ MaxRetransmits * starts' = limit
        BY <2>3, <2>5 DEF Ahead, limit
      <3>. QED  BY <1>1, <1>2, <1>3, <1>4, <1>5, <3>2, <3>3, <3>4
    <2>. QED  BY <2>3, <2>4, <2>5
  <1>11. CASE OnRrq \/ ResolveFails
    <2>1. UNCHANGED <<transfer, calls, sent, starts>>
      BY <1>11 DEF OnRrq, ResolveFails, history
    <2>2. owed(calls', b) = owed(calls, b) /\ Ahead(b)' = Ahead(b)
      BY <2>1 DEF owed, Ahead
    <2>. QED  BY <1>4, <2>1, <2>2 DEF limit
  <1>12. CASE StartTransfer
    <2>1. PICK first \in {0, 1} : /\ transfer' = first /\ SendAndArm(first, 0, calls)
                                  /\ starts' = starts + 1
      BY <1>12 DEF StartTransfer
    <2>2. first \in Packets /\ 0 \in 0 .. MaxRetransmits - 1
      BY <1>2
    <2>3. /\ sent'[b] \in Nat /\ owed(calls', b) \in Nat
          /\ sent'[b] + owed(calls', b) <=
                sent[b] + owed(calls, b) + (IF b = first THEN MaxRetransmits - 0 ELSE 0)
      BY <1>1, <1>8, <2>1, <2>2
    <2>. DEFINE extra == IF b = first THEN MaxRetransmits ELSE 0
    <2>4. /\ Ahead(b)' \in Int /\ extra \in Int /\ Ahead(b)' + extra <= MaxRetransmits
          /\ sent'[b] + owed(calls', b) <= sent[b] + owed(calls, b) + extra
      <3>1. CASE b = first
        BY <1>2, <2>1, <2>3, <3>1 DEF Ahead
      <3>2. CASE b # first
        BY <1>2, <2>1, <2>3, <3>2 DEF Ahead
      <3>. QED  BY <3>1, <3>2
    <2>5. MaxRetransmits * starts' = limit + MaxRetransmits
      BY <1>5, <2>1
    <2>6. Ahead(b) \in Nat
      BY <1>2, <1>3
    <2>. HIDE DEF extra
    <2>7. sent[b] \in Int /\ sent'[b] \in Int /\ owed(calls, b) \in Int
          /\ owed(calls', b) \in Int /\ limit \in Int /\ MaxRetransmits \in Int
      BY <1>1, <1>2, <1>3, <1>5, <2>3
    <2>. QED  BY <1>4, <2>4, <2>5, <2>6, <2>7
  <1>13. CASE OnAck
    <2>1. PICK a \in acks : AckOfPending(a) \/ AckOfLast(a) \/ AckOfOther(a)
      BY <1>13 DEF OnAck
    <2>2. starts' = starts /\ transfer # None
      BY <1>13 DEF OnAck
    <2>3. CASE AckOfPending(a)
      <3>1. /\ a = transfer /\ transfer' = a + 1 /\ a < Blocks
            /\ SendAndArm(a + 1, 0, Cancelled)
        BY <2>3 DEF AckOfPending
      <3>2. a + 1 \in Packets /\ 0 \in 0 .. MaxRetransmits - 1 /\ a \in Nat
        BY <1>1, <1>2, <3>1
      <3>3. /\ sent'[b] \in Nat /\ owed(calls', b) \in Nat
            /\ sent'[b] + owed(calls', b) <= sent[b] + owed(Cancelled, b)
                  + (IF b = a + 1 THEN MaxRetransmits - 0 ELSE 0)
        BY <1>6, <1>8, <3>1, <3>2
      <3>. DEFINE extra == IF b = a + 1 THEN MaxRetransmits ELSE 0
      <3>4. /\ Ahead(b)' \in Int /\ extra \in Int /\ Ahead(b)' + extra <= Ahead(b)
            /\ sent'[b] + owed(calls', b) <= sent[b] + owed(Cancelled, b) + extra
        <4>1. CASE b = a + 1
          BY <1>2, <2>2, <3>1, <3>2, <3>3, <4>1 DEF Ahead
        <4>2. CASE b # a + 1
          BY <1>2, <2>2, <3>1, <3>2, <3>3, <4>2 DEF Ahead
        <4>. QED  BY <4>1, <4>2
      <3>5. MaxRetransmits * starts' = limit
        BY <2>2 DEF limit
      <3>. HIDE DEF extra
      <3>6. sent[b] \in Int /\ sent'[b] \in Int /\ owed(calls, b) \in Int
            /\ owed(calls', b) \in Int /\ owed(Cancelled, b) \in Int
            /\ limit \in Int /\ Ahead(b) \in Int
        BY <1>1, <1>2, <1>3, <1>5, <1>6, <3>3
      <3>7. owed(Cancelled, b) <= owed(calls, b)
        BY <1>6
      <3>. QED  BY <1>4, <3>4, <3>5, <3>6, <3>7
    <2>4. CASE AckOfLast(a) \/ AckOfOther(a)
      <3>1. transfer' \in {None, transfer} /\ Quiet(Cancelled)
        BY <2>4 DEF AckOfLast, AckOfOther
      <3>2. sent'[b] = sent[b] /\ owed(calls', b) = owed(Cancelled, b)
        BY <1>6, <1>9, <3>1
      <3>3. Ahead(b)' \in {0, Ahead(b)}
        BY <3>1 DEF Ahead
      <3>. QED  BY <1>1, <1>2, <1>3, <1>4, <1>5, <1>6, <2>2, <3>2, <3>3 DEF limit
    <2>. QED  BY <2>1, <2>3, <2>4
  <1>14. CASE OnError
    <2>1. transfer' = None /\ UNCHANGED <<calls, sent, starts>>
      BY <1>14 DEF OnError, history
    <2>2. owed(calls', b) = owed(calls, b) /\ Ahead(b)' = 0
      BY <2>1 DEF owed, Ahead
    <2>. QED  BY <1>1, <1>2, <1>3, <1>4, <1>5, <2>1, <2>2 DEF limit
  <1>. QED  BY <1>10, <1>11, <1>12, <1>13, <1>14 DEF owed

LEMMA NextAccounts == Inductive /\ SendsAccounted /\ [Next]_vars => SendsAccounted'
  <1>. SUFFICES ASSUME Inductive, SendsAccounted, [Next]_vars  PROVE  SendsAccounted'
    OBVIOUS
  <1>1. CASE Timeout \/ OnRrq \/ StartTransfer \/ ResolveFails \/ OnAck \/ OnError
    BY <1>1, ServerAccounts
  <1>2. CASE Ask \/ ReceiveOack \/ ReceiveData \/ Abort \/ UNCHANGED vars
    <2>1. UNCHANGED <<transfer, calls, sent, starts>>
      BY <1>2 DEF Ask, ReceiveOack, ReceiveData, Abort, vars, server, history
    <2>. QED  BY <2>1 DEF SendsAccounted, Ahead
  <1>. QED  BY <1>1, <1>2 DEF Next

-----------------------------------------------------------------------------
(* The timer of the pending packet.                                        *)

\* The calls that SendAndArm leaves running.
LEMMA ArmedRuns ==
    ASSUME NEW p, NEW k, NEW q \in Seq(Call), SendAndArm(p, k, q)
    PROVE  \A b : b = p \/ (\E i \in DOMAIN q : q[i].packet = b)
                     => \E i \in DOMAIN calls' : calls'[i].packet = b
  <1>1. calls' = Append(q, [packet |-> p, attempt |-> k])
    BY DEF SendAndArm
  <1>2. /\ Len(q) \in Nat /\ DOMAIN q = 1 .. Len(q) /\ DOMAIN calls' = 1 .. Len(q) + 1
        /\ calls'[Len(q) + 1].packet = p
        /\ \A i \in 1 .. Len(q) : calls'[i] = q[i]
    BY <1>1
  <1>. QED  BY <1>2

LEMMA NextTimes == Inductive /\ PendingIsTimed /\ [Next]_vars => PendingIsTimed'
  <1>. SUFFICES ASSUME Inductive, PendingIsTimed, [Next]_vars,
                       transfer' # None, ~strayAck'
                PROVE  \E i \in DOMAIN calls' : calls'[i].packet = transfer'
    BY DEF PendingIsTimed
  <1>1. TypeOK /\ calls \in Seq(Call)
    BY DEF Inductive, TypeOK
  <1>2. transfer # None /\ ~strayAck => \E i \in DOMAIN calls : calls[i].packet = transfer
    BY DEF PendingIsTimed
  <1>3. CASE Timeout
    <2>. DEFINE c == Head(calls)
                r == Tail(calls)
    <2>1. /\ transfer' = transfer /\ strayAck' = strayAck /\ calls # <<>>
          /\ SendAndArm(c.packet, c.attempt + 1, r)
      BY <1>3 DEF Timeout
    <2>2. PICK i \in DOMAIN calls : calls[i].packet = transfer
      BY <1>2, <2>1
    <2>3. /\ r \in Seq(Call) /\ DOMAIN calls = 1 .. Len(calls) /\ c = calls[1]
          /\ Len(calls) \in Nat /\ DOMAIN r = 1 .. Len(calls) - 1
          /\ \A j \in 1 .. Len(calls) - 1 : r[j] = calls[j + 1]
      BY <1>1, <2>1
    <2>. HIDE DEF c, r
    <2>4. c.packet = transfer \/ \E j \in DOMAIN r : r[j].packet = transfer
      <3>1. CASE i = 1
        BY <2>2, <2>3, <3>1
      <3>2. CASE i # 1
        <4>1. i - 1 \in DOMAIN r /\ r[i - 1] = calls[i]
          BY <2>3, <3>2
        <4>. QED  BY <2>2, <4>1
      <3>. QED  BY <3>1, <3>2
    <2>. QED  BY <2>1, <2>3, <2>4, ArmedRuns
  <1>4. CASE StartTransfer
    <2>1. PICK first : transfer' = first /\ SendAndArm(first, 0, calls)
      BY <1>4 DEF StartTransfer
    <2>. QED  BY <1>1, <2>1, ArmedRuns
  <1>5. CASE OnAck
    <2>1. PICK b \in acks : AckOfPending(b) \/ AckOfLast(b) \/ AckOfOther(b)
      BY <1>5 DEF OnAck
    <2>2. transfer' = b + 1 /\ SendAndArm(b + 1, 0, Cancelled)
      BY <2>1 DEF AckOfPending, AckOfLast, AckOfOther
    <2>3. Cancelled \in Seq(Call)
      BY <1>1, OwedCancelled
    <2>. QED  BY <2>2, <2>3, ArmedRuns
  <1>6. CASE \/ OnRrq \/ ResolveFails \/ Ask \/ ReceiveOack \/ ReceiveData \/ Abort
             \/ UNCHANGED vars
    <2>1. UNCHANGED <<transfer, calls, strayAck>>
      BY <1>6 DEF OnRrq, ResolveFails, Ask, ReceiveOack, ReceiveData, Abort,
                  vars, server, history
    <2>. QED  BY <1>2, <2>1
  <1>7. CASE OnError
    BY <1>7 DEF OnError
  <1>. QED  BY <1>3, <1>4, <1>5, <1>6, <1>7 DEF Next

-----------------------------------------------------------------------------
(* The theorems.                                                           *)

\* The variables stay in their sets, whatever arrives and however often.
THEOREM TransferTyped == Spec => []TypeOK
  <1>1. Inductive => TypeOK
    BY DEF Inductive
  <1>. QED  BY <1>1, InductiveHolds, PTL

\* The server sends no block before the client has received all the earlier
\* ones, whatever ACKs arrive late and whichever transfers are begun anew.
THEOREM NothingSentAhead == Spec => []NeverAhead
  <1>1. Inductive => NeverAhead
    BY DEF Inductive, OneInFlight, NotAhead, NeverAhead
  <1>. QED  BY <1>1, InductiveHolds, PTL

\* An ACK that ends a transfer comes from a client that has every block.
THEOREM EndsDelivered == Spec => DoneMeansDelivered
  <1>1. Inductive /\ [Next]_vars => [OnAck /\ transfer' = None => got = Blocks]_vars
    <2>. SUFFICES ASSUME Inductive, OnAck, transfer' = None  PROVE  got = Blocks
      OBVIOUS
    <2>1. PICK b \in acks : AckOfPending(b) \/ AckOfLast(b) \/ AckOfOther(b)
      BY DEF OnAck
    <2>2. /\ b \in 0 .. Blocks /\ b <= got /\ got \in 0 .. Blocks /\ Blocks \in Nat
          /\ transfer # None /\ None \notin Nat
      <3>1. TypeOK /\ b <= got
        BY DEF Inductive, OneInFlight
      <3>2. acks \subseteq Packets /\ got \in Packets
        BY <3>1 DEF TypeOK
      <3>3. transfer # None
        BY DEF OnAck
      <3>. QED  BY <3>1, <3>2, <3>3, ConstantFacts
    <2>3. ~AckOfPending(b) /\ ~AckOfOther(b)
      BY <2>2 DEF AckOfPending, AckOfOther
    <2>4. b = Blocks
      BY <2>1, <2>3 DEF AckOfLast
    <2>. QED  BY <2>2, <2>4
  <1>. QED  BY <1>1, InductiveHolds, PTL DEF Spec, DoneMeansDelivered

\* What is in flight, what has been sent and what the timers still owe: the
\* inductive invariant of a client's transfers.
THEOREM TransferCorrect == Spec => [](TypeOK /\ TransferInvariant)
  <1>1. Spec => []SendsAccounted
    BY InductiveHolds, InitAccounted, NextAccounts, PTL DEF Spec
  <1>2. Inductive /\ SendsAccounted => TypeOK /\ TransferInvariant
    BY DEF Inductive, TransferInvariant
  <1>. QED  BY <1>1, <1>2, InductiveHolds, PTL

\* No packet is sent more than MaxRetransmits times for each transfer begun,
\* however many ACKs are repeated and whichever timers they leave running.
THEOREM NoApprentice == Spec => []SendsBounded
  <1>1. Inductive /\ SendsAccounted => SendsBounded
    <2>. SUFFICES ASSUME Inductive, SendsAccounted, NEW b \in Packets
                  PROVE  sent[b] <= MaxRetransmits * starts
      BY DEF SendsBounded
    <2>1. /\ calls \in Seq(Call) /\ sent[b] \in Nat /\ starts \in Nat
          /\ MaxRetransmits \in Nat
      BY TftpAssumption DEF Inductive, TypeOK
    <2>2. Cardinality(Owed(calls, {b})) \in Nat /\ Ahead(b) \in Nat
      BY <2>1, OwedCounted DEF Ahead
    <2>3. sent[b] + Cardinality(Owed(calls, {b})) + Ahead(b) <= MaxRetransmits * starts
      BY DEF SendsAccounted
    <2>4. MaxRetransmits * starts \in Nat
      BY <2>1, OneMoreTransfer
    <2>. QED  BY <2>1, <2>2, <2>3, <2>4
  <1>2. TransferInvariant => SendsAccounted
    BY DEF TransferInvariant
  <1>. QED  BY <1>1, <1>2, TransferCorrect, InductiveHolds, PTL

\* Until a stray ACK comes, a timer runs for the packet a transfer waits on,
\* whichever transfers have been begun anew and whichever timers were lost.
THEOREM PendingHasTimer == Spec => []PendingIsTimed
  <1>1. Init => PendingIsTimed
    BY DEF Init, PendingIsTimed
  <1>. QED  BY <1>1, NextTimes, InductiveHolds, PTL DEF Spec

\* Each timer that expires brings the timers nearer to their end: with
\* PendingHasTimer, the reason why a transfer is given up.
THEOREM TimersEnd == Spec => TimersRunDown
  <1>1. ASSUME Inductive, Timeout
        PROVE  Cardinality(Owed(calls, Packets))' + Len(calls')
                  < Cardinality(Owed(calls, Packets)) + Len(calls)
    <2>. DEFINE owed(q) == Cardinality(Owed(q, Packets))
                c == Head(calls)
                r == Tail(calls)
    <2>1. calls # <<>> /\ calls \in Seq(Call)
      BY <1>1 DEF Timeout, Inductive, TypeOK
    <2>2. /\ c \in Call /\ r \in Seq(Call) /\ Len(calls) \in Nat
          /\ Len(r) = Len(calls) - 1
      BY <2>1
    <2>3. /\ MaxRetransmits \in Nat \ {0} /\ c.attempt \in 0 .. MaxRetransmits - 1
          /\ c.packet \in Packets
      BY <2>2, TftpAssumption DEF Call
    <2>4. owed(calls) \in Nat /\ owed(r) \in Nat
          /\ owed(r) + (MaxRetransmits - 1 - c.attempt) <= owed(calls)
      BY <2>1, <2>2, <2>3, OwedExpired, OwedCounted
    <2>5. \/ Quiet(r)
          \/ c.attempt + 1 < MaxRetransmits /\ SendAndArm(c.packet, c.attempt + 1, r)
      BY <1>1 DEF Timeout
    <2>6. owed(calls)' = owed(calls')
      OBVIOUS
    <2>. SUFFICES owed(calls') + Len(calls') < owed(calls) + Len(calls)
      BY <2>6
    <2>. HIDE DEF owed, c, r
    <2>7. CASE Quiet(r)
      <3>1. calls' = r
        BY <2>7 DEF Quiet
      <3>. QED  BY <2>2, <2>3, <2>4, <3>1
    <2>8. CASE c.attempt + 1 < MaxRetransmits /\ SendAndArm(c.packet, c.attempt + 1, r)
      <3>. DEFINE d == [packet |-> c.packet, attempt |-> c.attempt + 1]
      <3>1. d \in Call /\ d.packet = c.packet /\ d.attempt = c.attempt + 1
        BY <2>3, <2>8 DEF Call
      <3>2. calls' = Append(r, d)
        BY <2>8 DEF SendAndArm
      <3>. HIDE DEF d
      <3>3. Len(calls') = Len(r) + 1 /\ calls' \in Seq(Call)
        BY <2>2, <3>1, <3>2
      <3>4. /\ owed(calls') \in Nat
            /\ owed(calls') <= owed(r) + (MaxRetransmits - 1 - d.attempt)
        BY <2>2, <2>3, <3>1, <3>2, <3>3, OwedAppended, OwedCounted DEF owed
      <3>. QED  BY <2>2, <2>3, <2>4, <3>1, <3>3, <3>4
    <2>. QED  BY <2>5, <2>7, <2>8
  <1>2. Inductive => [Timeout => Cardinality(Owed(calls, Packets))' + Len(calls')
                         < Cardinality(Owed(calls, Packets)) + Len(calls)]_vars
    BY <1>1
  <1>. QED  BY <1>2, InductiveHolds, PTL DEF Spec, TimersRunDown
=============================================================================
