---------------------------- MODULE QueueLemmas ----------------------------
(***************************************************************************)
(* What appending to, dropping the head of and removing from a FIFO queue  *)
(* do to its entries.  Queues are sequences; a queue without duplicates is *)
(* an injective one.                                                       *)
(***************************************************************************)
EXTENDS Queues, SequencesExt, SequenceTheorems, FiniteSetTheorems, FunctionTheorems,
        TLAPS

\* Appending to the queue adds one entry and leaves the head alone.
LEMMA AppendToQueue ==
    ASSUME NEW S, NEW q \in Seq(S), NEW e \in S
    PROVE  /\ Append(q, e) \in Seq(S)
           /\ Append(q, e) # <<>>
           /\ ToSet(Append(q, e)) = ToSet(q) \cup {e}
           /\ IsInjective(q) /\ e \notin ToSet(q) => IsInjective(Append(q, e))
           /\ q # <<>> => Head(Append(q, e)) = Head(q)
           /\ q = <<>> => Head(Append(q, e)) = e
<1> DEFINE a == Append(q, e)
<1>1. /\ a \in Seq(S) /\ Len(a) = Len(q) + 1 /\ Len(q) \in Nat
      /\ \A i \in 1..Len(q) : a[i] = q[i]
      /\ a[Len(q) + 1] = e
      /\ DOMAIN a = 1..Len(a) /\ DOMAIN q = 1..Len(q)
  OBVIOUS
<1> HIDE DEF a
<1>2. a # <<>>
  BY <1>1
<1>3. ToSet(a) = ToSet(q) \cup {e}
  BY <1>1 DEF ToSet
<1>4. IsInjective(q) /\ e \notin ToSet(q) => IsInjective(a)
  BY <1>1 DEF ToSet, IsInjective
<1>5. /\ q # <<>> => Head(a) = Head(q)
      /\ q = <<>> => Head(a) = e
  BY <1>1, <1>2
<1> QED
  BY <1>1, <1>2, <1>3, <1>4, <1>5 DEF a

\* Dropping the head of a queue without duplicates removes that entry only.
LEMMA TailOfQueue ==
    ASSUME NEW S, NEW q \in Seq(S), q # <<>>
    PROVE  /\ Tail(q) \in Seq(S)
           /\ ToSet(q) = ToSet(Tail(q)) \cup {Head(q)}
           /\ IsInjective(q) => IsInjective(Tail(q)) /\ Head(q) \notin ToSet(Tail(q))
<1> DEFINE t == Tail(q)
<1>1. /\ t \in Seq(S) /\ Len(t) = Len(q) - 1 /\ Len(q) \in Nat \ {0}
      /\ \A i \in 1..Len(t) : t[i] = q[i + 1]
      /\ Head(q) = q[1]
      /\ DOMAIN t = 1..Len(t) /\ DOMAIN q = 1..Len(q)
  OBVIOUS
<1> HIDE DEF t
<1>2. ToSet(q) = ToSet(t) \cup {Head(q)}
  <2>1. ASSUME NEW x \in ToSet(q), x # Head(q) PROVE x \in ToSet(t)
    <3>1. PICK i \in 1..Len(q) : x = q[i] /\ i # 1
      BY <1>1, <2>1 DEF ToSet
    <3>2. i - 1 \in 1..Len(t) /\ t[i - 1] = x
      BY <1>1, <3>1
    <3> QED
      BY <1>1, <3>2 DEF ToSet
  <2>2. ToSet(t) \subseteq ToSet(q) /\ Head(q) \in ToSet(q)
    BY <1>1 DEF ToSet
  <2> QED
    BY <2>1, <2>2
<1>3. ASSUME IsInjective(q) PROVE IsInjective(t) /\ Head(q) \notin ToSet(t)
  <2>1. \A i, j \in 1..Len(q) : q[i] = q[j] => i = j
    BY <1>1, <1>3 DEF IsInjective
  <2>2. IsInjective(t)
    <3>1. ASSUME NEW i \in 1..Len(t), NEW j \in 1..Len(t), t[i] = t[j] PROVE i = j
      <4>1. i + 1 \in 1..Len(q) /\ j + 1 \in 1..Len(q) /\ q[i + 1] = q[j + 1]
        BY <1>1, <3>1
      <4> QED
        BY <2>1, <4>1
    <3> QED
      BY <1>1, <3>1 DEF IsInjective
  <2>3. Head(q) \notin ToSet(t)
    <3>1. ASSUME NEW i \in 1..Len(t), t[i] = Head(q) PROVE FALSE
      BY <1>1, <2>1, <3>1
    <3> QED
      BY <1>1, <3>1 DEF ToSet
  <2> QED
    BY <2>2, <2>3
<1> QED
  BY <1>1, <1>2, <1>3 DEF t

\* Putting one queue behind another adds its entries and leaves the head alone.
LEMMA ConcatQueues ==
    ASSUME NEW S, NEW q \in Seq(S), NEW p \in Seq(S)
    PROVE  /\ q \o p \in Seq(S)
           /\ ToSet(q \o p) = ToSet(q) \cup ToSet(p)
           /\ IsInjective(q) /\ IsInjective(p) /\ ToSet(q) \cap ToSet(p) = {} =>
                IsInjective(q \o p)
           /\ q # <<>> => /\ q \o p # <<>> /\ Head(q \o p) = Head(q)
                         /\ Tail(q \o p) = Tail(q) \o p
           /\ q = <<>> => q \o p = p
<1> DEFINE r == q \o p
<1>1. /\ r \in Seq(S) /\ Len(r) = Len(q) + Len(p) /\ Len(q) \in Nat /\ Len(p) \in Nat
      /\ \A i \in 1..Len(r) : r[i] = IF i <= Len(q) THEN q[i] ELSE p[i - Len(q)]
      /\ DOMAIN r = 1..Len(r) /\ DOMAIN q = 1..Len(q) /\ DOMAIN p = 1..Len(p)
  BY ConcatProperties
<1>2. q # <<>> => r # <<>> /\ Head(r) = Head(q) /\ Tail(r) = Tail(q) \o p
  OBVIOUS
<1>3. q = <<>> => r = p
  OBVIOUS
<1> HIDE DEF r
<1>4. ToSet(r) = ToSet(q) \cup ToSet(p)
  <2>1. ASSUME NEW i \in 1..Len(q) PROVE q[i] \in ToSet(r)
    <3>1. i \in 1..Len(r) /\ r[i] = q[i]
      BY <1>1
    <3> QED
      BY <1>1, <3>1 DEF ToSet
  <2>2. ASSUME NEW i \in 1..Len(p) PROVE p[i] \in ToSet(r)
    <3>1. i + Len(q) \in 1..Len(r) /\ r[i + Len(q)] = p[i]
      BY <1>1, SMTT(20)
    <3> QED
      BY <1>1, <3>1 DEF ToSet
  <2>3. ASSUME NEW i \in 1..Len(r) PROVE r[i] \in ToSet(q) \cup ToSet(p)
    <3>1. CASE i <= Len(q)
      BY <1>1, <3>1, SMTT(20) DEF ToSet
    <3>2. CASE i > Len(q)
      <4>1. i - Len(q) \in 1..Len(p) /\ r[i] = p[i - Len(q)]
        BY <1>1, <3>2
      <4> QED
        BY <1>1, <4>1 DEF ToSet
    <3> QED
      BY <1>1, <3>1, <3>2
  <2> QED
    BY <1>1, <2>1, <2>2, <2>3 DEF ToSet
<1>5. ASSUME IsInjective(q), IsInjective(p), ToSet(q) \cap ToSet(p) = {}
      PROVE  IsInjective(r)
  <2>1. ASSUME NEW i \in 1..Len(r), NEW j \in 1..Len(r), r[i] = r[j], i <= j
        PROVE  i = j
    <3>1. CASE j <= Len(q)
      BY <1>1, <1>5, <2>1, <3>1, SMTT(20) DEF IsInjective
    <3>2. CASE i > Len(q)
      <4>1. i - Len(q) \in 1..Len(p) /\ j - Len(q) \in 1..Len(p)
            /\ p[i - Len(q)] = p[j - Len(q)]
        BY <1>1, <2>1, <3>2
      <4>2. i - Len(q) = j - Len(q)
        BY <1>1, <1>5, <4>1 DEF IsInjective
      <4> QED
        BY <1>1, <4>2
    <3>3. CASE i <= Len(q) /\ j > Len(q)
      <4>1. i \in 1..Len(q) /\ j - Len(q) \in 1..Len(p) /\ q[i] = p[j - Len(q)]
        BY <1>1, <2>1, <3>3
      <4> QED
        BY <1>1, <1>5, <4>1 DEF ToSet
    <3> QED
      BY <1>1, <2>1, <3>1, <3>2, <3>3
  <2>2. \A i, j \in 1..Len(r) : i <= j \/ j <= i
    BY <1>1
  <2>3. \A i, j \in 1..Len(r) : r[i] = r[j] => i = j
    BY <2>1, <2>2
  <2> QED
    BY <1>1, <2>3 DEF IsInjective
<1> QED
  BY <1>1, <1>2, <1>3, <1>4, <1>5 DEF r

\* The head is one of the queue's entries.
LEMMA HeadOfQueue ==
    ASSUME NEW S, NEW q \in Seq(S), q # <<>>
    PROVE  Head(q) \in S /\ Head(q) \in ToSet(q)
<1>1. Head(q) = q[1] /\ 1 \in DOMAIN q /\ q[1] \in S
  OBVIOUS
<1> QED
  BY <1>1 DEF ToSet

\* The entries are of the set the queue is over.
LEMMA QueueInSet ==
    ASSUME NEW S, NEW q \in Seq(S)
    PROVE  ToSet(q) \subseteq S
<1>1. \A i \in DOMAIN q : q[i] \in S
  OBVIOUS
<1> QED
  BY <1>1 DEF ToSet

\* Removing an entry from a queue without duplicates leaves the others in
\* order: the head stays, unless it is the entry removed.
LEMMA RemoveFromQueue ==
    ASSUME NEW S, NEW q \in Seq(S), NEW e, IsInjective(q)
    PROVE  /\ RemoveFirst(q, e) \in Seq(S)
           /\ IsInjective(RemoveFirst(q, e))
           /\ ToSet(RemoveFirst(q, e)) = ToSet(q) \ {e}
           /\ q # <<>> /\ Head(q) # e =>
                RemoveFirst(q, e) # <<>> /\ Head(RemoveFirst(q, e)) = Head(q)
           /\ \A i, j \in 1..Len(q) : i < j /\ q[i] # e /\ q[j] # e =>
                \E k, l \in 1..Len(RemoveFirst(q, e)) :
                    k < l /\ RemoveFirst(q, e)[k] = q[i] /\ RemoveFirst(q, e)[l] = q[j]
<1>1. CASE ~ \E i \in 1..Len(q) : q[i] = e
  <2>1. RemoveFirst(q, e) = q
    BY <1>1 DEF RemoveFirst
  <2>2. e \notin ToSet(q)
    BY <1>1 DEF ToSet
  <2> QED
    BY <2>1, <2>2
<1>2. CASE \E i \in 1..Len(q) : q[i] = e
  <2> DEFINE I == {i \in 1..Len(q) : q[i] = e}
             n == Min(I)
             r == SubSeq(q, 1, n - 1) \o SubSeq(q, n + 1, Len(q))
  <2>1. RemoveFirst(q, e) = r
    BY <1>2 DEF RemoveFirst, RemoveAt, SelectInSeq
  <2>2. \E k \in 1..Len(q) : I = {k}
    BY <1>2 DEF IsInjective
  <2>3. n \in 1..Len(q) /\ q[n] = e
    BY <2>2 DEF Min
  <2> HIDE DEF n
  <2> DEFINE s == SubSeq(q, 1, n - 1)
             t == SubSeq(q, n + 1, Len(q))
  <2>4. /\ s \in Seq(S) /\ Len(s) = n - 1
        /\ \A i \in 1..n-1 : s[i] = q[i]
    BY <2>3
  <2>5. /\ t \in Seq(S) /\ Len(t) = Len(q) - n
        /\ \A i \in 1..Len(q)-n : t[i] = q[n + i]
    <3>1. \A i \in n+1..Len(q) : q[i] \in S
      BY <2>3
    <3> QED
      BY <2>3, <3>1, SubSeqProperties
  <2> HIDE DEF s, t, r
  <2>6. /\ r \in Seq(S) /\ Len(r) = Len(s) + Len(t)
        /\ \A i \in 1..Len(s)+Len(t) : r[i] = IF i <= Len(s) THEN s[i] ELSE t[i - Len(s)]
    <3>1. r = s \o t
      BY DEF r, s, t
    <3> QED
      BY <2>4, <2>5, <3>1, ConcatProperties
  <2>7. /\ Len(r) = Len(q) - 1 /\ Len(q) \in Nat
        /\ \A i \in 1..Len(r) : r[i] = IF i < n THEN q[i] ELSE q[i + 1]
    <3>1. Len(q) \in Nat
      OBVIOUS
    <3>2. Len(r) = Len(q) - 1
      BY <2>3, <2>4, <2>5, <2>6, <3>1
    <3>3. ASSUME NEW i \in 1..Len(r), i < n PROVE r[i] = q[i]
      BY <2>3, <2>4, <2>5, <2>6, <3>1, <3>3
    <3>4. ASSUME NEW i \in 1..Len(r), i >= n PROVE r[i] = q[i + 1]
      <4>1. r[i] = t[i - (n - 1)] /\ i - (n - 1) \in 1..Len(q)-n
        BY <2>3, <2>4, <2>5, <2>6, <3>1, <3>2, <3>4
      <4> QED
        BY <2>3, <2>5, <3>1, <4>1, SMTT(20)
    <3> QED
      BY <2>3, <3>1, <3>2, <3>3, <3>4
  <2>8. IsInjective(r)
    <3>1. \A i, j \in 1..Len(q) : q[i] = q[j] => i = j
      BY DEF IsInjective
    <3>2. ASSUME NEW i \in 1..Len(r), NEW j \in 1..Len(r), r[i] = r[j] PROVE i = j
      <4> DEFINE k == IF i < n THEN i ELSE i + 1
                 l == IF j < n THEN j ELSE j + 1
      <4>1. k \in 1..Len(q) /\ l \in 1..Len(q) /\ q[k] = q[l]
        BY <2>3, <2>7, <3>2
      <4>2. k = l
        BY <3>1, <4>1
      <4> QED
        BY <2>3, <2>7, <4>2
    <3> QED
      BY <2>6, <3>2 DEF IsInjective
  <2>9. ToSet(r) = ToSet(q) \ {e}
    <3>1. ASSUME NEW x \in ToSet(r) PROVE x \in ToSet(q) /\ x # e
      <4>1. PICK i \in 1..Len(r) : x = r[i]
        BY <2>6 DEF ToSet
      <4>2. PICK j \in 1..Len(q) : x = q[j] /\ j # n
        BY <2>3, <2>7, <4>1
      <4> QED
        BY <2>3, <4>2 DEF IsInjective, ToSet
    <3>2. ASSUME NEW x \in ToSet(q), x # e PROVE x \in ToSet(r)
      <4>1. PICK j \in 1..Len(q) : x = q[j] /\ j # n
        BY <2>3, <3>2 DEF ToSet
      <4>2. PICK i \in 1..Len(r) : x = r[i]
        <5>1. CASE j < n
          BY <2>3, <2>7, <4>1, <5>1
        <5>2. CASE j > n
          <6>1. j - 1 \in 1..Len(r) /\ r[j - 1] = q[j]
            BY <2>3, <2>7, <5>2
          <6> QED
            BY <4>1, <6>1
        <5> QED
          BY <2>3, <4>1, <5>1, <5>2
      <4> QED
        BY <2>6, <4>2 DEF ToSet
    <3> QED
      BY <3>1, <3>2
  <2>10. ASSUME q # <<>>, Head(q) # e
         PROVE  r # <<>> /\ Head(r) = Head(q)
    <3>1. Head(q) = q[1] /\ n # 1
      BY <2>3, <2>10
    <3>2. Len(r) # 0 /\ r[1] = q[1]
      BY <2>3, <2>7, <3>1
    <3> QED
      BY <2>6, <3>1, <3>2
  <2>11. ASSUME NEW i \in 1..Len(q), NEW j \in 1..Len(q), i < j, q[i] # e, q[j] # e
         PROVE  \E k, l \in 1..Len(r) : k < l /\ r[k] = q[i] /\ r[l] = q[j]
    <3> DEFINE k == IF i < n THEN i ELSE i - 1
               l == IF j < n THEN j ELSE j - 1
    <3>1. i # n /\ j # n
      BY <2>3, <2>11
    <3>2. k \in 1..Len(r) /\ r[k] = q[i]
      BY <2>3, <2>7, <2>11, <3>1
    <3>3. l \in 1..Len(r) /\ r[l] = q[j]
      BY <2>3, <2>7, <2>11, <3>1
    <3>4. k < l
      BY <2>3, <2>11, <3>1
    <3> QED
      BY <3>2, <3>3, <3>4
  <2> QED
    BY <2>1, <2>6, <2>8, <2>9, <2>10, <2>11
<1> QED
  BY <1>1, <1>2

\* Induction over the naturals, for a set instead of a predicate.
LEMMA NatSetInduction ==
    ASSUME NEW T, 0 \in T, \A n \in Nat : n \in T => n + 1 \in T
    PROVE  Nat \subseteq T
<1> SUFFICES ASSUME NEW n \in Nat, n \notin T PROVE FALSE
  OBVIOUS
<1> DEFINE A == {i \in 0..n : i \notin T}
           pred == [i \in A |-> i - 1]
<1>1. n \in A /\ A \in SUBSET (0..n)
  OBVIOUS
<1>2. ASSUME NEW i \in A PROVE i - 1 \in A
  <2>1. i # 0 /\ i - 1 \in 0..n
    OBVIOUS
  <2> QED
    BY <2>1
<1>3. pred \in Injection(A, A)
  <2>1. \A i, j \in A : i - 1 = j - 1 => i = j
    OBVIOUS
  <2> QED
    BY <1>2, <2>1 DEF Injection, IsInjective
<1>4. IsFiniteSet(A)
  <2>1. IsFiniteSet(0..n)
    BY FS_Interval
  <2> HIDE DEF A
  <2> QED
    BY <1>1, <2>1, FS_Subset
<1> HIDE DEF A
<1>5. pred \in Surjection(A, A)
  BY <1>3, <1>4, FS_Injection
<1> USE DEF A
<1>6. PICK i \in A : i - 1 = n
  BY <1>1, <1>5 DEF Surjection
<1> QED
  BY <1>6

\* A function defined by recursion is a choice.
LEMMA RemaindersChoice ==
    ASSUME NEW q, NEW S
    PROVE  Remainders(q, S) = CHOOSE g : g = [n \in 0..Len(q) |->
               IF n = 0 THEN <<>>
               ELSE IF q[n] \in S THEN g[n - 1] ELSE Append(g[n - 1], q[n])]
BY DEF Remainders

\* The definition by recursion has its meaning.
LEMMA RemaindersDef ==
    ASSUME NEW q, NEW S, Len(q) \in Nat
    PROVE  Remainders(q, S) = [n \in 0..Len(q) |->
               IF n = 0 THEN <<>>
               ELSE IF q[n] \in S THEN Remainders(q, S)[n - 1]
               ELSE Append(Remainders(q, S)[n - 1], q[n])]
<1> DEFINE Rec(g, m) == g = [n \in 0..m |->
               IF n = 0 THEN <<>>
               ELSE IF q[n] \in S THEN g[n - 1] ELSE Append(g[n - 1], q[n])]
           T == {m \in Nat : \E g : Rec(g, m)}
<1>1. 0 \in T
  <2>1. Rec([n \in 0..0 |-> <<>>], 0)
    OBVIOUS
  <2> QED
    BY <2>1
<1>2. ASSUME NEW m \in Nat, m \in T PROVE m + 1 \in T
  <2>1. PICK g : Rec(g, m)
    BY <1>2
  <2> DEFINE h == [n \in 0..m+1 |->
               IF n <= m THEN g[n]
               ELSE IF q[n] \in S THEN g[m] ELSE Append(g[m], q[n])]
  <2>2. Rec(h, m + 1)
    <3>1. ASSUME NEW n \in 0..m+1
          PROVE  h[n] = IF n = 0 THEN <<>>
                        ELSE IF q[n] \in S THEN h[n - 1] ELSE Append(h[n - 1], q[n])
      <4>1. CASE n = 0
        BY <2>1, <4>1
      <4>2. CASE n # 0 /\ n <= m
        <5>0. n \in 0..m
          BY <4>2
        <5>1. g[n] = IF q[n] \in S THEN g[n - 1] ELSE Append(g[n - 1], q[n])
          BY <2>1, <4>2, <5>0
        <5>2. h[n] = g[n] /\ h[n - 1] = g[n - 1]
          BY <4>2
        <5> QED
          BY <4>2, <5>1, <5>2
      <4>3. CASE n = m + 1
        BY <4>3
      <4> QED
        BY <4>1, <4>2, <4>3
    <3> QED
      BY <3>1
  <2> HIDE DEF h
  <2> QED
    BY <2>2, SMTT(20)
<1> HIDE DEF T
<1>3. Len(q) \in T
  BY <1>1, <1>2, NatSetInduction
<1> USE DEF T
<1>4. \E g : Rec(g, Len(q))
  BY <1>3
<1>5. Remainders(q, S) = CHOOSE g : Rec(g, Len(q))
  BY RemaindersChoice
<1> QED
  BY <1>4, <1>5

\* The remainders grow entry by entry.
LEMMA RemaindersAt ==
    ASSUME NEW q, NEW S, Len(q) \in Nat
    PROVE  /\ Remainders(q, S)[0] = <<>>
           /\ \A n \in 1..Len(q) : Remainders(q, S)[n] =
                  IF q[n] \in S THEN Remainders(q, S)[n - 1]
                  ELSE Append(Remainders(q, S)[n - 1], q[n])
<1> DEFINE R == Remainders(q, S)
<1>1. R = [n \in 0..Len(q) |->
               IF n = 0 THEN <<>>
               ELSE IF q[n] \in S THEN R[n - 1] ELSE Append(R[n - 1], q[n])]
  BY RemaindersDef
<1> HIDE DEF R
<1>2. R[0] = <<>>
  BY <1>1
<1>3. ASSUME NEW n \in 1..Len(q)
      PROVE  R[n] = IF q[n] \in S THEN R[n - 1] ELSE Append(R[n - 1], q[n])
  <2>1. n \in 0..Len(q) /\ n # 0
    OBVIOUS
  <2> QED
    BY <1>1, <2>1
<1> QED
  BY <1>2, <1>3 DEF R

\* Taking entries out of a queue leaves the others, and adds no duplicates.
LEMMA WithoutEntries ==
    ASSUME NEW T, NEW q \in Seq(T), NEW S
    PROVE  /\ Without(q, S) \in Seq(T)
           /\ ToSet(Without(q, S)) = ToSet(q) \ S
           /\ IsInjective(q) => IsInjective(Without(q, S))
           /\ ToSet(q) \cap S = {} => Without(q, S) = q
<1> DEFINE R == Remainders(q, S)
           N == Len(q)
           Up(n) == {q[i] : i \in 1..n}
           Fits(n) == /\ R[n] \in Seq(T)
                      /\ ToSet(R[n]) = Up(n) \ S
                      /\ IsInjective(q) => IsInjective(R[n])
                      /\ ToSet(q) \cap S = {} => R[n] = [i \in 1..n |-> q[i]]
           P == {n \in Nat : n <= N => Fits(n)}
<1>1. /\ N \in Nat /\ DOMAIN q = 1..N
      /\ \A i \in 1..N : q[i] \in T
  OBVIOUS
<1>2. R[0] = <<>> /\ \A n \in 1..N : R[n] = IF q[n] \in S THEN R[n - 1]
                                           ELSE Append(R[n - 1], q[n])
  BY <1>1, RemaindersAt
<1> HIDE DEF R
<1>3. 0 \in P
  <2>1. R[0] = <<>> /\ Up(0) = {} /\ ToSet(<<>>) = {} /\ IsInjective(<<>>)
    BY <1>2 DEF ToSet, IsInjective
  <2>2. <<>> \in Seq(T) /\ <<>> = [i \in 1..0 |-> q[i]]
    OBVIOUS
  <2> QED
    BY <2>1, <2>2
<1>4. ASSUME NEW m \in Nat, m \in P PROVE m + 1 \in P
  <2> SUFFICES ASSUME m + 1 <= N PROVE Fits(m + 1)
    OBVIOUS
  <2> DEFINE n == m + 1
  <2>1. /\ n \in 1..N /\ n - 1 = m /\ q[n] \in T /\ q[n] \in ToSet(q)
        /\ Fits(m)
    <3>1. n \in 1..N /\ n - 1 = m /\ m <= N
      BY <1>1
    <3>2. q[n] \in T /\ q[n] \in ToSet(q)
      BY <1>1, <3>1 DEF ToSet
    <3>3. Fits(m)
      BY <1>4, <3>1
    <3> HIDE DEF Fits, n, N
    <3> QED
      BY <3>1, <3>2, <3>3
  <2>2. Up(n) = Up(m) \cup {q[n]}
    <3>1. 1..n = (1..m) \cup {n}
      OBVIOUS
    <3> QED
      BY <3>1
  <2>3. CASE q[n] \in S
    <3>1. R[n] = R[m]
      BY <1>2, <2>1, <2>3
    <3>2. ToSet(q) \cap S # {}
      BY <2>1, <2>3
    <3> QED
      BY <2>1, <2>2, <2>3, <3>1, <3>2
  <2>4. CASE q[n] \notin S
    <3>1. R[n] = Append(R[m], q[n])
      BY <1>2, <2>1, <2>4
    <3>2. /\ R[n] \in Seq(T) /\ ToSet(R[n]) = ToSet(R[m]) \cup {q[n]}
          /\ IsInjective(R[m]) /\ q[n] \notin ToSet(R[m]) => IsInjective(R[n])
      BY <2>1, <3>1, AppendToQueue, SMTT(20)
    <3>3. ToSet(R[n]) = Up(n) \ S
      BY <2>1, <2>2, <2>4, <3>2
    <3>4. ASSUME IsInjective(q) PROVE IsInjective(R[n])
      <4>1. q[n] \notin Up(m)
        BY <1>1, <2>1, <3>4 DEF IsInjective
      <4> QED
        BY <2>1, <3>2, <3>4, <4>1
    <3>5. ASSUME ToSet(q) \cap S = {} PROVE R[n] = [i \in 1..n |-> q[i]]
      <4> DEFINE p == [i \in 1..m |-> q[i]]
      <4>1. p \in Seq(T) /\ Len(p) = m
        BY <1>1, <2>1
      <4>2. Append(p, q[n]) = [i \in 1..n |-> q[i]]
        BY <1>1, <2>1, <4>1
      <4> QED
        BY <2>1, <3>1, <3>5, <4>2
    <3> QED
      BY <3>2, <3>3, <3>4, <3>5
  <2> QED
    BY <2>3, <2>4
<1> HIDE DEF P
<1>5. N \in P
  BY <1>1, <1>3, <1>4, NatSetInduction
<1> USE DEF P
<1>6. Fits(N)
  BY <1>1, <1>5
<1>7. Up(N) = ToSet(q) /\ [i \in 1..N |-> q[i]] = q
  BY <1>1 DEF ToSet
<1> QED
  BY <1>6, <1>7 DEF Without, R

\* The head goes or stays by itself.
LEMMA WithoutHead ==
    ASSUME NEW T, NEW q \in Seq(T), NEW S, q # <<>>, Head(q) \notin S
    PROVE  /\ Without(q, S) # <<>>
           /\ Head(Without(q, S)) = Head(q)
           /\ Tail(Without(q, S)) = Without(Tail(q), S)
<1> DEFINE t == Tail(q)
           R == Remainders(q, S)
           Q == Remainders(t, S)
           a == Head(q)
           P == {n \in Nat : n <= Len(t) => Q[n] \in Seq(T) /\ R[n + 1] = <<a>> \o Q[n]}
<1>1. /\ t \in Seq(T) /\ Len(t) \in Nat /\ Len(q) = Len(t) + 1
      /\ \A i \in 1..Len(t) : t[i] = q[i + 1] /\ t[i] \in T
      /\ a = q[1] /\ a \in T
  OBVIOUS
<1> HIDE DEF t, a
<1>2. R[0] = <<>> /\ \A n \in 1..Len(q) : R[n] = IF q[n] \in S THEN R[n - 1]
                                                ELSE Append(R[n - 1], q[n])
  BY <1>1, RemaindersAt
<1>3. Q[0] = <<>> /\ \A n \in 1..Len(t) : Q[n] = IF t[n] \in S THEN Q[n - 1]
                                                ELSE Append(Q[n - 1], t[n])
  BY <1>1, RemaindersAt
<1> HIDE DEF R, Q
<1>4. 0 \in P
  <2>1. R[1] = Append(R[0], q[1])
    <3>1. q[1] \notin S /\ 1 \in 1..Len(q)
      BY <1>1 DEF a
    <3>2. R[1] = IF q[1] \in S THEN R[1 - 1] ELSE Append(R[1 - 1], q[1])
      BY <1>2, <3>1
    <3> QED
      BY <3>1, <3>2
  <2>2. R[0 + 1] = <<a>> \o Q[0]
    BY <1>1, <1>2, <1>3, <2>1
  <2>3. Q[0] \in Seq(T)
    BY <1>3
  <2> HIDE DEF P
  <2>4. ASSUME 0 <= Len(t) => Q[0] \in Seq(T) /\ R[0 + 1] = <<a>> \o Q[0]
        PROVE  0 \in P
    BY <2>4 DEF P
  <2> QED
    BY <2>2, <2>3, <2>4
<1>5. ASSUME NEW m \in Nat, m \in P PROVE m + 1 \in P
  <2> SUFFICES ASSUME m + 1 <= Len(t)
               PROVE  Q[m + 1] \in Seq(T) /\ R[m + 2] = <<a>> \o Q[m + 1]
    OBVIOUS
  <2>1. /\ Q[m] \in Seq(T) /\ R[m + 1] = <<a>> \o Q[m]
        /\ t[m + 1] = q[m + 2] /\ t[m + 1] \in T
    <3>1. m + 1 \in 1..Len(t) /\ m <= Len(t) /\ (m + 1) + 1 = m + 2
      BY <1>1
    <3> QED
      BY <1>1, <1>5, <3>1
  <2>2. R[m + 2] = IF t[m + 1] \in S THEN R[m + 1] ELSE Append(R[m + 1], t[m + 1])
    <3>1. m + 2 \in 1..Len(q) /\ (m + 2) - 1 = m + 1
      BY <1>1
    <3>2. R[m + 2] = IF q[m + 2] \in S THEN R[(m + 2) - 1]
                     ELSE Append(R[(m + 2) - 1], q[m + 2])
      BY <1>2, <3>1
    <3> QED
      BY <2>1, <3>1, <3>2
  <2>3. Q[m + 1] = IF t[m + 1] \in S THEN Q[m] ELSE Append(Q[m], t[m + 1])
    BY <1>3
  <2>4. Append(<<a>> \o Q[m], t[m + 1]) = <<a>> \o Append(Q[m], t[m + 1])
    <3>1. ASSUME NEW u \in Seq(T), NEW x \in T
          PROVE  Append(<<a>> \o u, x) = <<a>> \o Append(u, x)
      BY <1>1
    <3> QED
      BY <2>1, <3>1
  <2> QED
    BY <1>1, <2>1, <2>2, <2>3, <2>4, SMTT(20)
<1> HIDE DEF P
<1>6. Len(t) \in P
  BY <1>1, <1>4, <1>5, NatSetInduction
<1> USE DEF P
<1>7. Q[Len(t)] \in Seq(T) /\ R[Len(q)] = <<a>> \o Q[Len(t)]
  BY <1>1, <1>6
<1>8. Without(q, S) = R[Len(q)] /\ Without(t, S) = Q[Len(t)]
  BY DEF Without, R, Q
<1> QED
  BY <1>1, <1>7, <1>8 DEF t, a

\* Taking entries out of a queue leaves the others in their order.
LEMMA WithoutOrder ==
    ASSUME NEW T, NEW q \in Seq(T), NEW S, NEW R,
           \A i, j \in 1..Len(q) : i < j => <<q[i], q[j]>> \in R
    PROVE  \A i, j \in 1..Len(Without(q, S)) :
               i < j => <<Without(q, S)[i], Without(q, S)[j]>> \in R
<1> DEFINE L == Remainders(q, S)
           N == Len(q)
           InOrder(n) == \A i, j \in 1..Len(L[n]) : i < j => <<L[n][i], L[n][j]>> \in R
           Old(n) == \A i \in 1..Len(L[n]) : \E k \in 1..n : L[n][i] = q[k]
           P == {n \in Nat : n <= N => L[n] \in Seq(T) /\ InOrder(n) /\ Old(n)}
<1>1. N \in Nat /\ \A i \in 1..N : q[i] \in T
  OBVIOUS
<1>2. L[0] = <<>> /\ \A n \in 1..N : L[n] = IF q[n] \in S THEN L[n - 1]
                                           ELSE Append(L[n - 1], q[n])
  BY <1>1, RemaindersAt
<1> HIDE DEF L
<1>3. 0 \in P
  <2>1. L[0] \in Seq(T) /\ Len(L[0]) = 0
    BY <1>2
  <2> QED
    BY <2>1
<1>4. ASSUME NEW m \in Nat, m \in P PROVE m + 1 \in P
  <2> SUFFICES ASSUME m + 1 <= N
               PROVE  L[m + 1] \in Seq(T) /\ InOrder(m + 1) /\ Old(m + 1)
    OBVIOUS
  <2>1. L[m] \in Seq(T) /\ InOrder(m) /\ Old(m)
    <3>1. m <= N
      BY <1>1
    <3> HIDE DEF InOrder, Old
    <3> QED
      BY <1>4, <3>1
  <2>2. m + 1 \in 1..N /\ (m + 1) - 1 = m /\ q[m + 1] \in T
    BY <1>1
  <2>3. CASE q[m + 1] \in S
    <3>1. L[m + 1] = L[m]
      BY <1>2, <2>2, <2>3
    <3> QED
      BY <2>1, <3>1
  <2>4. CASE q[m + 1] \notin S
    <3>1. L[m + 1] = Append(L[m], q[m + 1])
      BY <1>2, <2>2, <2>4
    <3>2. /\ L[m + 1] \in Seq(T) /\ Len(L[m + 1]) = Len(L[m]) + 1 /\ Len(L[m]) \in Nat
          /\ \A i \in 1..Len(L[m]) : L[m + 1][i] = L[m][i]
          /\ L[m + 1][Len(L[m]) + 1] = q[m + 1]
      BY <2>1, <2>2, <3>1
    <3>3. Old(m + 1)
      BY <2>1, <2>2, <3>2, SMTT(20)
    <3>4. ASSUME NEW i \in 1..Len(L[m + 1]), NEW j \in 1..Len(L[m + 1]), i < j
          PROVE  <<L[m + 1][i], L[m + 1][j]>> \in R
      <4>1. i \in 1..Len(L[m]) /\ L[m + 1][i] = L[m][i]
        BY <3>2, <3>4
      <4>2. CASE j <= Len(L[m])
        <5>1. j \in 1..Len(L[m]) /\ L[m + 1][j] = L[m][j]
          BY <3>2, <4>2
        <5>2. <<L[m][i], L[m][j]>> \in R
          BY <2>1, <3>4, <4>1, <5>1
        <5> QED
          BY <4>1, <5>1, <5>2
      <4>3. CASE j = Len(L[m]) + 1
        <5>1. PICK k \in 1..m : L[m][i] = q[k]
          BY <2>1, <4>1
        <5>2. k \in 1..Len(q) /\ m + 1 \in 1..Len(q) /\ k < m + 1
          BY <2>2
        <5> QED
          BY <3>2, <4>1, <4>3, <5>1, <5>2
      <4> QED
        BY <3>2, <4>2, <4>3
    <3> QED
      BY <3>2, <3>3, <3>4
  <2> QED
    BY <2>3, <2>4
<1> HIDE DEF P
<1>5. N \in P
  BY <1>1, <1>3, <1>4, NatSetInduction
<1> USE DEF P
<1>6. InOrder(N)
  BY <1>1, <1>5
<1> QED
  BY <1>6 DEF Without, L
=============================================================================
