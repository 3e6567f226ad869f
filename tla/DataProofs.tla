----------------------------- MODULE DataProofs -----------------------------
(***************************************************************************)
(* Lemmas about data: induction and recursion over the naturals, filtered  *)
(* sequences, and what each operation of a BoundedLruStore keeps, for any  *)
(* keys, values and capacity.                                              *)
(***************************************************************************)
EXTENDS LruStore, FiniteSetTheorems, WellFoundedInduction, TLAPS

\* A nonempty set of naturals has a least element.
LEMMA Least ==
  ASSUME NEW T \in SUBSET Nat, T # {} PROVE \E x \in T : \A y \in T : x <= y
<1>1. IsWellFoundedOn(OpToRel(<, Nat), Nat)
  BY NatLessThanWellFounded, Zenon
<1>2. PICK x \in T : \A y \in T : ~(<<y, x>> \in OpToRel(<, Nat))
  BY <1>1, WFMin, Zenon
<1>3. \A y \in T : ~(y < x)
  BY <1>2, Zenon DEF OpToRel
<1> QED BY <1>3

\* Induction up to n, for a property given as the set of its instances.
LEMMA InductionUpTo ==
  ASSUME NEW n \in Nat, NEW S, 0 \in S, \A i \in 0 .. n - 1 : i \in S => i + 1 \in S
  PROVE  \A i \in 0 .. n : i \in S
<1> DEFINE T == {i \in 0 .. n : i \notin S}
<1>1. SUFFICES ASSUME T # {} PROVE FALSE
  BY Zenon
<1>2. PICK m \in T : \A y \in T : m <= y
  <2>1. T \in SUBSET Nat
    OBVIOUS
  <2> HIDE DEF T
  <2> QED BY <1>1, <2>1, Least, Zenon
<1>3. m \in 1 .. n /\ m - 1 \in 0 .. n - 1 /\ (m - 1) + 1 = m
  OBVIOUS
<1>4. m - 1 \notin T
  BY <1>2, <1>3
<1>5. m - 1 \in S
  BY <1>3, <1>4
<1> QED BY <1>3, <1>5, Zenon

Follows(F, n, z, step) == F[0] = z /\ \A i \in 1 .. n : F[i] = step[<<i, F[i - 1]>>]

\* A function defined by recursion on the numbers up to n exists.
LEMMA Recursion ==
  ASSUME NEW n \in Nat, NEW B, NEW z \in B, NEW step \in [Nat \X B -> B]
  PROVE  \E F \in [0 .. n -> B] : Follows(F, n, z, step)
<1> USE DEF Follows
<1> DEFINE Upto(m, F) == Follows(F, m, z, step)
           S == {m \in Nat : \E F \in [0 .. m -> B] : Upto(m, F)}
<1>1. 0 \in S
  <2>1. [i \in 0 .. 0 |-> z] \in [0 .. 0 -> B] /\ Upto(0, [i \in 0 .. 0 |-> z])
    OBVIOUS
  <2> QED BY <2>1, Zenon
<1>2. ASSUME NEW m \in 0 .. n - 1, m \in S PROVE m + 1 \in S
  <2>1. PICK G \in [0 .. m -> B] : Upto(m, G)
    BY <1>2, Zenon
  <2> DEFINE F == [i \in 0 .. m + 1 |-> IF i = m + 1 THEN step[<<m + 1, G[m]>>] ELSE G[i]]
  <2>2. step[<<m + 1, G[m]>>] \in B
    OBVIOUS
  <2>3. /\ F \in [0 .. m + 1 -> B]
        /\ F[m + 1] = step[<<m + 1, G[m]>>]
        /\ \A i \in 0 .. m : F[i] = G[i]
    BY <2>2
  <2> HIDE DEF F
  <2>4. ASSUME NEW i \in 1 .. m + 1 PROVE F[i] = step[<<i, F[i - 1]>>]
    <3>1. CASE i = m + 1
      <4>1. i - 1 = m /\ m \in 0 .. m
        BY <3>1
      <4> QED BY <3>1, <4>1, <2>3, Zenon
    <3>2. CASE i # m + 1
      <4>1. i \in 1 .. m /\ i \in 0 .. m /\ i - 1 \in 0 .. m
        BY <3>2
      <4> QED BY <4>1, <2>1, <2>3, Zenon
    <3> QED BY <3>1, <3>2, Zenon
  <2>5. F[0] = z
    BY <2>1, <2>3
  <2> QED BY <2>3, <2>4, <2>5
<1>3. n \in S
  <2> HIDE DEF S
  <2> QED BY <1>1, <1>2, InductionUpTo
<1> QED BY <1>3, Zenon

\* F[i] is what is kept of the first i elements of q.
Sieves(F, q, K) ==
    /\ F[0] = << >>
    /\ \A i \in 1 .. Len(q) :
         F[i] = IF q[i] \in K THEN Append(F[i - 1], q[i]) ELSE F[i - 1]

\* What the recursion of Kept computes.
LEMMA KeptDef ==
  ASSUME NEW A, NEW q \in Seq(A), NEW K
  PROVE  \E F \in [0 .. Len(q) -> Seq(A)] : Sieves(F, q, K) /\ Kept(q, K) = F[Len(q)]
<1> DEFINE B == Seq(A)
           n == Len(q)
           e == << >>
           Add(i, p) == IF i \in 1 .. n /\ q[i] \in K THEN Append(p, q[i]) ELSE p
           step == [p \in Nat \X B |-> Add(p[1], p[2])]
           Body(G) == [i \in 0 .. n |-> IF i = 0 THEN << >>
                                        ELSE IF q[i] \in K THEN Append(G[i - 1], q[i])
                                        ELSE G[i - 1]]
<1>1. n = Len(q) /\ n \in Nat /\ e \in B /\ e = << >> /\ B = Seq(A)
  OBVIOUS
<1>2. \A i \in Nat, p \in B : Add(i, p) \in B
  OBVIOUS
<1>3. step \in [Nat \X B -> B]
  BY <1>2, Zenon
<1>3a. \A i \in Nat, p \in B : step[<<i, p>>] = Add(i, p)
  BY <1>2, Zenon
<1>3b. n \in Nat /\ e \in B
  OBVIOUS
<1>4. Kept(q, K) = (CHOOSE G : G = Body(G))[n]
  BY Zenon DEF Kept
<1> HIDE DEF step, B, n, e
<1>4a. PICK F \in [0 .. n -> B] : Follows(F, n, e, step)
  BY <1>3b, <1>3, Recursion, Zenon
<1>5. F[0] = e /\ \A i \in 1 .. n : F[i] = step[<<i, F[i - 1]>>]
  BY <1>4a, Zenon DEF Follows
<1>6. ASSUME NEW i \in 1 .. n
      PROVE  F[i] = IF q[i] \in K THEN Append(F[i - 1], q[i]) ELSE F[i - 1]
  <2>1. i \in Nat /\ i - 1 \in 0 .. n
    BY <1>1
  <2>2. F[i - 1] \in B
    BY <2>1, Zenon
  <2> QED BY <2>1, <2>2, <1>3a, <1>5, Zenon
<1>7. \E G : G = Body(G)
  <2>1. \A i \in 0 .. n : F[i] = IF i = 0 THEN << >>
                                   ELSE IF q[i] \in K THEN Append(F[i - 1], q[i])
                                   ELSE F[i - 1]
    <3>1. F[0] = << >>
      BY <1>5, <1>1, Zenon
    <3>2. \A i \in 0 .. n : i # 0 => i \in 1 .. n
      BY <1>1
    <3> QED BY <3>1, <3>2, <1>6, Zenon
  <2>2. F = Body(F)
    BY <2>1, Zenon
  <2> QED BY <2>2, Zenon
<1> DEFINE H == CHOOSE G : G = Body(G)
<1>8. H = Body(H)
  BY <1>7, Zenon
<1> HIDE DEF H
<1>a. n \in Nat
  BY <1>1, Zenon
<1>b. \A i \in 0 .. n : H[i] = Body(H)[i]
  BY <1>8, Zenon
<1>9. H[0] = << >> /\ \A i \in 1 .. n : H[i] = IF q[i] \in K THEN Append(H[i - 1], q[i]) ELSE H[i - 1]
  <2>1. H[0] = << >>
    BY <1>a, <1>b
  <2>2. ASSUME NEW i \in 1 .. n PROVE H[i] = IF q[i] \in K THEN Append(H[i - 1], q[i]) ELSE H[i - 1]
    <3>1. i \in 0 .. n /\ i # 0
      BY <1>a
    <3> QED BY <3>1, <1>b, Zenon
  <2> QED BY <2>1, <2>2, Zenon
<1> DEFINE S == {i \in 0 .. n : H[i] \in B}
<1>10. \A i \in 0 .. n : i \in S
  <2>1. 0 \in S
    <3>1. << >> \in B
      BY <1>1, Zenon
    <3>2. 0 \in 0 .. n
      BY <1>1
    <3> QED BY <3>1, <3>2, <1>9, Zenon
  <2>2. ASSUME NEW i \in 0 .. n - 1, i \in S PROVE i + 1 \in S
    <3>1. i + 1 \in 1 .. n /\ (i + 1) - 1 = i /\ i + 1 \in 0 .. n /\ q[i + 1] \in A
      BY <1>1
    <3>2. H[i] \in Seq(A)
      BY <2>2, <1>1, Zenon
    <3>3. Append(H[i], q[i + 1]) \in Seq(A)
      BY <3>1, <3>2
    <3> QED BY <3>1, <3>2, <3>3, <1>9, <1>1, Zenon
  <2> HIDE DEF S
  <2> QED BY <2>1, <2>2, <1>1, InductionUpTo, Zenon
<1>11. H \in [0 .. n -> B]
  BY <1>8, <1>10, Zenon
<1>12. Sieves(H, q, K)
  BY <1>1, <1>9, Zenon DEF Sieves
<1> QED BY <1>1, <1>4, <1>11, <1>12, Zenon DEF H

-----------------------------------------------------------------------------
\* A sequence is sorted by a function of its elements.
SortedBy(q, f) == \A i, j \in DOMAIN q : i < j => f[q[i]] < f[q[j]]

\* Removing a key keeps the other keys, each once and in their order.
LEMMA RemoveFromLruKeeps ==
    ASSUME NEW K, NEW q \in Seq(K), Distinct(q), NEW k
    PROVE  LET p == RemoveFromLru(q, k)
           IN /\ p \in Seq(K)
              /\ Distinct(p)
              /\ Elems(p) = Elems(q) \ {k}
              /\ \A f : SortedBy(q, f) => SortedBy(p, f)
<1> DEFINE p == RemoveFromLru(q, k)
<1>1. CASE k \notin Elems(q)
  BY <1>1, Zenon DEF RemoveFromLru, Elems
<1>2. CASE k \in Elems(q)
  <2> DEFINE at == CHOOSE i \in DOMAIN q : q[i] = k
  <2>1. at \in DOMAIN q /\ q[at] = k
    BY <1>2, Zenon DEF Elems
  <2>2. DOMAIN q = 1 .. Len(q) /\ Len(q) \in Nat
    OBVIOUS
  <2>3. p = [i \in 1 .. Len(q) - 1 |-> IF i < at THEN q[i] ELSE q[i + 1]]
    BY <1>2, Zenon DEF RemoveFromLru
  <2> HIDE DEF at, p
  <2>4. Len(q) - 1 \in Nat /\ DOMAIN p = 1 .. Len(q) - 1
    BY <2>1, <2>2, <2>3
  <2>5. p \in Seq(K)
    BY <2>1, <2>2, <2>3, <2>4
  <2>6. ASSUME NEW i \in DOMAIN p
        PROVE  /\ i < at => p[i] = q[i] /\ i \in DOMAIN q
               /\ ~(i < at) => p[i] = q[i + 1] /\ i + 1 \in DOMAIN q
    BY <2>2, <2>3, <2>4
  <2>7. Distinct(p)
    BY <2>1, <2>2, <2>4, <2>6 DEF Distinct
  <2>8. Elems(p) \subseteq Elems(q) \ {k}
    BY <2>1, <2>2, <2>4, <2>6 DEF Elems, Distinct
  <2>9. ASSUME NEW i \in DOMAIN q, q[i] # k
        PROVE  q[i] \in Elems(p)
    <3>1. CASE i < at
      <4>1. i \in DOMAIN p /\ p[i] = q[i]
        BY <3>1, <2>1, <2>2, <2>3, <2>4
      <4> QED BY <4>1, Zenon DEF Elems
    <3>2. CASE i > at
      <4>1. i - 1 \in DOMAIN p /\ p[i - 1] = q[i]
        BY <3>2, <2>1, <2>2, <2>3, <2>4
      <4> QED BY <4>1, Zenon DEF Elems
    <3> QED BY <3>1, <3>2, <2>1, <2>2, <2>9
  <2>10. Elems(p) = Elems(q) \ {k}
    BY <2>8, <2>9, Zenon DEF Elems
  <2>11. ASSUME NEW f, SortedBy(q, f)
         PROVE  SortedBy(p, f)
    BY <2>1, <2>2, <2>4, <2>6, <2>11, SMTT(30) DEF SortedBy
  <2> QED BY <2>5, <2>7, <2>10, <2>11, Zenon DEF p
<1> QED BY <1>1, <1>2, Zenon

\* Appending a key that is not there keeps the keys distinct, and sorted when
\* it is the largest.
LEMMA AppendKeeps ==
    ASSUME NEW K, NEW q \in Seq(K), Distinct(q), NEW k \in K, k \notin Elems(q)
    PROVE  LET p == Append(q, k)
           IN /\ p \in Seq(K)
              /\ Distinct(p)
              /\ Elems(p) = Elems(q) \cup {k}
              /\ \A f : SortedBy(q, f) /\ (\A j \in Elems(q) : f[j] < f[k])
                          => SortedBy(p, f)
<1> DEFINE p == Append(q, k)
<1>1. p \in Seq(K) /\ DOMAIN q = 1 .. Len(q) /\ Len(q) \in Nat
  OBVIOUS
<1>2. /\ DOMAIN p = 1 .. Len(q) + 1
      /\ \A i \in 1 .. Len(q) : p[i] = q[i]
      /\ p[Len(q) + 1] = k
  OBVIOUS
<1> HIDE DEF p
<1>3. \A i \in DOMAIN q : q[i] # k
  BY Zenon DEF Elems
<1>4. Distinct(p)
  BY <1>1, <1>2, <1>3 DEF Distinct
<1>5. Elems(p) = Elems(q) \cup {k}
  BY <1>1, <1>2 DEF Elems
<1>6. ASSUME NEW f, SortedBy(q, f), \A j \in Elems(q) : f[j] < f[k]
      PROVE  SortedBy(p, f)
  <2>1. \A i \in DOMAIN q : f[q[i]] < f[k]
    BY <1>6, Zenon DEF Elems
  <2> QED BY <1>1, <1>2, <1>6, <2>1 DEF SortedBy
<1> QED BY <1>1, <1>4, <1>5, <1>6, Zenon DEF p

\* A store that is at most one over its capacity loses at most its oldest key.
LEMMA EvictKeeps ==
    ASSUME NEW K, NEW V, NEW s, IsStore(s, K, V), Distinct(s.order),
           Elems(s.order) = Present(s), NEW c \in Nat, Cardinality(Present(s)) <= c + 1
    PROVE  LET t == EvictToCapacity(s, c)
           IN /\ IsStore(t, K, V)
              /\ StoreShape(t, c)
              /\ Present(t) \subseteq Present(s)
              /\ \A k \in Present(t) : t.values[k] = s.values[k]
              /\ \A f : SortedBy(s.order, f) =>
                   /\ SortedBy(t.order, f)
                   /\ \A k \in Present(s) \ Present(t), j \in Present(t) : f[k] < f[j]
              /\ c # 0 /\ s.order # << >> => s.order[Len(s.order)] \in Present(t)
<1> DEFINE Stop(m) == /\ StopsAfter(s, c, m)
                      /\ \A l \in 0 .. m - 1 : ~StopsAfter(s, c, l)
           n == CHOOSE m \in 0 .. Len(s.order) : Stop(m)
           t == EvictToCapacity(s, c)
           len == Len(s.order)
<1>1. /\ s.order \in Seq(K) /\ len \in Nat /\ DOMAIN s.order = 1 .. len
      /\ IsFiniteSet(Present(s)) /\ Cardinality(Present(s)) \in Nat
      /\ s.values \in [Present(s) -> V] /\ Present(s) \subseteq K
  BY FS_CardinalityType DEF IsStore
<1>2. LeftAfter(s, 0) = Present(s)
  BY DEF LeftAfter
<1>3. len # 0 => LeftAfter(s, 1) = Present(s) \ {s.order[1]} /\ s.order[1] \in Present(s)
  BY <1>1 DEF LeftAfter, Elems
<1>4. len = 0 => Present(s) = {}
  BY <1>1 DEF Elems
<1>t. t = [values |-> [k \in LeftAfter(s, n) |-> s.values[k]],
           order |-> SubSeq(s.order, n + 1, len)]
  BY Zenon DEF EvictToCapacity
<1>n. \A m \in 0 .. len : Stop(m) /\ (\A l \in 0 .. len : Stop(l) => l = m) => n = m
  BY Zenon
<1> HIDE DEF t, n
<1>5. CASE Cardinality(Present(s)) <= c \/ len = 0
  <2>1. Stop(0)
    BY <1>1, <1>2, <1>5 DEF StopsAfter
  <2>2. \A m \in 0 .. len : Stop(m) => m = 0
    BY <2>1, <1>1
  <2>3. n = 0
    <3>1. 0 \in 0 .. len
      BY <1>1
    <3> HIDE DEF Stop
    <3> QED BY <2>1, <2>2, <3>1, <1>n, Zenon
  <2>4. /\ t.values = [k \in Present(s) |-> s.values[k]]
        /\ t.order = SubSeq(s.order, 1, len)
    BY <2>3, <1>t, <1>2
  <2>5. t.values = s.values /\ t.order = s.order
    BY <2>4, <1>1
  <2>6. t = [values |-> t.values, order |-> t.order]
    BY <1>t, Zenon
  <2>7. Cardinality(Present(s)) <= c
    <3>1. Cardinality({}) = 0 /\ 0 <= c
      BY FS_EmptySet
    <3>2. CASE len = 0
      BY <3>1, <3>2, <1>4, Zenon
    <3> QED BY <3>2, <1>5, Zenon
  <2>8. Present(t) = Present(s)
    BY <2>5, Zenon DEF Present
  <2>9. c # 0 /\ s.order # << >> => s.order[len] \in Present(t)
    BY <2>8, <1>1 DEF Elems
  <2> QED BY <2>5, <2>6, <2>7, <2>8, <2>9, <1>1, Zenon DEF IsStore, StoreShape, t
<1>6. CASE Cardinality(Present(s)) = c + 1 /\ len # 0
  <2> DEFINE old == s.order[1]
  <2> HIDE DEF old
  <2>o. old \in Present(s) /\ LeftAfter(s, 1) = Present(s) \ {old}
    BY <1>3, <1>6, Zenon DEF old
  <2>1. Cardinality(LeftAfter(s, 1)) = c
    <3>1. Cardinality(Present(s) \ {old}) = Cardinality(Present(s)) - 1
      BY <1>1, <2>o, FS_RemoveElement, Zenon
    <3> QED BY <3>1, <1>6, <2>o
  <2>2. ~StopsAfter(s, c, 0)
    BY <1>1, <1>2, <1>6 DEF StopsAfter
  <2>3. StopsAfter(s, c, 1)
    BY <2>1 DEF StopsAfter
  <2>4. Stop(1) /\ 1 \in 0 .. len
    BY <2>2, <2>3, <1>1, <1>6
  <2>5. \A m \in 0 .. len : Stop(m) => m = 1
    <3> SUFFICES ASSUME NEW m \in 0 .. len, Stop(m) PROVE m = 1
      BY Zenon
    <3>1. m # 0
      BY <2>2, Zenon
    <3>2. ~(1 < m)
      BY <2>3, <1>1
    <3> QED BY <3>1, <3>2, <1>1
  <2>6. n = 1
    <3> HIDE DEF Stop
    <3> QED BY <2>4, <2>5, <1>n, Zenon
  <2>7. t = [values |-> [k \in LeftAfter(s, 1) |-> s.values[k]],
             order |-> SubSeq(s.order, 2, len)]
    BY <2>6, <1>t
  <2>8. /\ Present(t) = Present(s) \ {old}
        /\ \A k \in Present(t) : t.values[k] = s.values[k]
        /\ t.values \in [Present(t) -> V]
        /\ t.order = SubSeq(s.order, 2, len)
        /\ t = [values |-> t.values, order |-> t.order]
    BY <2>7, <2>o, <1>1, Zenon DEF Present
  <2>9. /\ t.order \in Seq(K) /\ DOMAIN t.order = 1 .. len - 1
        /\ \A i \in 1 .. len - 1 : t.order[i] = s.order[i + 1]
    BY <2>8, <1>1, <1>6, SMTT(30)
  <2>10. IsFiniteSet(Present(t)) /\ Cardinality(Present(t)) <= c
    BY <2>1, <2>8, <2>o, <1>1, FS_Subset, Zenon
  <2>11. Distinct(t.order)
    <3> SUFFICES ASSUME NEW i \in 1 .. len - 1, NEW j \in 1 .. len - 1, t.order[i] = t.order[j]
                 PROVE  i = j
      BY <2>9, Zenon DEF Distinct
    <3>1. i + 1 \in DOMAIN s.order /\ j + 1 \in DOMAIN s.order
      BY <1>1
    <3>2. i + 1 = j + 1
      BY <3>1, <2>9, Zenon DEF Distinct
    <3> QED BY <3>2, <1>1
  <2>12. Elems(t.order) = Present(t)
    <3>1. ASSUME NEW i \in 1 .. len - 1 PROVE t.order[i] \in Present(t)
      <4>1. i + 1 \in DOMAIN s.order /\ 1 \in DOMAIN s.order /\ i + 1 # 1
        BY <1>1, <1>6
      <4>2. s.order[i + 1] # old /\ s.order[i + 1] \in Present(s)
        BY <4>1, Zenon DEF Distinct, Elems, old
      <4> QED BY <4>2, <2>8, <2>9, Zenon
    <3>2. ASSUME NEW k \in Present(t) PROVE k \in Elems(t.order)
      <4>1. PICK i \in DOMAIN s.order : s.order[i] = k
        BY <2>8, Zenon DEF Elems
      <4>2. i # 1
        BY <4>1, <2>8, Zenon DEF old
      <4>3. i - 1 \in 1 .. len - 1 /\ t.order[i - 1] = k
        BY <4>1, <4>2, <2>9, <1>1, SMTT(30)
      <4> QED BY <4>3, <2>9, Zenon DEF Elems
    <3> QED BY <3>1, <3>2, <2>9, Zenon DEF Elems
  <2>13. ASSUME NEW f, SortedBy(s.order, f)
         PROVE  /\ SortedBy(t.order, f)
                /\ \A k \in Present(s) \ Present(t), j \in Present(t) : f[k] < f[j]
    <3>1. SortedBy(t.order, f)
      <4> SUFFICES ASSUME NEW i \in 1 .. len - 1, NEW j \in 1 .. len - 1, i < j
                   PROVE  f[t.order[i]] < f[t.order[j]]
        BY <2>9, Zenon DEF SortedBy
      <4>1. i + 1 \in DOMAIN s.order /\ j + 1 \in DOMAIN s.order /\ i + 1 < j + 1
        BY <1>1
      <4> QED BY <4>1, <2>9, <2>13, Zenon DEF SortedBy
    <3>2. ASSUME NEW j \in Present(t) PROVE f[old] < f[j]
      <4>1. PICK i \in DOMAIN s.order : s.order[i] = j
        BY <2>8, Zenon DEF Elems
      <4>2. i # 1
        BY <4>1, <2>8, Zenon DEF old
      <4>3. 1 < i /\ 1 \in DOMAIN s.order
        BY <4>2, <1>1, <1>6
      <4> QED BY <4>1, <4>3, <2>13, Zenon DEF SortedBy, old
    <3> QED BY <3>1, <3>2, <2>8, Zenon
  <2>14. c # 0 => s.order[len] \in Present(t)
    <3> SUFFICES ASSUME c # 0 PROVE s.order[len] \in Present(t)
      BY Zenon
    <3>1. len # 1
      <4> SUFFICES ASSUME len = 1 PROVE FALSE
        BY Zenon
      <4>1. Present(s) = {old}
        BY <1>1 DEF Elems, old
      <4>2. Cardinality({old}) = 1
        BY FS_Singleton, Zenon
      <4> QED BY <4>1, <4>2, <1>6
    <3>2. s.order[len] # old /\ s.order[len] \in Present(s)
      <4>1. len \in DOMAIN s.order /\ 1 \in DOMAIN s.order
        BY <1>1, <1>6
      <4> QED BY <4>1, <3>1, Zenon DEF Distinct, Elems, old
    <3> QED BY <3>2, <2>8, Zenon
  <2> QED BY <2>8, <2>9, <2>10, <2>11, <2>12, <2>13, <2>14, <1>1, Zenon
          DEF IsStore, StoreShape, t
<1> QED BY <1>1, <1>5, <1>6

\* insert: the store keeps its shape, holds the key with its new value, and what
\* it drops is older than what it keeps.
LEMMA InsertKeeps ==
    ASSUME NEW K, NEW V, NEW s, NEW c \in Nat, IsStore(s, K, V), StoreShape(s, c),
           NEW k \in K, NEW v \in V
    PROVE  LET t == Insert(s, c, k, v)
           IN /\ IsStore(t, K, V)
              /\ StoreShape(t, c)
              /\ Present(t) \subseteq Present(s) \cup {k}
              /\ c # 0 => k \in Present(t) /\ t.values[k] = v
              /\ \A j \in Present(t) \ {k} : t.values[j] = s.values[j]
              /\ \A f : /\ SortedBy(RemoveFromLru(s.order, k), f)
                        /\ \A j \in Present(s) \ {k} : f[j] < f[k]
                   => /\ SortedBy(t.order, f)
                      /\ c # 0 => \A i \in Present(s) \ Present(t), j \in Present(t) : f[i] < f[j]
<1> DEFINE q == RemoveFromLru(s.order, k)
           t == Insert(s, c, k, v)
<1>1. /\ q \in Seq(K) /\ Distinct(q) /\ Elems(q) = Present(s) \ {k}
  BY RemoveFromLruKeeps, Zenon DEF IsStore, StoreShape
<1>2. /\ IsFiniteSet(Present(s)) /\ s.values \in [Present(s) -> V] /\ Present(s) \subseteq K
      /\ Cardinality(Present(s)) \in Nat /\ Cardinality(Present(s)) <= c
  BY FS_CardinalityType, Zenon DEF IsStore, StoreShape
<1> HIDE DEF q
<1>3. CASE c = 0
  <2>1. t = [values |-> Without(s.values, {k}), order |-> q]
    BY <1>3, Zenon DEF Insert, q
  <2>2. Present(s) = {}
    BY <1>2, <1>3, FS_EmptySet
  <2> HIDE DEF t
  <2>3. /\ Present(t) = {}
        /\ t.values \in [Present(t) -> V]
        /\ t.order = q /\ t = [values |-> t.values, order |-> t.order]
    BY <2>1, <2>2, Zenon DEF Without, Present
  <2>4. IsFiniteSet({}) /\ Cardinality({}) <= c
    BY FS_EmptySet, <1>3
  <2>5. IsStore(t, K, V) /\ StoreShape(t, c)
    BY <2>2, <2>3, <2>4, <1>1, Zenon DEF IsStore, StoreShape
  <2> QED BY <2>2, <2>3, <2>5, <1>3, Zenon DEF t, q
<1>4. CASE c # 0
  <2> DEFINE u == [values |-> With(s.values, k, v), order |-> Append(q, k)]
  <2>1. t = EvictToCapacity(u, c)
    BY <1>4, Zenon DEF Insert, q
  <2>2. /\ Present(u) = Present(s) \cup {k}
        /\ u.values \in [Present(u) -> V]
        /\ u.values[k] = v /\ \A j \in Present(s) \ {k} : u.values[j] = s.values[j]
        /\ u.order = Append(q, k) /\ u = [values |-> u.values, order |-> u.order]
    BY <1>2, Zenon DEF With, Present
  <2> HIDE DEF u, t
  <2>3. k \notin Elems(q)
    BY <1>1, Zenon
  <2>4. /\ u.order \in Seq(K) /\ Distinct(u.order) /\ Elems(u.order) = Elems(q) \cup {k}
        /\ \A f : SortedBy(q, f) /\ (\A j \in Elems(q) : f[j] < f[k]) => SortedBy(u.order, f)
    BY <1>1, <2>2, <2>3, AppendKeeps
  <2>5. Elems(u.order) = Present(u)
    BY <1>1, <2>2, <2>4, Zenon
  <2>6. IsFiniteSet(Present(u)) /\ Cardinality(Present(u)) <= c + 1
    <3>1. /\ IsFiniteSet(Present(s) \cup {k})
          /\ Cardinality(Present(s) \cup {k}) =
               IF k \in Present(s) THEN Cardinality(Present(s)) ELSE Cardinality(Present(s)) + 1
      BY <1>2, FS_AddElement, Zenon
    <3> QED BY <3>1, <1>2, <2>2
  <2>7. IsStore(u, K, V)
    BY <2>2, <2>4, <2>6, <1>2, Zenon DEF IsStore
  <2>8. /\ IsStore(t, K, V)
        /\ StoreShape(t, c)
        /\ Present(t) \subseteq Present(u)
        /\ \A j \in Present(t) : t.values[j] = u.values[j]
        /\ \A f : SortedBy(u.order, f) =>
             /\ SortedBy(t.order, f)
             /\ \A i \in Present(u) \ Present(t), j \in Present(t) : f[i] < f[j]
        /\ c # 0 /\ u.order # << >> => u.order[Len(u.order)] \in Present(t)
    <3>1. Distinct(u.order)
      BY <2>4, Zenon
    <3>2. Cardinality(Present(u)) <= c + 1
      BY <2>6, Zenon
    <3> DEFINE w == EvictToCapacity(u, c)
    <3>3. /\ IsStore(w, K, V)
          /\ StoreShape(w, c)
          /\ Present(w) \subseteq Present(u)
          /\ \A j \in Present(w) : w.values[j] = u.values[j]
          /\ \A f : SortedBy(u.order, f) =>
               /\ SortedBy(w.order, f)
               /\ \A i \in Present(u) \ Present(w), j \in Present(w) : f[i] < f[j]
          /\ c # 0 /\ u.order # << >> => u.order[Len(u.order)] \in Present(w)
      BY <2>5, <2>7, <3>1, <3>2, EvictKeeps, Zenon
    <3> QED BY <2>1, <3>3, Zenon
  <2>9. u.order # << >> /\ u.order[Len(u.order)] = k
    <3>1. Append(q, k) # << >> /\ Append(q, k)[Len(Append(q, k))] = k
      BY <1>1
    <3> QED BY <3>1, <2>2, Zenon
  <2>10. k \in Present(t) /\ t.values[k] = v
    BY <2>2, <2>8, <2>9, <1>4, Zenon
  <2>11. \A j \in Present(t) \ {k} : t.values[j] = s.values[j]
    BY <2>2, <2>8, Zenon
  <2>12. ASSUME NEW f, SortedBy(q, f), \A j \in Present(s) \ {k} : f[j] < f[k]
         PROVE  /\ SortedBy(t.order, f)
                /\ \A i \in Present(s) \ Present(t), j \in Present(t) : f[i] < f[j]
    <3>1. SortedBy(u.order, f)
      BY <2>4, <2>12, <1>1, Zenon
    <3> QED BY <3>1, <2>2, <2>8, Zenon
  <2> QED BY <2>2, <2>8, <2>10, <2>11, <2>12, <1>4, Zenon DEF t, q
<1> QED BY <1>3, <1>4, Zenon

\* get_mut: the map is as it was, and the key is now the newest.
LEMMA GetMutKeeps ==
    ASSUME NEW K, NEW V, NEW s, NEW c, IsStore(s, K, V), StoreShape(s, c),
           NEW k \in Present(s)
    PROVE  LET t == GetMut(s, k)
           IN /\ IsStore(t, K, V)
              /\ StoreShape(t, c)
              /\ t.values = s.values
              /\ \A f : /\ SortedBy(RemoveFromLru(s.order, k), f)
                        /\ \A j \in Present(s) \ {k} : f[j] < f[k]
                   => SortedBy(t.order, f)
<1> DEFINE q == RemoveFromLru(s.order, k)
           t == GetMut(s, k)
<1>1. /\ q \in Seq(K) /\ Distinct(q) /\ Elems(q) = Present(s) \ {k}
      /\ s.order \in Seq(K) /\ Distinct(s.order) /\ Elems(s.order) = Present(s)
      /\ k \in K /\ k \notin Elems(q)
  BY RemoveFromLruKeeps DEF IsStore, StoreShape
<1>2. /\ Append(q, k) \in Seq(K) /\ Distinct(Append(q, k))
      /\ Elems(Append(q, k)) = Elems(q) \cup {k}
      /\ \A f : SortedBy(q, f) /\ (\A j \in Elems(q) : f[j] < f[k]) => SortedBy(Append(q, k), f)
  <2> HIDE DEF q
  <2> QED BY <1>1, AppendKeeps
<1>3. CASE s.order # << >> /\ s.order[Len(s.order)] = k
  <2>1. t = s
    BY <1>3, Zenon DEF GetMut, TouchKey
  <2>2. Append(q, k) = s.order
    <3>1. Len(s.order) \in DOMAIN s.order /\ DOMAIN s.order = 1 .. Len(s.order)
      BY <1>1, <1>3
    <3>2. (CHOOSE i \in DOMAIN s.order : s.order[i] = k) = Len(s.order)
      BY <3>1, <1>1, <1>3, Zenon DEF Distinct
    <3>3. q = [i \in 1 .. Len(s.order) - 1 |->
                 IF i < Len(s.order) THEN s.order[i] ELSE s.order[i + 1]]
      BY <3>2, <1>1, Zenon DEF RemoveFromLru
    <3> HIDE DEF q
    <3>4. q = [i \in 1 .. Len(s.order) - 1 |-> s.order[i]] /\ Len(s.order) \in Nat \ {0}
      BY <3>1, <3>3, <1>1
    <3>5. Len(q) = Len(s.order) - 1 /\ q \in Seq(K)
      BY <3>4, <1>1
    <3> QED BY <3>1, <3>4, <3>5, <1>1, <1>3
  <2> HIDE DEF q, t
  <2>3. ASSUME NEW f, SortedBy(q, f), \A j \in Present(s) \ {k} : f[j] < f[k]
        PROVE  SortedBy(t.order, f)
    BY <2>1, <2>2, <2>3, <1>1, <1>2, Zenon
  <2> QED BY <2>1, <2>3, Zenon DEF t, q
<1>4. CASE ~(s.order # << >> /\ s.order[Len(s.order)] = k)
  <2>1. t = [values |-> s.values, order |-> Append(q, k)]
    BY <1>4, Zenon DEF GetMut, TouchKey
  <2> HIDE DEF q, t
  <2>2. t.values = s.values /\ t.order = Append(q, k) /\ Present(t) = Present(s)
    BY <2>1, Zenon DEF Present
  <2>3. IsStore(t, K, V)
    BY <2>1, <2>2, <1>2, Zenon DEF IsStore
  <2>4. StoreShape(t, c)
    BY <2>2, <1>1, <1>2, Zenon DEF StoreShape
  <2>5. ASSUME NEW f, SortedBy(q, f), \A j \in Present(s) \ {k} : f[j] < f[k]
        PROVE  SortedBy(t.order, f)
    BY <2>2, <2>5, <1>1, <1>2, Zenon
  <2> QED BY <2>2, <2>3, <2>4, <2>5, Zenon DEF t, q
<1> QED BY <1>3, <1>4, Zenon

\* remove: the key leaves both structures.
LEMMA RemoveKeeps ==
    ASSUME NEW K, NEW V, NEW s, NEW c \in Nat, IsStore(s, K, V), StoreShape(s, c), NEW k
    PROVE  LET t == RemoveKey(s, k)
           IN /\ IsStore(t, K, V)
              /\ StoreShape(t, c)
              /\ Present(t) = Present(s) \ {k}
              /\ \A f : SortedBy(s.order, f) => SortedBy(t.order, f)
<1> DEFINE q == RemoveFromLru(s.order, k)
           t == RemoveKey(s, k)
<1>1. /\ q \in Seq(K) /\ Distinct(q) /\ Elems(q) = Present(s) \ {k}
      /\ \A f : SortedBy(s.order, f) => SortedBy(q, f)
  BY RemoveFromLruKeeps, Zenon DEF IsStore, StoreShape
<1>2. t = [values |-> Without(s.values, {k}), order |-> q]
  BY Zenon DEF RemoveKey
<1> HIDE DEF q, t
<1>3. /\ IsFiniteSet(Present(s)) /\ s.values \in [Present(s) -> V] /\ Present(s) \subseteq K
      /\ Cardinality(Present(s)) \in Nat /\ Cardinality(Present(s)) <= c
  BY FS_CardinalityType, Zenon DEF IsStore, StoreShape
<1>4. /\ Present(t) = Present(s) \ {k}
      /\ t.values \in [Present(t) -> V]
      /\ t.order = q /\ t = [values |-> t.values, order |-> t.order]
  BY <1>2, <1>3, Zenon DEF Without, Present
<1>5. /\ IsFiniteSet(Present(s) \ {k})
      /\ Cardinality(Present(s) \ {k}) =
           IF k \in Present(s) THEN Cardinality(Present(s)) - 1 ELSE Cardinality(Present(s))
  BY <1>3, FS_RemoveElement, Zenon
<1>6. IsFiniteSet(Present(t)) /\ Cardinality(Present(t)) <= c
  BY <1>3, <1>4, <1>5
<1> QED BY <1>1, <1>3, <1>4, <1>6, Zenon DEF IsStore, StoreShape, t

\* The empty store is one of any type and any capacity.
LEMMA EmptyStoreKeeps ==
    ASSUME NEW K, NEW V
    PROVE  /\ IsStore(EmptyStore, K, V)
           /\ \A c \in Nat : StoreShape(EmptyStore, c)
           /\ Present(EmptyStore) = {}
<1>1. /\ Present(EmptyStore) = {} /\ EmptyStore.order = << >>
      /\ EmptyStore = [values |-> EmptyStore.values, order |-> EmptyStore.order]
      /\ EmptyStore.values \in [Present(EmptyStore) -> V]
  BY Zenon DEF EmptyStore, Present
<1>2. IsFiniteSet({}) /\ Cardinality({}) = 0
  BY FS_EmptySet, Zenon
<1>3. IsStore(EmptyStore, K, V)
  BY <1>1, <1>2 DEF IsStore
<1>4. ASSUME NEW c \in Nat PROVE StoreShape(EmptyStore, c)
  BY <1>1, <1>2 DEF StoreShape, Distinct, Elems
<1> QED BY <1>1, <1>3, <1>4, Zenon

LEMMA ElemsType ==
    ASSUME NEW A, NEW q \in Seq(A) PROVE Elems(q) \subseteq A
  BY DEF Elems

LEMMA SeqWidens ==
    ASSUME NEW A, NEW B, A \subseteq B, NEW q \in Seq(A) PROVE q \in Seq(B)
<1>1. Len(q) \in Nat /\ q = [i \in 1 .. Len(q) |-> q[i]] /\ \A i \in 1 .. Len(q) : q[i] \in A
  OBVIOUS
<1>2. \A i \in 1 .. Len(q) : q[i] \in B
  BY <1>1, Zenon
<1> QED BY <1>1, <1>2

\* The elements of a sequence with one more at its end.
LEMMA AppendElems ==
    ASSUME NEW A, NEW q \in Seq(A), NEW x \in A
    PROVE  Elems(Append(q, x)) = Elems(q) \cup {x}
<1> DEFINE p == Append(q, x)
           n == Len(q)
<1>1. /\ n \in Nat /\ DOMAIN q = 1 .. n /\ DOMAIN p = 1 .. n + 1
      /\ p[n + 1] = x /\ \A i \in 1 .. n : p[i] = q[i]
  OBVIOUS
<1> HIDE DEF p, n
<1>2. 1 .. n + 1 = (1 .. n) \cup {n + 1}
  BY <1>1
<1>3. Elems(p) = Elems(q) \cup {x}
  BY <1>1, <1>2 DEF Elems
<1> QED BY <1>3, Zenon DEF p

\* What is kept are the elements of the sequence that are in K, each as often and
\* in the order it was there.
LEMMA KeptKeeps ==
    ASSUME NEW A, NEW q \in Seq(A), NEW K
    PROVE  /\ Kept(q, K) \in Seq(A)
           /\ Elems(Kept(q, K)) = Elems(q) \cap K
           /\ Distinct(q) => Distinct(Kept(q, K))
           /\ Len(Kept(q, K)) <= Len(q)
<1> DEFINE n == Len(q)
<1>0. PICK F \in [0 .. n -> Seq(A)] : Sieves(F, q, K) /\ Kept(q, K) = F[n]
  BY KeptDef, Zenon
<1>1. /\ F[0] = << >>
      /\ \A i \in 1 .. n : F[i] = IF q[i] \in K THEN Append(F[i - 1], q[i]) ELSE F[i - 1]
      /\ Kept(q, K) = F[n]
  BY <1>0, Zenon DEF Sieves
<1> DEFINE Good(i) == /\ Elems(F[i]) = {q[j] : j \in 1 .. i} \cap K
                      /\ Distinct(q) => Distinct(F[i])
                      /\ Len(F[i]) <= i
           S == {i \in 0 .. n : Good(i)}
<1>2. n \in Nat /\ q \in [1 .. n -> A]
  OBVIOUS
<1> HIDE DEF n
<1>3. 0 \in S
  <2>1. F[0] = << >> /\ 0 \in 0 .. n
    BY <1>1, <1>2
  <2>2. Elems(<< >>) = {} /\ Distinct(<< >>) /\ Len(<< >>) = 0
    BY DEF Elems, Distinct
  <2> QED BY <2>1, <2>2
<1>4. ASSUME NEW i \in 0 .. n - 1, i \in S PROVE i + 1 \in S
  <2>1. /\ i + 1 \in 1 .. n /\ (i + 1) - 1 = i /\ i + 1 \in 0 .. n /\ i \in 0 .. n
        /\ 1 .. i + 1 = (1 .. i) \cup {i + 1} /\ i + 1 \notin 1 .. i
    BY <1>2
  <2> DEFINE p == F[i]
             x == q[i + 1]
  <2>2. /\ p \in Seq(A) /\ x \in A
        /\ F[i + 1] = IF x \in K THEN Append(p, x) ELSE p
        /\ Elems(p) = {q[j] : j \in 1 .. i} \cap K
        /\ Distinct(q) => Distinct(p)
        /\ Len(p) <= i
    BY <1>1, <1>2, <1>4, <2>1, Zenon
  <2>3. {q[j] : j \in 1 .. i + 1} = {q[j] : j \in 1 .. i} \cup {x}
    BY <2>1, Zenon
  <2>4. Distinct(q) => x \notin {q[j] : j \in 1 .. i}
    <3>1. \A j \in 1 .. i : j \in 1 .. n /\ j # i + 1
      BY <2>1, <1>2
    <3> QED BY <3>1, <2>1, <1>2, Zenon DEF Distinct
  <2> HIDE DEF p, x
  <2>5. CASE x \notin K
    <3>a. F[i + 1] = p
      BY <2>2, <2>5, Zenon
    <3>b. Len(p) <= i + 1
      <4>1. \A m \in Nat : m <= i => m <= i + 1
        OBVIOUS
      <4> QED BY <2>2, <4>1
    <3>1. F[i + 1] = p /\ Len(p) <= i + 1 /\ {q[j] : j \in 1 .. i + 1} \cap K = Elems(p)
      BY <3>a, <3>b, <2>2, <2>3, <2>5, Zenon
    <3>2. Good(i + 1)
      BY <2>2, <3>1, Zenon
    <3> QED BY <3>2, <2>1, Zenon
  <2>6. CASE x \in K
    <3>1. F[i + 1] = Append(p, x) /\ Len(Append(p, x)) = Len(p) + 1
      BY <2>2, <2>6
    <3>2. Elems(Append(p, x)) = Elems(p) \cup {x}
      BY <2>2, AppendElems
    <3>3. Distinct(q) => Distinct(Append(p, x))
      <4>1. Distinct(q) => x \notin Elems(p)
        BY <2>2, <2>4, Zenon
      <4> QED BY <4>1, <2>2, AppendKeeps, Zenon
    <3>4. Len(p) + 1 <= i + 1
      BY <2>2
    <3>5. Good(i + 1)
      BY <3>1, <3>2, <3>3, <3>4, <2>2, <2>3, <2>6, Zenon
    <3> QED BY <3>5, <2>1, Zenon
  <2> QED BY <2>5, <2>6, Zenon
<1>5. n \in S
  <2> HIDE DEF S
  <2>1. \A i \in 0 .. n : i \in S
    BY <1>2, <1>3, <1>4, InductionUpTo, Zenon
  <2> QED BY <2>1, <1>2
<1>6. Elems(q) = {q[j] : j \in 1 .. n}
  BY <1>2, Zenon DEF Elems
<1> QED BY <1>1, <1>2, <1>5, <1>6, Zenon DEF n

\* What is kept of nothing, and of a sequence with one more element.
LEMMA KeptAppend ==
    ASSUME NEW A, NEW q \in Seq(A), NEW x \in A, NEW K
    PROVE  /\ Kept(<< >>, K) = << >>
           /\ Kept(Append(q, x), K) = IF x \in K THEN Append(Kept(q, K), x) ELSE Kept(q, K)
<1>1. Kept(<< >>, K) = << >>
  <2>1. << >> \in Seq(A) /\ Len(<< >>) = 0
    OBVIOUS
  <2>2. PICK F \in [0 .. Len(<< >>) -> Seq(A)] :
          Sieves(F, << >>, K) /\ Kept(<< >>, K) = F[Len(<< >>)]
    BY <2>1, KeptDef, Zenon
  <2> QED BY <2>1, <2>2, Zenon DEF Sieves
<1> DEFINE n == Len(q)
           r == Append(q, x)
<1>2. /\ r \in Seq(A) /\ Len(r) = n + 1 /\ r[n + 1] = x /\ \A i \in 1 .. n : r[i] = q[i]
      /\ n \in Nat
  OBVIOUS
<1>0. PICK F \in [0 .. n -> Seq(A)] : Sieves(F, q, K) /\ Kept(q, K) = F[n]
  BY KeptDef, Zenon
<1>3. /\ F[0] = << >>
      /\ \A i \in 1 .. n : F[i] = IF q[i] \in K THEN Append(F[i - 1], q[i]) ELSE F[i - 1]
      /\ Kept(q, K) = F[n]
  BY <1>0, Zenon DEF Sieves
<1> HIDE DEF r
<1>a. PICK G \in [0 .. Len(r) -> Seq(A)] : Sieves(G, r, K) /\ Kept(r, K) = G[Len(r)]
  BY <1>2, KeptDef, Zenon
<1> HIDE DEF n
<1>4. /\ G[0] = << >>
      /\ \A i \in 1 .. n + 1 : G[i] = IF r[i] \in K THEN Append(G[i - 1], r[i]) ELSE G[i - 1]
      /\ Kept(r, K) = G[n + 1]
  BY <1>2, <1>a, Zenon DEF Sieves
<1> DEFINE S == {i \in 0 .. n : G[i] = F[i]}
<1>5. \A i \in 0 .. n : i \in S
  <2>1. 0 \in S
    BY <1>2, <1>3, <1>4
  <2>2. ASSUME NEW i \in 0 .. n - 1, i \in S PROVE i + 1 \in S
    <3>1. i + 1 \in 1 .. n /\ i + 1 \in 1 .. n + 1 /\ (i + 1) - 1 = i /\ i + 1 \in 0 .. n
      BY <1>2
    <3>2. r[i + 1] = q[i + 1] /\ G[i] = F[i]
      BY <3>1, <2>2, <1>2, Zenon
    <3>3. G[i + 1] = F[i + 1]
      BY <3>1, <3>2, <1>3, <1>4, Zenon
    <3> QED BY <3>1, <3>3, Zenon
  <2> HIDE DEF S
  <2> QED BY <2>1, <2>2, <1>2, InductionUpTo, Zenon
<1>6. G[n] = F[n]
  BY <1>2, <1>5
<1>7. n + 1 \in 1 .. n + 1 /\ (n + 1) - 1 = n
  BY <1>2
<1> QED BY <1>1, <1>2, <1>3, <1>4, <1>6, <1>7, Zenon DEF r

\* What is kept of a concatenation.
LEMMA KeptCat ==
    ASSUME NEW A, NEW p \in Seq(A), NEW q \in Seq(A), NEW K
    PROVE  Kept(p \o q, K) = Kept(p, K) \o Kept(q, K)
<1> DEFINE n == Len(q)
           r == [i \in 0 .. n |-> SubSeq(q, 1, i)]
           S == {i \in 0 .. n : Kept(p \o r[i], K) = Kept(p, K) \o Kept(r[i], K)}
<1>1. n \in Nat /\ r[0] = << >> /\ r[n] = q
  OBVIOUS
<1>2. \A i \in 0 .. n : r[i] \in Seq(A)
  OBVIOUS
<1>3. \A i \in 0 .. n - 1 : q[i + 1] \in A /\ r[i + 1] = Append(r[i], q[i + 1])
  <2> SUFFICES ASSUME NEW i \in 0 .. n - 1
               PROVE q[i + 1] \in A /\ r[i + 1] = Append(r[i], q[i + 1])
    BY Zenon
  <2> QED BY <1>1, SMTT(30)
<1>4. \A s \in Seq(A), x \in A : p \o Append(s, x) = Append(p \o s, x) /\ p \o s \in Seq(A)
  OBVIOUS
<1>5. \A s \in Seq(A) : Kept(s, K) \in Seq(A)
  BY KeptKeeps, Zenon
<1>6. \A s, t \in Seq(A), x \in A : s \o Append(t, x) = Append(s \o t, x)
  OBVIOUS
<1> HIDE DEF n, r
<1>7. 0 \in S
  <2>1. p \o << >> = p /\ Kept(p, K) \o << >> = Kept(p, K)
    BY <1>5
  <2>2. Kept(<< >>, K) = << >>
    <3>1. << >> \in Seq(A)
      OBVIOUS
    <3>2. CASE A = {}
      <4>1. PICK F \in [0 .. Len(<< >>) -> Seq(A)] :
              Sieves(F, << >>, K) /\ Kept(<< >>, K) = F[Len(<< >>)]
        BY <3>1, KeptDef, Zenon
      <4> QED BY <4>1, Zenon DEF Sieves
    <3>3. CASE A # {}
      <4>1. PICK x \in A : TRUE
        BY <3>3, Zenon
      <4> QED BY <4>1, KeptAppend, Zenon
    <3> QED BY <3>2, <3>3, Zenon
  <2>3. Kept(p \o r[0], K) = Kept(p, K) \o Kept(r[0], K)
    BY <1>1, <2>1, <2>2, Zenon
  <2>4. 0 \in 0 .. n
    BY <1>1
  <2> QED BY <2>3, <2>4, Zenon
<1>8. ASSUME NEW i \in 0 .. n - 1, i \in S PROVE i + 1 \in S
  <2> DEFINE s == r[i]
             x == q[i + 1]
             u == p \o s
  <2>0. i \in 0 .. n /\ i + 1 \in 0 .. n
    BY <1>1
  <2>1. /\ s \in Seq(A) /\ x \in A /\ r[i + 1] = Append(s, x)
        /\ Kept(p \o s, K) = Kept(p, K) \o Kept(s, K)
    BY <2>0, <1>2, <1>3, <1>8, Zenon
  <2> HIDE DEF s, x
  <2>2. p \o Append(s, x) = Append(u, x) /\ u \in Seq(A)
    BY <1>4, <2>1, Zenon
  <2> HIDE DEF u
  <2>3. Kept(Append(s, x), K) = IF x \in K THEN Append(Kept(s, K), x) ELSE Kept(s, K)
    BY <2>1, KeptAppend
  <2>4. Kept(Append(u, x), K) = IF x \in K THEN Append(Kept(u, K), x) ELSE Kept(u, K)
    BY <2>1, <2>2, KeptAppend
  <2>5. Kept(p, K) \o Append(Kept(s, K), x) = Append(Kept(p, K) \o Kept(s, K), x)
    BY <1>5, <1>6, <2>1, SMTT(30)
  <2>6. Kept(p \o Append(s, x), K) = Kept(p, K) \o Kept(Append(s, x), K)
    BY <2>1, <2>2, <2>3, <2>4, <2>5, Zenon DEF u
  <2> QED BY <2>0, <2>1, <2>6, Zenon
<1>9. n \in S
  <2> HIDE DEF S
  <2>1. \A i \in 0 .. n : i \in S
    BY <1>1, <1>7, <1>8, InductionUpTo, Zenon
  <2> QED BY <1>1, <2>1
<1> QED BY <1>1, <1>9, Zenon

\* What is kept of a sequence without its first element.
LEMMA KeptHead ==
    ASSUME NEW A, NEW q \in Seq(A), q # << >>, NEW K
    PROVE  Kept(q, K) = IF Head(q) \in K THEN << Head(q) >> \o Kept(Tail(q), K)
                        ELSE Kept(Tail(q), K)
<1> DEFINE x == Head(q)
           t == Tail(q)
<1>1. x \in A /\ t \in Seq(A) /\ << x >> \in Seq(A) /\ q = << x >> \o t
      /\ << x >> = Append(<< >>, x) /\ << >> \in Seq(A)
  OBVIOUS
<1> HIDE DEF x, t
<1>2. Kept(<< x >>, K) = IF x \in K THEN << x >> ELSE << >>
  <2>1. Kept(<< >>, K) = << >>
        /\ Kept(Append(<< >>, x), K)
             = IF x \in K THEN Append(Kept(<< >>, K), x) ELSE Kept(<< >>, K)
    BY <1>1, KeptAppend, Zenon
  <2> QED BY <1>1, <2>1, Zenon
<1>3. Kept(q, K) = Kept(<< x >>, K) \o Kept(t, K)
  <2>1. \A u, v \in Seq(A) : Kept(u \o v, K) = Kept(u, K) \o Kept(v, K)
    BY KeptCat
  <2> QED BY <1>1, <2>1, Zenon
<1>4. Kept(t, K) \in Seq(A)
  BY <1>1, KeptKeeps, Zenon
<1>5. << >> \o Kept(t, K) = Kept(t, K)
  BY <1>4
<1>6. CASE x \in K
  BY <1>2, <1>3, <1>6, Zenon DEF x, t
<1>7. CASE x \notin K
  BY <1>2, <1>3, <1>5, <1>7, Zenon DEF x, t
<1> QED BY <1>6, <1>7, Zenon

\* retain keeps the keys of L, with their values, and the shape of the store.
LEMMA RetainKeeps ==
    ASSUME NEW K, NEW V, NEW s, NEW c \in Nat, IsStore(s, K, V), StoreShape(s, c), NEW L
    PROVE  LET t == Retain(s, L)
           IN /\ IsStore(t, K, V)
              /\ StoreShape(t, c)
              /\ Present(t) = Present(s) \cap L
              /\ \A k \in Present(t) : t.values[k] = s.values[k]
<1> DEFINE M == Elems(s.order) \ (Present(s) \ L)
           q == Kept(s.order, M)
           v == Without(s.values, Present(s) \ L)
           t == Retain(s, L)
<1>1. s.order \in Seq(K) /\ Distinct(s.order) /\ Elems(s.order) = Present(s)
  BY Zenon DEF IsStore, StoreShape
<1>2. q \in Seq(K) /\ Distinct(q) /\ Elems(q) = Elems(s.order) \cap M
  BY <1>1, KeptKeeps, Zenon
<1>3. t = [values |-> v, order |-> q]
  BY Zenon DEF Retain
<1>4. DOMAIN v = Present(s) \cap L /\ \A k \in DOMAIN v : v[k] = s.values[k]
  BY Zenon DEF Without, Present
<1>5. Elems(q) = Present(s) \cap L
  BY <1>1, <1>2, Zenon
<1>6. /\ Present(s) \subseteq K /\ IsFiniteSet(Present(s))
      /\ s.values \in [Present(s) -> V] /\ Cardinality(Present(s)) <= c
  BY Zenon DEF IsStore, StoreShape
<1> DEFINE P == Present(s) \cap L
<1>7. IsFiniteSet(P) /\ Cardinality(P) <= Cardinality(Present(s)) /\ P \subseteq K
  <2>1. P \in SUBSET Present(s)
    BY Zenon
  <2> QED BY <2>1, <1>6, FS_Subset, Zenon
<1>8. Cardinality(P) <= c
  <2>1. Cardinality(P) \in Nat /\ Cardinality(Present(s)) \in Nat
    BY <1>6, <1>7, FS_CardinalityType, Zenon
  <2> QED BY <2>1, <1>6, <1>7
<1>9. v \in [P -> V]
  BY <1>4, <1>6, Zenon DEF Without
<1>10. t.values = v /\ t.order = q /\ Present(t) = P
  BY <1>3, <1>4 DEF Present
<1> HIDE DEF M, q, v, t, P
<1>11. IsStore(t, K, V)
  BY <1>2, <1>3, <1>7, <1>9, <1>10, Zenon DEF IsStore
<1>12. StoreShape(t, c)
  BY <1>2, <1>5, <1>8, <1>10, Zenon DEF StoreShape, P
<1> QED BY <1>4, <1>10, <1>11, <1>12, Zenon DEF t, P

\* Changing the value of a key that is there.
LEMMA PutKeeps ==
    ASSUME NEW K, NEW V, NEW s, NEW c, IsStore(s, K, V), StoreShape(s, c),
           NEW k \in Present(s), NEW v \in V
    PROVE  LET t == [s EXCEPT !.values = With(s.values, k, v)]
           IN /\ IsStore(t, K, V)
              /\ StoreShape(t, c)
              /\ Present(t) = Present(s)
              /\ t.values[k] = v
              /\ \A j \in Present(t) \ {k} : t.values[j] = s.values[j]
<1> DEFINE w == With(s.values, k, v)
           t == [s EXCEPT !.values = w]
<1>1. /\ s = [values |-> s.values, order |-> s.order] /\ s.values \in [Present(s) -> V]
      /\ Present(s) \subseteq K /\ IsFiniteSet(Present(s)) /\ s.order \in Seq(K)
  BY Zenon DEF IsStore
<1>2. t = [values |-> w, order |-> s.order]
  BY <1>1
<1>3. /\ DOMAIN w = Present(s) /\ w[k] = v /\ \A j \in Present(s) \ {k} : w[j] = s.values[j]
      /\ w \in [Present(s) -> V]
  BY <1>1, Zenon DEF With, Present
<1>4. t.values = w /\ t.order = s.order
  BY <1>2, Zenon
<1> HIDE DEF w, t
<1>5. Present(t) = Present(s)
  BY <1>3, <1>4, Zenon DEF Present
<1>6. IsStore(t, K, V) /\ StoreShape(t, c)
  BY <1>1, <1>2, <1>3, <1>4, <1>5, Zenon DEF IsStore, StoreShape
<1> QED BY <1>3, <1>4, <1>5, <1>6, Zenon DEF t, w

\* How many entries of a sequence are in R.
CountIn(q, R) == Cardinality({i \in DOMAIN q : q[i] \in R})

LEMMA CountType ==
    ASSUME NEW A, NEW q \in Seq(A), NEW R
    PROVE  IsFiniteSet({i \in DOMAIN q : q[i] \in R}) /\ CountIn(q, R) \in Nat
<1>1. Len(q) \in Nat /\ DOMAIN q = 1 .. Len(q)
  OBVIOUS
<1>2. IsFiniteSet(1 .. Len(q))
  BY <1>1, FS_Interval
<1>3. {i \in DOMAIN q : q[i] \in R} \in SUBSET (1 .. Len(q))
  BY <1>1, Zenon
<1>4. IsFiniteSet({i \in DOMAIN q : q[i] \in R})
  BY <1>2, <1>3, FS_Subset, Zenon
<1> QED BY <1>4, FS_CardinalityType, Zenon DEF CountIn

\* A sequence of different elements, those of which that are in R occur in
\* another and are in S there, has no more in R than the other has in S.
LEMMA CountMono ==
    ASSUME NEW A, NEW p \in Seq(A), NEW q \in Seq(A), Distinct(p), NEW R, NEW S,
           \A x \in Elems(p) \cap R : x \in Elems(q) \cap S
    PROVE  CountIn(p, R) <= CountIn(q, S)
<1> DEFINE I == {i \in DOMAIN p : p[i] \in R}
           J == {i \in DOMAIN q : q[i] \in S}
           f == [i \in I |-> CHOOSE j \in J : q[j] = p[i]]
<1>1. \A i \in I : \E j \in J : q[j] = p[i]
  BY Zenon DEF Elems
<1>2. \A i \in I : f[i] \in J /\ q[f[i]] = p[i]
  BY <1>1, Zenon
<1>3. f \in [I -> J]
  BY <1>2, Zenon
<1>4. \A i, j \in I : f[i] = f[j] => i = j
  BY <1>2, Zenon DEF Distinct
<1>5. f \in Injection(I, J)
  BY <1>3, <1>4, Zenon DEF Injection, IsInjective
<1>6. IsFiniteSet(J)
  BY CountType, Zenon
<1> HIDE DEF f, I, J
<1>7. Cardinality(I) <= Cardinality(J)
  BY <1>5, <1>6, FS_Injection, Zenon
<1> QED BY <1>7, Zenon DEF CountIn, I, J

\* One more element counts for at most one.
LEMMA CountAppend ==
    ASSUME NEW A, NEW q \in Seq(A), NEW x \in A, NEW R
    PROVE  CountIn(Append(q, x), R) <= CountIn(q, R) + 1
<1> DEFINE I == {i \in DOMAIN q : q[i] \in R}
           n == Len(q)
           p == Append(q, x)
           J == {i \in DOMAIN p : p[i] \in R}
<1>1. /\ n \in Nat /\ DOMAIN q = 1 .. n /\ DOMAIN p = 1 .. n + 1
      /\ \A i \in 1 .. n : p[i] = q[i]
  OBVIOUS
<1>2. J \subseteq I \cup {n + 1}
  BY <1>1
<1>3. IsFiniteSet(I)
  BY CountType, Zenon
<1>4. IsFiniteSet(I \cup {n + 1}) /\ Cardinality(I \cup {n + 1}) <= Cardinality(I) + 1
  <2>1. Cardinality(I) \in Nat
    BY <1>3, FS_CardinalityType, Zenon
  <2> DEFINE e == n + 1
             m == Cardinality(I \cup {e})
  <2> HIDE DEF I, n, e
  <2>2. IsFiniteSet(I \cup {e}) /\ (m = Cardinality(I) \/ m = Cardinality(I) + 1)
    BY <1>3, FS_AddElement, Zenon
  <2> HIDE DEF m
  <2>3. m <= Cardinality(I) + 1
    BY <2>1, <2>2
  <2> QED BY <2>2, <2>3, Zenon DEF e, m
<1> HIDE DEF I, J
<1>5. Cardinality(J) <= Cardinality(I \cup {n + 1}) /\ IsFiniteSet(J)
  BY <1>2, <1>4, FS_Subset, Zenon
<1>6. Cardinality(J) \in Nat /\ Cardinality(I) \in Nat /\ Cardinality(I \cup {n + 1}) \in Nat
  BY <1>3, <1>4, <1>5, FS_CardinalityType, Zenon
<1>7. Cardinality(J) <= Cardinality(I) + 1
  BY <1>4, <1>5, <1>6
<1> QED BY <1>7, Zenon DEF CountIn, I, J

----------------------------------------------------------------------------
(* Sums.                                                                   *)

\* S[i] is the sum of the first i.
Sums(S, f, n) == S[0] = 0 /\ \A i \in 1 .. n : S[i] = S[i - 1] + f[i]

\* What the recursion of Total computes.
LEMMA TotalDef ==
  ASSUME NEW n \in Nat, NEW f \in [1 .. n -> Nat]
  PROVE  \E S \in [0 .. n -> Nat] : Sums(S, f, n) /\ Total(f, n) = S[n]
<1> DEFINE Add(i, p) == IF i \in 1 .. n THEN p + f[i] ELSE p
           step == [p \in Nat \X Nat |-> Add(p[1], p[2])]
           Body(G) == [i \in 0 .. n |-> IF i = 0 THEN 0 ELSE G[i - 1] + f[i]]
           H == CHOOSE G : G = Body(G)
<1>1. step \in [Nat \X Nat -> Nat] /\ \A i, p \in Nat : step[<<i, p>>] = Add(i, p)
  OBVIOUS
<1>2. Total(f, n) = H[n]
  BY Zenon DEF Total
<1> HIDE DEF step
<1>3. PICK F \in [0 .. n -> Nat] : Follows(F, n, 0, step)
  BY <1>1, Recursion, Zenon
<1>4. ASSUME NEW i \in 1 .. n PROVE F[i] = F[i - 1] + f[i]
  <2>1. i \in Nat /\ i - 1 \in 0 .. n /\ F[i - 1] \in Nat
    OBVIOUS
  <2> QED BY <2>1, <1>1, <1>3, Zenon DEF Follows
<1>5. F = Body(F)
  <2>1. \A i \in 0 .. n : F[i] = IF i = 0 THEN 0 ELSE F[i - 1] + f[i]
    <3>1. F[0] = 0
      BY <1>3, Zenon DEF Follows
    <3>2. \A i \in 0 .. n : i # 0 => i \in 1 .. n
      OBVIOUS
    <3> QED BY <3>1, <3>2, <1>4, Zenon
  <2> QED BY <2>1, Zenon
<1>6. H = Body(H)
  BY <1>5, Zenon
<1> HIDE DEF H
<1>7. \A i \in 0 .. n : H[i] = Body(H)[i]
  BY <1>6, Zenon
<1>8. H[0] = 0
  BY <1>7
<1>9. ASSUME NEW i \in 1 .. n PROVE H[i] = H[i - 1] + f[i]
  <2>1. i \in 0 .. n /\ i # 0
    OBVIOUS
  <2> QED BY <2>1, <1>7, Zenon
<1> DEFINE S == {i \in 0 .. n : H[i] \in Nat}
<1>10. \A i \in 0 .. n : i \in S
  <2>1. 0 \in S
    BY <1>8
  <2>2. ASSUME NEW i \in 0 .. n - 1, i \in S PROVE i + 1 \in S
    <3>1. i + 1 \in 1 .. n /\ (i + 1) - 1 = i /\ f[i + 1] \in Nat /\ H[i] \in Nat
      BY <2>2
    <3>2. H[i + 1] = H[i] + f[i + 1]
      BY <3>1, <1>9, Zenon
    <3> QED BY <3>1, <3>2
  <2> HIDE DEF S
  <2> QED BY <2>1, <2>2, InductionUpTo, Zenon
<1>11. H \in [0 .. n -> Nat]
  BY <1>6, <1>10, Zenon
<1> QED BY <1>2, <1>8, <1>9, <1>11, Zenon DEF Sums

LEMMA TotalType ==
  ASSUME NEW n \in Nat, NEW f \in [1 .. n -> Nat] PROVE Total(f, n) \in Nat
  BY TotalDef

\* Larger terms, a larger sum.
LEMMA TotalMono ==
  ASSUME NEW n \in Nat, NEW f \in [1 .. n -> Nat], NEW g \in [1 .. n -> Nat],
         \A i \in 1 .. n : f[i] <= g[i]
  PROVE  Total(f, n) <= Total(g, n)
<1>1. PICK S \in [0 .. n -> Nat] : Sums(S, f, n) /\ Total(f, n) = S[n]
  BY TotalDef, Zenon
<1>2. PICK U \in [0 .. n -> Nat] : Sums(U, g, n) /\ Total(g, n) = U[n]
  BY TotalDef, Zenon
<1> DEFINE I == {i \in 0 .. n : S[i] <= U[i]}
<1>3. 0 \in I
  BY <1>1, <1>2 DEF Sums
<1>4. ASSUME NEW i \in 0 .. n - 1, i \in I PROVE i + 1 \in I
  <2>1. /\ i + 1 \in 1 .. n /\ (i + 1) - 1 = i /\ i \in 0 .. n /\ f[i + 1] <= g[i + 1]
        /\ f[i + 1] \in Nat /\ g[i + 1] \in Nat /\ S[i] \in Nat /\ U[i] \in Nat
    OBVIOUS
  <2>2. S[i + 1] = S[i] + f[i + 1] /\ U[i + 1] = U[i] + g[i + 1]
    BY <1>1, <1>2, <2>1, Zenon DEF Sums
  <2> QED BY <1>4, <2>1, <2>2, SMTT(30)
<1>5. n \in I
  <2>1. \A i \in 0 .. n : i \in I
    <3> HIDE DEF I
    <3> QED BY <1>3, <1>4, InductionUpTo, Zenon
  <2> QED BY <2>1
<1> QED BY <1>1, <1>2, <1>5, Zenon

LEMMA TotalZero ==
  ASSUME NEW n \in Nat, NEW f \in [1 .. n -> Nat], \A i \in 1 .. n : f[i] = 0
  PROVE  Total(f, n) = 0
<1>1. PICK S \in [0 .. n -> Nat] : Sums(S, f, n) /\ Total(f, n) = S[n]
  BY TotalDef, Zenon
<1> DEFINE I == {i \in 0 .. n : S[i] = 0}
<1>2. 0 \in I
  BY <1>1 DEF Sums
<1>3. ASSUME NEW i \in 0 .. n - 1, i \in I PROVE i + 1 \in I
  <2>1. i + 1 \in 1 .. n /\ (i + 1) - 1 = i /\ S[i] = 0 /\ f[i + 1] = 0
    BY <1>3
  <2>2. S[i + 1] = S[i] + f[i + 1]
    BY <1>1, <2>1, Zenon DEF Sums
  <2> QED BY <2>1, <2>2
<1>4. n \in I
  <2>1. \A i \in 0 .. n : i \in I
    <3> HIDE DEF I
    <3> QED BY <1>2, <1>3, InductionUpTo, Zenon
  <2> QED BY <2>1
<1> QED BY <1>1, <1>4, Zenon

\* One term more by one.
LEMMA TotalBump ==
  ASSUME NEW n \in Nat, NEW f \in [1 .. n -> Nat], NEW u \in 1 .. n
  PROVE  Total([f EXCEPT ![u] = f[u] + 1], n) = Total(f, n) + 1
<1> DEFINE g == [f EXCEPT ![u] = f[u] + 1]
<1>0. g \in [1 .. n -> Nat] /\ g[u] = f[u] + 1 /\ \A i \in 1 .. n : i # u => g[i] = f[i]
  OBVIOUS
<1> HIDE DEF g
<1>1. PICK S \in [0 .. n -> Nat] : Sums(S, f, n) /\ Total(f, n) = S[n]
  BY TotalDef, Zenon
<1>2. PICK U \in [0 .. n -> Nat] : Sums(U, g, n) /\ Total(g, n) = U[n]
  BY <1>0, TotalDef, Zenon
<1> DEFINE I == {i \in 0 .. n : (i < u => U[i] = S[i]) /\ (u <= i => U[i] = S[i] + 1)}
<1>3. 0 \in I
  BY <1>1, <1>2 DEF Sums
<1>4. ASSUME NEW i \in 0 .. n - 1, i \in I PROVE i + 1 \in I
  <2>1. /\ i + 1 \in 1 .. n /\ (i + 1) - 1 = i /\ i \in 0 .. n
        /\ f[i + 1] \in Nat /\ g[i + 1] \in Nat /\ S[i] \in Nat /\ U[i] \in Nat
    BY <1>0
  <2>2. S[i + 1] = S[i] + f[i + 1] /\ U[i + 1] = U[i] + g[i + 1]
    BY <1>1, <1>2, <2>1, Zenon DEF Sums
  <2>3. (i < u => U[i] = S[i]) /\ (u <= i => U[i] = S[i] + 1)
    BY <1>4, Zenon
  <2>4. CASE i + 1 < u
    <3>1. i < u /\ g[i + 1] = f[i + 1]
      BY <1>0, <2>1, <2>4
    <3>2. U[i + 1] = S[i + 1] /\ ~(u <= i + 1)
      BY <2>1, <2>2, <2>3, <2>4, <3>1
    <3> QED BY <2>1, <3>2
  <2>5. CASE i + 1 = u
    <3>1. i < u
      BY <2>5
    <3>2. g[i + 1] = f[i + 1] + 1
      BY <1>0, <2>5, Zenon
    <3>3. U[i + 1] = S[i + 1] + 1 /\ ~(i + 1 < u)
      BY <2>1, <2>2, <2>3, <2>5, <3>1, <3>2
    <3> QED BY <2>1, <3>3
  <2>6. CASE u < i + 1
    <3>1. u <= i /\ g[i + 1] = f[i + 1]
      BY <1>0, <2>1, <2>6
    <3>2. U[i + 1] = S[i + 1] + 1 /\ ~(i + 1 < u)
      BY <2>1, <2>2, <2>3, <2>6, <3>1
    <3> QED BY <2>1, <3>2
  <2> QED BY <2>4, <2>5, <2>6, <2>1
<1>5. n \in I
  <2>1. \A i \in 0 .. n : i \in I
    <3> HIDE DEF I
    <3> QED BY <1>3, <1>4, InductionUpTo, Zenon
  <2> QED BY <2>1
<1> QED BY <1>1, <1>2, <1>5 DEF g
=============================================================================
