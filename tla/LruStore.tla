------------------------------ MODULE LruStore ------------------------------
(***************************************************************************)
(* BoundedLruStore (cache.rs): a map and the order in which its keys were  *)
(* last used, oldest first.  A store is a record                           *)
(*   [values |-> a function from the keys present, order |-> a sequence];  *)
(* each method is an operator from a store to the store it leaves.         *)
(***************************************************************************)
EXTENDS Lists, FiniteSets

EmptyStore == [values |-> [k \in {} |-> k], order |-> << >>]

Present(s) == DOMAIN s.values

Elems(q) == {q[i] : i \in DOMAIN q}

Distinct(q) == \A i, j \in DOMAIN q : q[i] = q[j] => i = j

Without(values, K) == [k \in DOMAIN values \ K |-> values[k]]

With(values, k, v) == [j \in DOMAIN values \cup {k} |-> IF j = k THEN v ELSE values[j]]

\* remove_from_lru.  The code drops every occurrence of the key; there is at
\* most one (StoreShape), and it is the one dropped here.
RemoveFromLru(q, k) ==
  IF k \in Elems(q)
  THEN LET at == CHOOSE i \in DOMAIN q : q[i] = k
       IN [i \in 1 .. Len(q) - 1 |-> IF i < at THEN q[i] ELSE q[i + 1]]
  ELSE q

TouchKey(s, k) ==
  IF s.order # << >> /\ s.order[Len(s.order)] = k
  THEN s
  ELSE [values |-> s.values, order |-> Append(RemoveFromLru(s.order, k), k)]

GetMut(s, k) == IF k \in Present(s) THEN TouchKey(s, k) ELSE s

\* What the first n pops of evict_to_capacity leave in the map.
LeftAfter(s, n) == Present(s) \ {s.order[i] : i \in 1 .. n}

\* The loop stops as soon as the map fits, or the order is used up.
StopsAfter(s, capacity, n) ==
  n = Len(s.order) \/ Cardinality(LeftAfter(s, n)) <= capacity

\* Mutant: the newest goes first.
EvictNewest(s, capacity) ==
  IF Cardinality(Present(s)) <= capacity THEN s
  ELSE [values |-> Without(s.values, {s.order[Len(s.order)]}),
        order |-> SubSeq(s.order, 1, Len(s.order) - 1)]

EvictToCapacity(s, capacity) ==
  LET n == CHOOSE m \in 0 .. Len(s.order) :
             /\ StopsAfter(s, capacity, m)
             /\ \A l \in 0 .. m - 1 : ~StopsAfter(s, capacity, l)
  IN [values |-> [k \in LeftAfter(s, n) |-> s.values[k]],
      order |-> SubSeq(s.order, n + 1, Len(s.order))]

Insert(s, capacity, k, v) ==
  LET q == RemoveFromLru(s.order, k)
  IN IF capacity = 0
     THEN [values |-> Without(s.values, {k}), order |-> q]
     ELSE EvictToCapacity([values |-> With(s.values, k, v), order |-> Append(q, k)],
                          capacity)

RemoveKey(s, k) ==
  [values |-> Without(s.values, {k}), order |-> RemoveFromLru(s.order, k)]

\* retain, with K the keys whose value is to be kept: the others are removed one
\* by one, in whatever order the map lists them.
Retain(s, K) ==
  [values |-> Without(s.values, Present(s) \ K),
   order  |-> Kept(s.order, Elems(s.order) \ (Present(s) \ K))]

IsStore(s, K, V) ==
  /\ s = [values |-> s.values, order |-> s.order]
  /\ Present(s) \subseteq K /\ IsFiniteSet(Present(s))
  /\ s.values \in [Present(s) -> V]
  /\ s.order \in Seq(K)

\* The order lists exactly the keys of the map, each once, and the map keeps
\* the capacity.
StoreShape(s, capacity) ==
  /\ Distinct(s.order)
  /\ Elems(s.order) = Present(s)
  /\ Cardinality(Present(s)) <= capacity
=============================================================================
