---------------------------- MODULE StoreProofs ----------------------------
(***************************************************************************)
(* The bounded store keeps its shape and its recency order, and evicts the *)
(* least recently used, for any keys, values and capacity; the sharded     *)
(* store keeps its shape and its total capacity, its racing get-or-inserts *)
(* agree, and its clear forgets, for any threads and number of shards; and *)
(* the rate limiter's windows bound the calls of an interval, for any      *)
(* limit, window and callers.                                              *)
(***************************************************************************)
EXTENDS BoundedLru, ShardedLru, RateLimiter, DataProofs

(***************************************************************************)
(* BoundedLruStore                                                         *)
(***************************************************************************)
\* Inductive as it stands: the recency order is kept because the clock is ahead
\* of every use (LruTypeOK) and the order lists the keys of the map (Shape).
LruInv == LruTypeOK /\ Shape /\ ByRecency

\* An empty store has the shape, and nothing has been used.
LEMMA LruInitial == LruInit => LruInv
<1> SUFFICES ASSUME LruInit PROVE LruInv
  BY Zenon
<1>1. /\ Present(store) = {} /\ store.order = << >>
      /\ store = [values |-> store.values, order |-> store.order]
      /\ store.values \in [Present(store) -> LruValues]
  BY Zenon DEF LruInit, EmptyStore, Present
<1>2. IsFiniteSet({}) /\ Cardinality({}) = 0
  BY FS_EmptySet, Zenon
<1>3. IsStore(store, LruKeys, LruValues)
  BY <1>1, <1>2 DEF IsStore
<1>4. Shape
  BY <1>1, <1>2, BoundsAssumption DEF Shape, StoreShape, Distinct, Elems
<1>5. clock \in 0 .. MaxClock /\ used \in [LruKeys -> 0 .. clock]
  BY BoundsAssumption DEF LruInit
<1>6. ByRecency
  BY <1>1 DEF ByRecency
<1> QED BY <1>3, <1>4, <1>5, <1>6, Zenon DEF LruInv, LruTypeOK

\* After a use of k, k is the most recent key, and the others are in the order
\* they were in.
LEMMA UsedKeeps ==
    ASSUME LruInv, NEW k \in LruKeys, Used(k)
    PROVE  /\ clock' \in 0 .. MaxClock /\ used' \in [LruKeys -> 0 .. clock']
           /\ SortedBy(RemoveFromLru(store.order, k), used')
           /\ \A j \in LruKeys \ {k} : used'[j] = used[j] /\ used'[j] < used'[k]
           /\ used'[k] = clock'
<1>1. /\ clock \in 0 .. MaxClock /\ used \in [LruKeys -> 0 .. clock]
      /\ MaxClock \in Nat /\ clock < MaxClock
  BY BoundsAssumption, Zenon DEF LruInv, LruTypeOK, Used
<1>2. clock' = clock + 1 /\ used' = [used EXCEPT ![k] = clock + 1]
  BY Zenon DEF Used
<1>3. clock' \in 0 .. MaxClock /\ used' \in [LruKeys -> 0 .. clock']
  BY <1>1, <1>2
<1>4. ASSUME NEW j \in LruKeys \ {k} PROVE used'[j] = used[j] /\ used'[j] < used'[k]
  BY <1>1, <1>2
<1> DEFINE q == RemoveFromLru(store.order, k)
<1>5. store.order \in Seq(LruKeys) /\ Distinct(store.order) /\ SortedBy(store.order, used)
  BY Zenon DEF LruInv, LruTypeOK, IsStore, Shape, StoreShape, ByRecency, SortedBy
<1>6. q \in Seq(LruKeys) /\ Elems(q) = Elems(store.order) \ {k} /\ SortedBy(q, used)
  BY <1>5, RemoveFromLruKeeps, Zenon
<1> HIDE DEF q
<1>7. \A i \in DOMAIN q : q[i] \in LruKeys \ {k}
  BY <1>6 DEF Elems
<1>8. SortedBy(q, used')
  BY <1>4, <1>6, <1>7, Zenon DEF SortedBy
<1>9. used'[k] = clock'
  BY <1>1, <1>2, Zenon
<1> QED BY <1>3, <1>4, <1>8, <1>9, Zenon DEF q

\* An insert keeps the invariant and drops only older keys than it keeps.
LEMMA LruInsertAction ==
    ASSUME LruInv, NEW k \in LruKeys, NEW v \in LruValues, InsertEntry(k, v)
    PROVE  /\ LruInv'
           /\ \A i \in Present(store) \ Present(store'),
                 j \in Present(store) \cap Present(store') : used[i] < used'[j]
           /\ LruCapacity # 0 => \E j \in Present(store') : used'[j] = clock'
<1>1. /\ IsStore(store, LruKeys, LruValues) /\ StoreShape(store, LruCapacity) /\ LruCapacity \in Nat
      /\ Present(store) \subseteq LruKeys
      /\ clock \in Nat /\ used \in [LruKeys -> 0 .. clock]
  BY BoundsAssumption DEF LruInv, LruTypeOK, Shape, IsStore
<1>2. /\ clock' \in 0 .. MaxClock /\ used' \in [LruKeys -> 0 .. clock']
      /\ SortedBy(RemoveFromLru(store.order, k), used')
      /\ \A j \in LruKeys \ {k} : used'[j] = used[j] /\ used'[j] < used'[k]
      /\ used'[k] = clock'
  BY UsedKeeps, Zenon DEF InsertEntry
<1> DEFINE t == Insert(store, LruCapacity, k, v)
<1>3. /\ IsStore(t, LruKeys, LruValues) /\ StoreShape(t, LruCapacity)
      /\ Present(t) \subseteq Present(store) \cup {k}
      /\ LruCapacity # 0 => k \in Present(t)
      /\ \A f : /\ SortedBy(RemoveFromLru(store.order, k), f)
                /\ \A j \in Present(store) \ {k} : f[j] < f[k]
           => /\ SortedBy(t.order, f)
              /\ LruCapacity # 0 => \A i \in Present(store) \ Present(t), j \in Present(t) : f[i] < f[j]
  BY <1>1, InsertKeeps
<1>4. store' = t
  BY Zenon DEF InsertEntry
<1> HIDE DEF t
<1>5. \A j \in Present(store) \ {k} : used'[j] < used'[k]
  BY <1>1, <1>2, Zenon
<1>6. /\ SortedBy(t.order, used')
      /\ LruCapacity # 0 => \A i \in Present(store) \ Present(t), j \in Present(t) : used'[i] < used'[j]
  BY <1>2, <1>3, <1>5, Zenon
<1>7. ByRecency'
  BY <1>4, <1>6, Zenon DEF ByRecency, SortedBy
<1>8. LruInv'
  BY <1>2, <1>3, <1>4, <1>7, Zenon DEF LruInv, LruTypeOK, Shape
<1>9. ASSUME NEW i \in Present(store) \ Present(t), NEW j \in Present(store) \cap Present(t)
      PROVE  used[i] < used'[j]
  <2>1. CASE LruCapacity # 0
    <3>1. i # k
      BY <2>1, <1>3, Zenon
    <3>2. used'[i] = used[i]
      BY <3>1, <1>1, <1>2, Zenon
    <3> QED BY <2>1, <3>2, <1>6, Zenon
  <2>2. CASE LruCapacity = 0
    <3>1. Present(store) = {}
      BY <2>2, <1>1, FS_EmptySet, FS_CardinalityType DEF IsStore, StoreShape
    <3> QED BY <3>1, Zenon
  <2> QED BY <2>1, <2>2, Zenon
<1>10. LruCapacity # 0 => \E j \in Present(store') : used'[j] = clock'
  BY <1>2, <1>3, <1>4, Zenon
<1> QED BY <1>4, <1>8, <1>9, <1>10, Zenon

\* get_mut keeps the invariant and drops nothing.
LEMMA LruGetMutAction ==
    ASSUME LruInv, NEW k \in LruKeys, GetMutEntry(k)
    PROVE  /\ LruInv' /\ Present(store') = Present(store)
           /\ \E j \in Present(store') : used'[j] = clock'
<1>1. /\ IsStore(store, LruKeys, LruValues) /\ StoreShape(store, LruCapacity)
      /\ Present(store) \subseteq LruKeys /\ k \in Present(store)
  BY Zenon DEF LruInv, LruTypeOK, Shape, IsStore, GetMutEntry
<1>2. /\ clock' \in 0 .. MaxClock /\ used' \in [LruKeys -> 0 .. clock']
      /\ SortedBy(RemoveFromLru(store.order, k), used')
      /\ \A j \in LruKeys \ {k} : used'[j] = used[j] /\ used'[j] < used'[k]
      /\ used'[k] = clock'
  BY UsedKeeps, Zenon DEF GetMutEntry
<1> DEFINE t == GetMut(store, k)
<1>3. /\ IsStore(t, LruKeys, LruValues) /\ StoreShape(t, LruCapacity) /\ t.values = store.values
      /\ \A f : /\ SortedBy(RemoveFromLru(store.order, k), f)
                /\ \A j \in Present(store) \ {k} : f[j] < f[k]
           => SortedBy(t.order, f)
  BY <1>1, GetMutKeeps, Zenon
<1>4. store' = t
  BY Zenon DEF GetMutEntry
<1> HIDE DEF t
<1>5. \A j \in Present(store) \ {k} : used'[j] < used'[k]
  BY <1>1, <1>2, Zenon
<1>6. SortedBy(t.order, used')
  BY <1>2, <1>3, <1>5, Zenon
<1>7. ByRecency'
  BY <1>4, <1>6, Zenon DEF ByRecency, SortedBy
<1>8. Present(t) = Present(store)
  BY <1>3, Zenon DEF Present
<1>9. \E j \in Present(store') : used'[j] = clock'
  BY <1>1, <1>2, <1>4, <1>8, Zenon
<1> QED BY <1>2, <1>3, <1>4, <1>7, <1>8, <1>9, Zenon DEF LruInv, LruTypeOK, Shape

\* remove keeps the invariant; the key it drops it was asked to drop.
LEMMA LruRemoveAction ==
    ASSUME LruInv, NEW k \in LruKeys, RemoveEntry(k)
    PROVE  LruInv'
<1>1. /\ IsStore(store, LruKeys, LruValues) /\ StoreShape(store, LruCapacity) /\ LruCapacity \in Nat
      /\ SortedBy(store.order, used)
  BY BoundsAssumption, Zenon DEF LruInv, LruTypeOK, Shape, ByRecency, SortedBy
<1> DEFINE t == RemoveKey(store, k)
<1>2. /\ IsStore(t, LruKeys, LruValues) /\ StoreShape(t, LruCapacity)
      /\ \A f : SortedBy(store.order, f) => SortedBy(t.order, f)
  BY <1>1, RemoveKeeps, Zenon
<1>3. store' = t /\ clock' = clock /\ used' = used
  BY Zenon DEF RemoveEntry
<1> HIDE DEF t
<1>4. SortedBy(t.order, used)
  BY <1>1, <1>2, Zenon
<1>5. ByRecency'
  BY <1>3, <1>4, Zenon DEF ByRecency, SortedBy
<1> QED BY <1>2, <1>3, <1>5, Zenon DEF LruInv, LruTypeOK, Shape

\* Every operation keeps the invariant.
LEMMA LruInductive ==
    ASSUME LruInv, [LruNext]_lruVars
    PROVE  LruInv'
<1>1. CASE UNCHANGED lruVars
  BY <1>1, Zenon DEF lruVars, LruInv, LruTypeOK, Shape, ByRecency
<1>2. CASE LruNext
  BY <1>2, LruInsertAction, LruGetMutAction, LruRemoveAction, Zenon DEF LruNext
<1> QED BY <1>1, <1>2, Zenon

\* The invariant holds throughout.
LEMMA LruInvariant == LruSpec => []LruInv
  BY LruInitial, LruInductive, PTL DEF LruSpec

\* The map and the recency list of a bounded store agree, and the map keeps its
\* capacity, after any sequence of inserts, touches and removals.
THEOREM StoreKeepsShape == LruSpec => []Shape
<1>1. LruInv => Shape
  BY Zenon DEF LruInv
<1> QED BY <1>1, LruInvariant, PTL

\* The recency list is sorted by last use.
THEOREM OrderIsRecency == LruSpec => []ByRecency
<1>1. LruInv => ByRecency
  BY Zenon DEF LruInv
<1> QED BY <1>1, LruInvariant, PTL

\* Every eviction takes keys that were used before all the keys it leaves.
THEOREM EvictionIsLru == LruSpec => EvictsOldest
<1> DEFINE A == clock' # clock =>
                  /\ \A k \in Present(store) \ Present(store'),
                        j \in Present(store) \cap Present(store') : used[k] < used'[j]
                  /\ LruCapacity # 0 => \E j \in Present(store') : used'[j] = clock'
<1>1. ASSUME LruInv, [LruNext]_lruVars PROVE [A]_lruVars
  <2> SUFFICES ASSUME LruNext, clock' # clock PROVE A
    BY <1>1, Zenon
  <2>1. PICK k \in LruKeys : \/ \E v \in LruValues : InsertEntry(k, v)
                             \/ GetMutEntry(k)
                             \/ RemoveEntry(k)
    BY Zenon DEF LruNext
  <2>2. CASE \E v \in LruValues : InsertEntry(k, v)
    BY <2>2, LruInsertAction, <1>1, Zenon
  <2>3. CASE GetMutEntry(k)
    BY <2>3, LruGetMutAction, <1>1, Zenon
  <2>4. CASE RemoveEntry(k)
    BY <2>4, Zenon DEF RemoveEntry
  <2> QED BY <2>1, <2>2, <2>3, <2>4, Zenon
<1> QED BY <1>1, LruInvariant, PTL DEF LruSpec, EvictsOldest

(***************************************************************************)
(* ShardedRwLruStore                                                       *)
(***************************************************************************)
\* Every number in use is one that has been given out.
Numbered ==
  /\ \A i \in Shards : Stored(i) \subseteq 1 .. made
  /\ \A t \in Threads : doomed[t] \subseteq 1 .. made

\* A value on its way to insert is in no shard, in nobody else's hands, and in
\* no set that a clear is to forget.
Pending ==
  \A t \in Threads : pc[t] = "put" =>
    /\ value[t] \in 1 .. made
    /\ \A i \in Shards : value[t] \notin Stored(i)
    /\ \A u \in Threads : value[t] \notin doomed[u]
    /\ \A u \in Threads \ {t} : pc[u] = "put" => value[u] # value[t]

\* The shards a clear has taken hold nothing of what it is to forget.
Forgetting ==
  \A t \in Threads : pc[t] = "clear" =>
    /\ at[t] < ShardCount
    /\ \A i \in Shards : i < at[t] => Stored(i) \cap doomed[t] = {}

IInv == ShardTypeOK /\ ShardShape /\ Numbered /\ Pending /\ Forgetting

\* The shards, their capacities and the shard of a key.
LEMMA ShardFacts ==
  /\ ShardCount \in Nat \ {0}
  /\ 0 \in Shards
  /\ \A k \in Keys : ShardIndexFor(k) \in Shards
  /\ \A i \in Shards : ShardCapacity(i) \in Nat
  /\ Capacity # 0 => \A i \in Shards : ShardCapacity(i) # 0
  /\ Capacity = 0 => \A i \in Shards : ShardCapacity(i) = 0
<1>1. ShardCount \in Nat \ {0} /\ (Capacity # 0 => ShardCount <= Capacity)
  BY ShardAssumption DEF ShardCount
<1>2. Capacity = 0 => ShardCount = 1
  BY ShardAssumption DEF ShardCount
<1> DEFINE n == ShardCount
<1> HIDE DEF n
<1>3. n \in Nat \ {0} /\ Capacity \in Nat
  BY <1>1, ShardAssumption, Zenon DEF n
<1>4. \A k \in Keys : Hash[k] % n \in 0 .. n - 1
  BY <1>3, ShardAssumption
<1>5. Capacity \div n \in Nat /\ Capacity % n \in 0 .. n - 1
  BY <1>3
<1>6. n <= Capacity => Capacity \div n # 0
  BY <1>3
<1>7. n = 1 /\ Capacity = 0 => Capacity \div n = 0 /\ Capacity % n = 0
  OBVIOUS
<1>8. \A i \in 0 .. n - 1 : (IF i < Capacity % n THEN 1 ELSE 0) \in {0, 1}
  BY Zenon
<1>9. ASSUME NEW i \in Shards
      PROVE  /\ ShardCapacity(i) \in Nat
             /\ Capacity # 0 => ShardCapacity(i) # 0
             /\ Capacity = 0 => ShardCapacity(i) = 0
  <2>1. i \in 0 .. n - 1
    BY Zenon DEF Shards, n
  <2>2. ShardCapacity(i) = (Capacity \div n) + (IF i < Capacity % n THEN 1 ELSE 0)
    BY Zenon DEF ShardCapacity, n
  <2> QED BY <1>1, <1>2, <1>3, <1>5, <1>6, <1>7, <2>1, <2>2 DEF n
<1> QED BY <1>1, <1>3, <1>4, <1>9 DEF Shards, ShardIndexFor, n

\* A new store, whose shards are all empty.
LEMMA Initial == ShardInit => IInv
<1> SUFFICES ASSUME ShardInit PROVE IInv
  BY Zenon
<1>1. shards = [i \in Shards |-> EmptyStore]
  BY Zenon DEF ShardInit
<1>2. \A i \in Shards : IsStore(shards[i], Keys, Made) /\ StoreShape(shards[i], ShardCapacity(i))
  BY <1>1, EmptyStoreKeeps, ShardFacts, Zenon
<1>3. \A i \in Shards : Stored(i) = {}
  BY <1>1, EmptyStoreKeeps, Zenon DEF Stored
<1>4. ShardTypeOK
  BY <1>1, <1>2, ShardFacts, ShardAssumption DEF ShardInit, ShardTypeOK
<1>5. ShardShape
  BY <1>2, Zenon DEF ShardShape
<1>6. Numbered /\ Pending /\ Forgetting
  BY <1>3, Zenon DEF ShardInit, Numbered, Pending, Forgetting
<1> QED BY <1>4, <1>5, <1>6, Zenon DEF IInv

\* An insert into one shard keeps the stores; what a shard holds afterwards it
\* held before, or is the value inserted.
LEMMA InsertIntoKeeps ==
    ASSUME IInv, NEW k \in Keys, NEW v \in Made, InsertInto(ShardIndexFor(k), k, v)
    PROVE  /\ shards' \in [Shards -> {shards'[i] : i \in Shards}]
           /\ \A i \in Shards : IsStore(shards'[i], Keys, Made)
           /\ ShardShape'
           /\ \A i \in Shards : Stored(i)' \subseteq Stored(i) \cup {v}
           /\ \A i \in Shards : \A j \in Present(shards[i]) \cap Present(shards'[i]) :
                shards'[i].values[j] # shards[i].values[j] => j = k
           /\ Capacity # 0 => /\ k \in Present(shards'[ShardIndexFor(k)])
                              /\ shards'[ShardIndexFor(k)].values[k] = v
<1> DEFINE n == ShardIndexFor(k)
           s == shards[n]
           c == ShardCapacity(n)
           t == Insert(s, c, k, v)
<1>1. /\ n \in Shards /\ IsStore(s, Keys, Made) /\ StoreShape(s, c) /\ c \in Nat
      /\ Capacity # 0 => c # 0
  BY ShardFacts, Zenon DEF IInv, ShardTypeOK, ShardShape
<1>2. shards' = [shards EXCEPT ![n] = t] /\ shards \in [Shards -> {shards[i] : i \in Shards}]
  BY Zenon DEF InsertInto, IInv, ShardTypeOK
<1>3. /\ IsStore(t, Keys, Made)
      /\ StoreShape(t, c)
      /\ Present(t) \subseteq Present(s) \cup {k}
      /\ c # 0 => k \in Present(t) /\ t.values[k] = v
      /\ \A j \in Present(t) \ {k} : t.values[j] = s.values[j]
  <2> HIDE DEF s, c
  <2> QED BY <1>1, InsertKeeps DEF t
<1>k. k \in Present(t) => t.values[k] = v
  <2>1. CASE c # 0
    BY <2>1, <1>3, Zenon
  <2>2. CASE c = 0
    <3>1. Present(t) = {}
      BY <2>2, <1>3, FS_EmptySet, FS_CardinalityType DEF IsStore, StoreShape
    <3> QED BY <3>1, Zenon
  <2> QED BY <2>1, <2>2, Zenon
<1> HIDE DEF t, c, n
<1>4. /\ shards' \in [Shards -> {shards'[i] : i \in Shards}]
      /\ shards'[n] = t /\ \A i \in Shards \ {n} : shards'[i] = shards[i]
  BY <1>1, <1>2, Zenon
<1>5. \A i \in Shards : IsStore(shards'[i], Keys, Made)
  BY <1>3, <1>4, Zenon DEF IInv, ShardTypeOK
<1>6. ShardShape'
  <2> SUFFICES ASSUME NEW i \in Shards PROVE StoreShape(shards'[i], ShardCapacity(i))
    BY Zenon DEF ShardShape
  <2> QED BY <1>3, <1>4, Zenon DEF IInv, ShardShape, c
<1>7. ASSUME NEW i \in Shards PROVE Stored(i)' \subseteq Stored(i) \cup {v}
  <2>1. CASE i = n
    <3> SUFFICES ASSUME NEW j \in Present(t) PROVE t.values[j] \in Stored(n) \cup {v}
      BY <2>1, <1>4 DEF Stored
    <3>1. CASE j = k
      BY <3>1, <1>k, Zenon
    <3>2. CASE j # k
      BY <3>2, <1>3, Zenon DEF Stored
    <3> QED BY <3>1, <3>2, Zenon
  <2>2. CASE i # n
    BY <2>2, <1>4, Zenon DEF Stored
  <2> QED BY <2>1, <2>2, Zenon
<1>8. \A i \in Shards : \A j \in Present(shards[i]) \cap Present(shards'[i]) :
        shards'[i].values[j] # shards[i].values[j] => j = k
  BY <1>3, <1>4, Zenon
<1> QED BY <1>1, <1>3, <1>4, <1>5, <1>6, <1>7, <1>8, Zenon DEF n

\* The thread that makes a value draws a number that nobody has.
LEMMA FreshNumber ==
    ASSUME IInv, made < MaxValues
    PROVE  /\ made + 1 \in Made /\ made + 1 \in 0 .. MaxValues
           /\ made + 1 \notin 1 .. made
           /\ 1 .. made \subseteq 1 .. made + 1
  BY ShardAssumption DEF IInv, ShardTypeOK, Made

\* The read lock of get_or_insert_with_cloned changes no store.
LEMMA ReadAction ==
    ASSUME IInv, NEW t \in Threads, NEW k \in Keys, GetOrInsertRead(t, k)
    PROVE  IInv'
<1>1. /\ shards' = shards /\ value' = value /\ at' = at /\ made' = made /\ doomed' = doomed
      /\ pc' = [pc EXCEPT ![t] = "write"] /\ key' = [key EXCEPT ![t] = k]
  BY Zenon DEF GetOrInsertRead
<1>2. ShardTypeOK'
  BY <1>1, Zenon DEF IInv, ShardTypeOK
<1>3. \A i \in Shards : Stored(i)' = Stored(i)
  BY <1>1, Zenon DEF Stored
<1>4. pc \in [Threads -> {"idle", "write", "put", "clear"}]
  BY Zenon DEF IInv, ShardTypeOK
<1>5. ShardShape' /\ Numbered' /\ Pending' /\ Forgetting'
  BY <1>1, <1>3, <1>4, Zenon DEF IInv, ShardShape, Numbered, Pending, Forgetting
<1> QED BY <1>2, <1>5, Zenon DEF IInv

\* The write lock of get_or_insert_with_cloned replaces no value and returns the
\* one that is stored.
LEMMA WriteAction ==
    ASSUME IInv, NEW t \in Threads, GetOrInsertWrite(t)
    PROVE  /\ IInv'
           /\ \A i \in Shards : \A j \in Present(shards[i]) \cap Present(shards'[i]) :
                shards'[i].values[j] = shards[i].values[j]
           /\ Capacity # 0 => /\ key[t] \in Present(shards'[ShardIndexFor(key[t])])
                              /\ shards'[ShardIndexFor(key[t])].values[key[t]] = value'[t]
<1> DEFINE k == key[t]
           n == ShardIndexFor(k)
<1>1. /\ k \in Keys /\ n \in Shards /\ IsStore(shards[n], Keys, Made)
      /\ pc \in [Threads -> {"idle", "write", "put", "clear"}]
      /\ value \in [Threads -> 0 .. MaxValues] /\ made \in 0 .. MaxValues
  BY ShardFacts, Zenon DEF IInv, ShardTypeOK
<1>2. /\ pc' = [pc EXCEPT ![t] = "idle"] /\ key' = key /\ at' = at /\ doomed' = doomed
  BY Zenon DEF GetOrInsertWrite
<1>3. CASE /\ k \in Present(shards[n])
           /\ value' = [value EXCEPT ![t] = shards[n].values[k]]
           /\ UNCHANGED <<shards, made>>
  <2>1. shards[n].values[k] \in Made
    BY <1>1, <1>3, Zenon DEF IsStore
  <2>2. value' \in [Threads -> 0 .. MaxValues]
    BY <2>1, <1>1, <1>3 DEF Made
  <2>3. ShardTypeOK'
    BY <2>2, <1>2, <1>3, Zenon DEF IInv, ShardTypeOK
  <2>4. \A i \in Shards : Stored(i)' = Stored(i)
    BY <1>3, Zenon DEF Stored
  <2>5. \A u \in Threads \ {t} : value'[u] = value[u] /\ pc'[u] = pc[u]
    BY <1>1, <1>2, <1>3, Zenon
  <2>6. pc'[t] = "idle"
    BY <1>1, <1>2, Zenon
  <2>7. ShardShape' /\ Numbered'
    BY <1>2, <1>3, <2>4, Zenon DEF IInv, ShardShape, Numbered
  <2>8. Pending'
    BY <1>2, <1>3, <2>4, <2>5, <2>6 DEF IInv, Pending
  <2>9. Forgetting'
    BY <1>2, <1>3, <2>4, <2>5, <2>6, Zenon DEF IInv, Forgetting
  <2>10. value'[t] = shards[n].values[k]
    BY <1>1, <1>3, Zenon
  <2> QED BY <1>3, <2>3, <2>7, <2>8, <2>9, <2>10, Zenon DEF IInv
<1>4. CASE /\ k \notin Present(shards[n])
           /\ made < MaxValues
           /\ made' = made + 1
           /\ value' = [value EXCEPT ![t] = made + 1]
           /\ InsertInto(n, k, made + 1)
  <2> DEFINE v == made + 1
  <2>1. /\ v \in Made /\ v \in 0 .. MaxValues /\ v \notin 1 .. made
        /\ 1 .. made \subseteq 1 .. made + 1
    BY <1>4, FreshNumber, Zenon
  <2>2. /\ shards' \in [Shards -> {shards'[i] : i \in Shards}]
        /\ \A i \in Shards : IsStore(shards'[i], Keys, Made)
        /\ ShardShape'
        /\ \A i \in Shards : Stored(i)' \subseteq Stored(i) \cup {v}
        /\ \A i \in Shards : \A j \in Present(shards[i]) \cap Present(shards'[i]) :
             shards'[i].values[j] # shards[i].values[j] => j = k
        /\ Capacity # 0 => k \in Present(shards'[n]) /\ shards'[n].values[k] = v
    BY <1>1, <1>4, <2>1, InsertIntoKeeps, Zenon
  <2>3. ShardTypeOK'
    BY <1>1, <1>2, <1>4, <2>1, <2>2, Zenon DEF IInv, ShardTypeOK
  <2>4. \A i \in Shards : Stored(i)' \subseteq 1 .. made'
    BY <1>1, <1>4, <2>2 DEF IInv, Numbered
  <2>5. Numbered'
    BY <1>2, <1>4, <2>1, <2>4, Zenon DEF IInv, Numbered
  <2>6. \A u \in Threads \ {t} : value'[u] = value[u] /\ pc'[u] = pc[u]
    BY <1>1, <1>2, <1>4, Zenon
  <2>7. pc'[t] = "idle" /\ value'[t] = v
    BY <1>1, <1>2, <1>4, Zenon
  <2>8. \A u \in Threads : v \notin doomed[u]
    BY <2>1, Zenon DEF IInv, Numbered
  <2>9. \A u \in Threads : pc[u] = "put" => value[u] # v
    BY <2>1, Zenon DEF IInv, Pending
  <2> HIDE DEF v
  <2>10. Pending'
    <3> SUFFICES ASSUME NEW u \in Threads, pc'[u] = "put"
                 PROVE  /\ value'[u] \in 1 .. made'
                        /\ \A i \in Shards : value'[u] \notin Stored(i)'
                        /\ \A w \in Threads : value'[u] \notin doomed'[w]
                        /\ \A w \in Threads \ {u} : pc'[w] = "put" => value'[w] # value'[u]
      BY Zenon DEF Pending
    <3>1. u # t /\ pc[u] = "put" /\ value'[u] = value[u]
      BY <2>6, <2>7, Zenon
    <3>2. value[u] \in 1 .. made'
      BY <3>1, <2>1, <1>4, Zenon DEF IInv, Pending
    <3> QED BY <3>1, <3>2, <1>2, <2>2, <2>6, <2>7, <2>9 DEF IInv, Pending
  <2>11. Forgetting'
    <3> SUFFICES ASSUME NEW u \in Threads, pc'[u] = "clear"
                 PROVE  /\ at'[u] < ShardCount
                        /\ \A i \in Shards : i < at'[u] => Stored(i)' \cap doomed'[u] = {}
      BY Zenon DEF Forgetting
    <3>1. pc[u] = "clear"
      BY <2>6, <2>7, Zenon
    <3> QED BY <3>1, <1>2, <2>2, <2>8 DEF IInv, Forgetting
  <2>12. \A i \in Shards : \A j \in Present(shards[i]) \cap Present(shards'[i]) :
           shards'[i].values[j] = shards[i].values[j]
    <3> SUFFICES ASSUME NEW i \in Shards, NEW j \in Present(shards[i]) \cap Present(shards'[i]),
                        shards'[i].values[j] # shards[i].values[j]
                 PROVE  FALSE
      BY Zenon
    <3>1. j = k
      BY <2>2, Zenon
    <3>2. i # n
      BY <3>1, <1>4, Zenon
    <3>3. shards'[i] = shards[i]
      BY <3>2, <1>1, <1>4, Zenon DEF InsertInto, IInv, ShardTypeOK
    <3> QED BY <3>3, Zenon
  <2> QED BY <2>2, <2>3, <2>5, <2>7, <2>10, <2>11, <2>12, Zenon DEF IInv
<1> QED BY <1>3, <1>4, Zenon DEF GetOrInsertWrite

\* A caller of insert makes a value that is nowhere yet.
LEMMA MakeAction ==
    ASSUME IInv, NEW t \in Threads, NEW k \in Keys, MakeValue(t, k)
    PROVE  IInv'
<1> DEFINE v == made + 1
<1>1. /\ v \in Made /\ v \in 0 .. MaxValues /\ v \notin 1 .. made
      /\ 1 .. made \subseteq 1 .. made + 1
  BY FreshNumber, Zenon DEF MakeValue
<1>2. /\ shards' = shards /\ at' = at /\ doomed' = doomed /\ made' = v
      /\ pc' = [pc EXCEPT ![t] = "put"] /\ key' = [key EXCEPT ![t] = k]
      /\ value' = [value EXCEPT ![t] = v]
  BY Zenon DEF MakeValue
<1>3. /\ pc \in [Threads -> {"idle", "write", "put", "clear"}]
      /\ value \in [Threads -> 0 .. MaxValues] /\ made \in Nat
  BY DEF IInv, ShardTypeOK
<1>4. ShardTypeOK'
  BY <1>1, <1>2, <1>3, Zenon DEF IInv, ShardTypeOK
<1>5. \A i \in Shards : Stored(i)' = Stored(i)
  BY <1>2, Zenon DEF Stored
<1>6. \A u \in Threads \ {t} : value'[u] = value[u] /\ pc'[u] = pc[u]
  BY <1>2, <1>3, Zenon
<1>7. pc'[t] = "put" /\ value'[t] = v
  BY <1>2, <1>3, Zenon
<1>8. v \in 1 .. made'
  BY <1>2, <1>3
<1>9. 1 .. made \subseteq 1 .. made'
  BY <1>1, <1>2, Zenon
<1> HIDE DEF v
<1>10. ShardShape' /\ Numbered'
  BY <1>2, <1>5, <1>9, Zenon DEF IInv, ShardShape, Numbered
<1>11. /\ \A i \in Shards : v \notin Stored(i)
       /\ \A u \in Threads : v \notin doomed[u]
       /\ \A u \in Threads : pc[u] = "put" => value[u] # v
  BY <1>1, Zenon DEF IInv, Numbered, Pending
<1>12. Pending'
  <2> SUFFICES ASSUME NEW u \in Threads, pc'[u] = "put"
               PROVE  /\ value'[u] \in 1 .. made'
                      /\ \A i \in Shards : value'[u] \notin Stored(i)'
                      /\ \A w \in Threads : value'[u] \notin doomed'[w]
                      /\ \A w \in Threads \ {u} : pc'[w] = "put" => value'[w] # value'[u]
    BY Zenon DEF Pending
  <2>1. CASE u = t
    BY <2>1, <1>2, <1>5, <1>6, <1>7, <1>8, <1>11, Zenon
  <2>2. CASE u # t
    BY <2>2, <1>2, <1>5, <1>6, <1>7, <1>9, <1>11 DEF IInv, Pending
  <2> QED BY <2>1, <2>2, Zenon
<1>13. Forgetting'
  BY <1>2, <1>5, <1>6, <1>7, Zenon DEF IInv, Forgetting
<1> QED BY <1>4, <1>10, <1>12, <1>13, Zenon DEF IInv

\* insert replaces only the value of its own key.
LEMMA InsertAction ==
    ASSUME IInv, NEW t \in Threads, InsertValue(t)
    PROVE  /\ IInv'
           /\ pc[t] = "put" /\ pc'[t] = "idle"
           /\ \A i \in Shards : \A j \in Present(shards[i]) \cap Present(shards'[i]) :
                shards'[i].values[j] # shards[i].values[j] => j = key[t]
<1> DEFINE k == key[t]
           v == value[t]
<1>1. /\ pc \in [Threads -> {"idle", "write", "put", "clear"}] /\ k \in Keys
      /\ pc[t] = "put"
  BY Zenon DEF IInv, ShardTypeOK, InsertValue
<1>2. /\ key' = key /\ value' = value /\ at' = at /\ made' = made /\ doomed' = doomed
      /\ pc' = [pc EXCEPT ![t] = "idle"]
  BY Zenon DEF InsertValue
<1>3. /\ v \in 1 .. made /\ made \in 0 .. MaxValues
      /\ \A u \in Threads : v \notin doomed[u]
      /\ \A u \in Threads \ {t} : pc[u] = "put" => value[u] # v
  BY <1>1, Zenon DEF IInv, Pending, ShardTypeOK
<1>4. v \in Made
  BY <1>3, ShardAssumption DEF Made
<1>5. /\ shards' \in [Shards -> {shards'[i] : i \in Shards}]
      /\ \A i \in Shards : IsStore(shards'[i], Keys, Made)
      /\ ShardShape'
      /\ \A i \in Shards : Stored(i)' \subseteq Stored(i) \cup {v}
      /\ \A i \in Shards : \A j \in Present(shards[i]) \cap Present(shards'[i]) :
           shards'[i].values[j] # shards[i].values[j] => j = k
  BY <1>1, <1>4, InsertIntoKeeps, Zenon DEF InsertValue
<1>6. ShardTypeOK'
  BY <1>1, <1>2, <1>5, Zenon DEF IInv, ShardTypeOK
<1>7. Numbered'
  BY <1>2, <1>3, <1>5, Zenon DEF IInv, Numbered
<1>8. pc'[t] = "idle" /\ \A u \in Threads \ {t} : pc'[u] = pc[u]
  BY <1>1, <1>2, Zenon
<1> HIDE DEF v
<1>9. Pending'
  <2> SUFFICES ASSUME NEW u \in Threads, pc'[u] = "put"
               PROVE  /\ value'[u] \in 1 .. made'
                      /\ \A i \in Shards : value'[u] \notin Stored(i)'
                      /\ \A w \in Threads : value'[u] \notin doomed'[w]
                      /\ \A w \in Threads \ {u} : pc'[w] = "put" => value'[w] # value'[u]
    BY Zenon DEF Pending
  <2>1. u # t /\ pc[u] = "put"
    BY <1>8, Zenon
  <2> QED BY <2>1, <1>2, <1>3, <1>5, <1>8, Zenon DEF IInv, Pending
<1>10. Forgetting'
  <2> SUFFICES ASSUME NEW u \in Threads, pc'[u] = "clear"
               PROVE  /\ at'[u] < ShardCount
                      /\ \A i \in Shards : i < at'[u] => Stored(i)' \cap doomed'[u] = {}
    BY Zenon DEF Forgetting
  <2>1. pc[u] = "clear"
    BY <1>8, Zenon
  <2> QED BY <2>1, <1>2, <1>3, <1>5, Zenon DEF IInv, Forgetting
<1> QED BY <1>1, <1>5, <1>6, <1>7, <1>8, <1>9, <1>10, Zenon DEF IInv

\* clear starts: what it is to forget is what is stored.
LEMMA BeginClearAction ==
    ASSUME IInv, NEW t \in Threads, BeginClear(t)
    PROVE  IInv'
<1> DEFINE D == UNION {Stored(i) : i \in Shards}
<1>1. /\ pc \in [Threads -> {"idle", "write", "put", "clear"}]
      /\ at \in [Threads -> 0 .. ShardCount] /\ doomed \in [Threads -> SUBSET Made]
      /\ made \in 0 .. MaxValues /\ MaxValues \in Nat
  BY ShardAssumption, Zenon DEF IInv, ShardTypeOK
<1>2. /\ shards' = shards /\ key' = key /\ value' = value /\ made' = made
      /\ pc' = [pc EXCEPT ![t] = "clear"] /\ at' = [at EXCEPT ![t] = 0]
      /\ doomed' = [doomed EXCEPT ![t] = D]
  BY Zenon DEF BeginClear
<1>3. D \subseteq 1 .. made /\ 1 .. made \subseteq Made
  BY <1>1 DEF IInv, Numbered, Made
<1>4. \A u \in Threads : pc[u] = "put" => value[u] \notin D
  BY Zenon DEF IInv, Pending
<1> HIDE DEF D
<1>5. ShardTypeOK'
  BY <1>1, <1>2, <1>3, ShardFacts DEF IInv, ShardTypeOK
<1>6. \A i \in Shards : Stored(i)' = Stored(i)
  BY <1>2, Zenon DEF Stored
<1>7. /\ pc'[t] = "clear" /\ at'[t] = 0 /\ doomed'[t] = D
      /\ \A u \in Threads \ {t} : pc'[u] = pc[u] /\ at'[u] = at[u] /\ doomed'[u] = doomed[u]
  BY <1>1, <1>2, Zenon
<1>8. ShardShape' /\ Numbered'
  BY <1>2, <1>3, <1>6, <1>7, Zenon DEF IInv, ShardShape, Numbered
<1>9. Pending'
  BY <1>2, <1>4, <1>6, <1>7 DEF IInv, Pending
<1>10. \A i \in Shards : ~(i < 0)
  BY DEF Shards
<1>11. Forgetting'
  BY <1>6, <1>7, <1>10, ShardFacts DEF IInv, Forgetting
<1> QED BY <1>5, <1>8, <1>9, <1>11, Zenon DEF IInv

\* clear takes one shard: it holds nothing afterwards, and the shards taken
\* before it have got nothing back of what clear is to forget.
LEMMA ClearAction ==
    ASSUME IInv, NEW t \in Threads, ClearShard(t)
    PROVE  /\ IInv'
           /\ \A i \in Shards : Present(shards[i]) \cap Present(shards'[i]) # {} => shards'[i] = shards[i]
           /\ \A i \in Shards : i < at[t] + 1 => Stored(i)' \cap doomed[t] = {}
           /\ pc'[t] = "idle" => at[t] + 1 = ShardCount
<1>0. PICK n : n = at[t]
  BY Zenon
<1>1. /\ pc \in [Threads -> {"idle", "write", "put", "clear"}]
      /\ at \in [Threads -> 0 .. ShardCount]
      /\ n \in Shards /\ n \in Nat /\ ShardCount \in Nat
      /\ shards \in [Shards -> {shards[i] : i \in Shards}]
  <2>1. /\ pc \in [Threads -> {"idle", "write", "put", "clear"}]
        /\ at \in [Threads -> 0 .. ShardCount]
        /\ shards \in [Shards -> {shards[i] : i \in Shards}]
    BY Zenon DEF IInv, ShardTypeOK
  <2>2. ShardCount \in Nat \ {0} /\ n < ShardCount /\ n \in 0 .. ShardCount
    BY <1>0, <2>1, ShardFacts, Zenon DEF ClearShard
  <2>3. n \in Shards /\ n \in Nat
    BY <2>2 DEF Shards
  <2> QED BY <2>1, <2>2, <2>3, Zenon
<1>2. /\ key' = key /\ value' = value /\ made' = made /\ doomed' = doomed
      /\ at' = [at EXCEPT ![t] = n + 1]
      /\ pc' = [pc EXCEPT ![t] = IF n + 1 = ShardCount THEN "idle" ELSE "clear"]
      /\ shards' = [shards EXCEPT ![n] = EmptyStore]
      /\ pc[t] = "clear" /\ n < ShardCount
  BY <1>0, Zenon DEF ClearShard
<1>3. /\ shards' \in [Shards -> {shards'[i] : i \in Shards}]
      /\ shards'[n] = EmptyStore /\ \A i \in Shards \ {n} : shards'[i] = shards[i]
  BY <1>1, <1>2, Zenon
<1>4. ShardTypeOK'
  <2>1. \A i \in Shards : IsStore(shards'[i], Keys, Made)
    BY <1>3, EmptyStoreKeeps, Zenon DEF IInv, ShardTypeOK
  <2>2. n + 1 \in 0 .. ShardCount
    BY <1>1, <1>2
  <2> QED BY <1>1, <1>2, <1>3, <2>1, <2>2, Zenon DEF IInv, ShardTypeOK
<1>5. ShardShape'
  <2> SUFFICES ASSUME NEW i \in Shards PROVE StoreShape(shards'[i], ShardCapacity(i))
    BY Zenon DEF ShardShape
  <2> QED BY <1>3, EmptyStoreKeeps, ShardFacts, Zenon DEF IInv, ShardShape
<1>6. /\ Stored(n)' = {} /\ \A i \in Shards \ {n} : Stored(i)' = Stored(i)
      /\ \A i \in Shards : Stored(i)' \subseteq Stored(i)
  <2>1. Stored(n)' = {}
    BY <1>3, EmptyStoreKeeps, Zenon DEF Stored
  <2>2. \A i \in Shards \ {n} : Stored(i)' = Stored(i)
    BY <1>3, Zenon DEF Stored
  <2> QED BY <2>1, <2>2, Zenon
<1>7. /\ at'[t] = n + 1 /\ pc'[t] = (IF n + 1 = ShardCount THEN "idle" ELSE "clear")
      /\ \A u \in Threads \ {t} : at'[u] = at[u] /\ pc'[u] = pc[u]
  BY <1>1, <1>2, Zenon
<1>8. Numbered'
  BY <1>2, <1>6, Zenon DEF IInv, Numbered
<1>9. Pending'
  BY <1>2, <1>6, <1>7 DEF IInv, Pending
<1>10. ASSUME NEW i \in Shards, i < n + 1 PROVE Stored(i)' \cap doomed[t] = {}
  <2>1. i = n \/ i < n
    BY <1>1, <1>10 DEF Shards
  <2>2. CASE i = n
    BY <2>2, <1>6, Zenon
  <2>3. CASE i < n
    BY <2>3, <1>0, <1>2, <1>6, Zenon DEF IInv, Forgetting
  <2> QED BY <2>1, <2>2, <2>3, Zenon
<1>11. Forgetting'
  <2> SUFFICES ASSUME NEW u \in Threads, pc'[u] = "clear"
               PROVE  /\ at'[u] < ShardCount
                      /\ \A i \in Shards : i < at'[u] => Stored(i)' \cap doomed'[u] = {}
    BY Zenon DEF Forgetting
  <2>1. CASE u = t
    <3>1. n + 1 # ShardCount
      BY <2>1, <1>7, Zenon
    <3>2. n + 1 < ShardCount
      BY <3>1, <1>1, <1>2
    <3> QED BY <2>1, <3>2, <1>2, <1>7, <1>10, Zenon
  <2>2. CASE u # t
    BY <2>2, <1>2, <1>6, <1>7, Zenon DEF IInv, Forgetting
  <2> QED BY <2>1, <2>2, Zenon
<1>12. \A i \in Shards : Present(shards[i]) \cap Present(shards'[i]) # {} => shards'[i] = shards[i]
  BY <1>3, EmptyStoreKeeps, Zenon
<1>13. pc'[t] = "idle" => n + 1 = ShardCount
  BY <1>7, Zenon
<1> QED BY <1>4, <1>5, <1>8, <1>9, <1>10, <1>11, <1>12, <1>13, <1>0, Zenon DEF IInv

\* Every step of every thread keeps the invariant.
LEMMA Inductive ==
    ASSUME IInv, [ShardNext]_shardVars
    PROVE  IInv'
<1>1. CASE UNCHANGED shardVars
  BY <1>1 DEF shardVars, IInv, ShardTypeOK, ShardShape, Numbered, Pending, Forgetting, Stored
<1>2. CASE ShardNext
  BY <1>2, ReadAction, WriteAction, MakeAction, InsertAction, BeginClearAction, ClearAction, Zenon
     DEF ShardNext, ThreadStep
<1> QED BY <1>1, <1>2, Zenon

\* The invariant holds throughout.
LEMMA Invariant == ShardSpec => []IInv
  BY Initial, Inductive, PTL DEF ShardSpec

\* In every shard the map and the recency list agree and keep the shard's
\* capacity, for any number of threads and shards.
THEOREM ShardsKeepShape == ShardSpec => []ShardShape
<1>1. IInv => ShardShape
  BY Zenon DEF IInv
<1> QED BY <1>1, Invariant, PTL

\* Racing get-or-inserts never replace a value: only insert does.
THEOREM RacersAgree == ShardSpec => GetOrInsertKeeps
<1> DEFINE A == \A i \in Shards : \A k \in Present(shards[i]) \cap Present(shards'[i]) :
                  shards'[i].values[k] # shards[i].values[k]
                    => \E t \in Threads : pc[t] = "put" /\ pc'[t] = "idle" /\ key[t] = k
<1>1. ASSUME IInv, [ShardNext]_shardVars PROVE [A]_shardVars
  <2> SUFFICES ASSUME NEW t \in Threads, ThreadStep(t) PROVE A
    BY <1>1, Zenon DEF ShardNext
  <2>1. CASE shards' = shards
    BY <2>1, Zenon
  <2>2. CASE GetOrInsertWrite(t)
    BY <2>2, <1>1, WriteAction, Zenon
  <2>3. CASE InsertValue(t)
    BY <2>3, <1>1, InsertAction, Zenon
  <2>4. CASE ClearShard(t)
    <3>1. \A i \in Shards : Present(shards[i]) \cap Present(shards'[i]) # {} => shards'[i] = shards[i]
      BY <2>4, <1>1, ClearAction, Zenon
    <3> QED BY <3>1, Zenon
  <2> QED BY <2>1, <2>2, <2>3, <2>4, Zenon DEF ThreadStep, GetOrInsertRead, MakeValue, BeginClear
<1> QED BY <1>1, Invariant, PTL DEF ShardSpec, GetOrInsertKeeps

\* get_or_insert_with_cloned returns what the store holds for the key.
THEOREM ReturnIsStored == ShardSpec => ReturnsWhatIsStored
<1> DEFINE S(t) == shards'[ShardIndexFor(key[t])]
           A == \A t \in Threads : pc[t] = "write" /\ pc'[t] = "idle" =>
                  IF Capacity = 0 THEN Present(S(t)) = {}
                  ELSE key[t] \in Present(S(t)) /\ S(t).values[key[t]] = value'[t]
<1>1. ASSUME IInv, [ShardNext]_shardVars PROVE [A]_shardVars
  <2> SUFFICES ASSUME NEW u \in Threads, ThreadStep(u), NEW t \in Threads,
                      pc[t] = "write", pc'[t] = "idle"
               PROVE  IF Capacity = 0 THEN Present(S(t)) = {}
                      ELSE key[t] \in Present(S(t)) /\ S(t).values[key[t]] = value'[t]
    BY <1>1, Zenon DEF ShardNext
  <2>1. pc \in [Threads -> {"idle", "write", "put", "clear"}] /\ key[t] \in Keys
    BY <1>1, Zenon DEF IInv, ShardTypeOK
  <2>2. t = u /\ GetOrInsertWrite(t)
    BY <2>1, Zenon DEF ThreadStep, GetOrInsertRead, MakeValue, GetOrInsertWrite, InsertValue,
                BeginClear, ClearShard
  <2>3. /\ IInv'
        /\ Capacity # 0 => key[t] \in Present(S(t)) /\ S(t).values[key[t]] = value'[t]
    BY <2>2, <1>1, WriteAction, Zenon
  <2>4. CASE Capacity = 0
    <3>1. ShardIndexFor(key[t]) \in Shards /\ ShardCapacity(ShardIndexFor(key[t])) = 0
      BY <2>1, <2>4, ShardFacts, Zenon
    <3>2. StoreShape(S(t), 0) /\ IsStore(S(t), Keys, Made)
      BY <2>3, <3>1, Zenon DEF IInv, ShardShape, ShardTypeOK
    <3>3. Present(S(t)) = {}
      BY <3>2, FS_EmptySet, FS_CardinalityType DEF IsStore, StoreShape
    <3> QED BY <2>4, <3>3, Zenon
  <2> QED BY <2>3, <2>4, Zenon
<1> QED BY <1>1, Invariant, PTL DEF ShardSpec, ReturnsWhatIsStored

\* When clear returns, the store holds nothing it held when clear was called.
THEOREM ClearIsComplete == ShardSpec => ClearForgets
<1> DEFINE A == \A t \in Threads : pc[t] = "clear" /\ pc'[t] = "idle" =>
                  \A i \in Shards : Stored(i)' \cap doomed[t] = {}
<1>1. ASSUME IInv, [ShardNext]_shardVars PROVE [A]_shardVars
  <2> SUFFICES ASSUME NEW u \in Threads, ThreadStep(u), NEW t \in Threads,
                      pc[t] = "clear", pc'[t] = "idle"
               PROVE  \A i \in Shards : Stored(i)' \cap doomed[t] = {}
    BY <1>1, Zenon DEF ShardNext
  <2>0. pc \in [Threads -> {"idle", "write", "put", "clear"}]
    BY <1>1, Zenon DEF IInv, ShardTypeOK
  <2>1. t = u /\ ClearShard(t)
    BY <2>0, Zenon DEF ThreadStep, GetOrInsertRead, MakeValue, GetOrInsertWrite, InsertValue,
                BeginClear, ClearShard
  <2>2. /\ \A i \in Shards : i < at[t] + 1 => Stored(i)' \cap doomed[t] = {}
        /\ at[t] + 1 = ShardCount
    BY <2>1, <1>1, ClearAction, Zenon
  <2>3. \A i \in Shards : i < ShardCount
    BY ShardFacts DEF Shards
  <2> QED BY <2>2, <2>3, Zenon
<1> QED BY <1>1, Invariant, PTL DEF ShardSpec, ClearForgets

\* ShardedLruCache::new: the first shards take the remainder of the division, and
\* the shards' capacities add up to the store's.
LEMMA CapacitiesAddUp ==
  Total([n \in 1 .. ShardCount |-> ShardCapacity(n - 1)], ShardCount) = Capacity
<1> DEFINE f == [i \in 1 .. ShardCount |-> ShardCapacity(i - 1)]
           n == ShardCount
           d == Capacity \div n
           m == Capacity % n
<1>1. n \in Nat \ {0} /\ Capacity \in Nat
  BY ShardFacts, ShardAssumption, Zenon
<1>2. d \in Nat /\ m \in 0 .. n - 1 /\ Capacity = n * d + m
  <2> HIDE DEF n
  <2> QED BY <1>1
<1>3. \A i \in 1 .. n : f[i] = d + (IF i - 1 < m THEN 1 ELSE 0)
  BY Zenon DEF ShardCapacity
<1> HIDE DEF f, n, d, m
<1>4. f \in [1 .. n -> Nat]
  <2>1. \A i \in 1 .. n : i - 1 \in Shards
    BY <1>1 DEF n, Shards
  <2> QED BY <2>1, ShardFacts, Zenon DEF f, n
<1>5. PICK S \in [0 .. n -> Nat] : Sums(S, f, n) /\ Total(f, n) = S[n]
  BY <1>1, <1>4, TotalDef, Zenon
<1> DEFINE least(i) == IF i < m THEN i ELSE m
           I == {i \in 0 .. n : S[i] = i * d + least(i)}
<1>6. 0 \in I
  BY <1>1, <1>2, <1>5 DEF Sums
<1>7. ASSUME NEW i \in 0 .. n - 1, i \in I PROVE i + 1 \in I
  <2>1. i + 1 \in 1 .. n /\ (i + 1) - 1 = i /\ i \in Nat /\ S[i] = i * d + least(i)
    BY <1>1, <1>7
  <2>2. S[i + 1] = S[i] + (d + (IF i < m THEN 1 ELSE 0))
    BY <1>3, <1>5, <2>1, Zenon DEF Sums
  <2>3. (i + 1) * d = i * d + d /\ i * d \in Nat
    BY <1>2, <2>1
  <2>4. S[i + 1] = (i + 1) * d + least(i + 1)
    <3> DEFINE x == i * d
               y == (i + 1) * d
    <3> HIDE DEF x, y
    <3>1. x \in Nat /\ y = x + d /\ S[i] = x + least(i)
      BY <2>1, <2>3, Zenon DEF x, y
    <3>2. S[i + 1] = y + least(i + 1)
      BY <1>2, <2>1, <2>2, <3>1
    <3> QED BY <3>2, Zenon DEF y
  <2> QED BY <2>1, <2>4
<1>8. n \in I
  <2>1. \A i \in 0 .. n : i \in I
    <3> HIDE DEF I
    <3> QED BY <1>1, <1>6, <1>7, InductionUpTo, Zenon
  <2> QED BY <1>1, <2>1
<1>9. S[n] = Capacity
  <2>1. S[n] = n * d + m
    BY <1>1, <1>2, <1>8
  <2> QED BY <1>2, <2>1, Zenon
<1> QED BY <1>5, <1>9, Zenon DEF f, n

\* The shards together keep the capacity the store was made with, for any
\* capacity and any number of shards it is divided over.
THEOREM CapacityIsKept == ShardSpec => []TotalBounded
<1>1. IInv => TotalBounded
  <2> SUFFICES ASSUME IInv PROVE TotalBounded
    BY Zenon
  <2> DEFINE n == ShardCount
             f == [i \in 1 .. n |-> Cardinality(Present(shards[i - 1]))]
             g == [i \in 1 .. n |-> ShardCapacity(i - 1)]
  <2>1. n \in Nat /\ Capacity \in Nat /\ \A i \in 1 .. n : i - 1 \in Shards
    BY ShardFacts, ShardAssumption DEF Shards
  <2>2. \A i \in Shards : /\ IsFiniteSet(Present(shards[i]))
                          /\ Cardinality(Present(shards[i])) <= ShardCapacity(i)
    BY Zenon DEF IInv, ShardTypeOK, IsStore, ShardShape, StoreShape
  <2>3. \A i \in Shards : Cardinality(Present(shards[i])) \in Nat /\ ShardCapacity(i) \in Nat
    BY <2>2, FS_CardinalityType, ShardFacts, Zenon
  <2>4. f \in [1 .. n -> Nat] /\ g \in [1 .. n -> Nat] /\ \A i \in 1 .. n : f[i] <= g[i]
    BY <2>1, <2>2, <2>3, Zenon
  <2>5. Total(f, n) <= Total(g, n)
    <3> HIDE DEF f, g, n
    <3> QED BY <2>1, <2>4, TotalMono, Zenon
  <2> QED BY <2>5, CapacitiesAddUp, Zenon DEF TotalBounded
<1> QED BY <1>1, Invariant, PTL

(***************************************************************************)
(* RateLimiterStore                                                        *)
(***************************************************************************)
Times == 0 .. MaxTime

\* Admitted, of any record of the calls.
Slice(g, t) == [i \in 1 .. MaxTime + 1 |->
                  IF t <= i - 1 /\ i - 1 < t + Window THEN g[i - 1] ELSE 0]

Calls(g, t) == Total(Slice(g, t), MaxTime + 1)

\* The interval from t is bounded by where it lies to the window in force, of
\* start s and count c: after its start only its later calls are counted, across
\* its start those of the window before too, before it those of two windows and
\* the late ones of this one.
Bounded(g, s, c, t) ==
    /\ t > s => Calls(g, t) <= c - 1
    /\ s < t + Window => Calls(g, t) <= RateLimit - 1 + c
    /\ s < t + 2 * Window => Calls(g, t) <= 2 * RateLimit - 2 + c
    /\ Calls(g, t) <= 3 * RateLimit - 2

\* The record g of the calls agrees with the window [s, s + Window) and its count.
Fits(g, s, c) ==
    /\ c \in 1 .. RateLimit
    /\ \A v \in Times : s + Window <= v => g[v] = 0
    /\ \A t \in Times : Bounded(g, s, c, t)

LimiterInv ==
    /\ now \in Times
    /\ caller \in [Callers -> 0 .. Away]
    /\ \A c \in Callers : ~Idle(c) => caller[c] <= now /\ now <= caller[c] + MaxDelay
    /\ granted \in [Times -> Nat]
    /\ bucket = [started |-> bucket.started, start |-> bucket.start, count |-> bucket.count]
    /\ bucket.start \in 0 .. now
    /\ IF bucket.started THEN Fits(granted, bucket.start, bucket.count)
       ELSE \A v \in Times : granted[v] = 0

LEMMA CallsFacts ==
    ASSUME NEW g \in [Times -> Nat], NEW t \in Times
    PROVE  /\ Slice(g, t) \in [1 .. MaxTime + 1 -> Nat] /\ MaxTime + 1 \in Nat
           /\ Calls(g, t) \in Nat
           /\ (\A v \in Times : t <= v /\ v < t + Window => g[v] = 0) => Calls(g, t) = 0
<1> DEFINE n == MaxTime + 1
           f == Slice(g, t)
<1>1. MaxTime \in Nat /\ Window \in Nat /\ n \in Nat
  BY LimiterAssumption
<1>2. \A i \in 1 .. n : i - 1 \in Times /\ g[i - 1] \in Nat
  BY <1>1 DEF Times
<1>3. f \in [1 .. n -> Nat]
  BY <1>2, Zenon DEF Slice
<1>4. ASSUME \A v \in Times : t <= v /\ v < t + Window => g[v] = 0, NEW i \in 1 .. n
      PROVE  f[i] = 0
  BY <1>2, <1>4, Zenon DEF Slice
<1> HIDE DEF n, f
<1>5. Total(f, n) \in Nat
  BY <1>1, <1>3, TotalType, Zenon
<1>6. ASSUME \A v \in Times : t <= v /\ v < t + Window => g[v] = 0 PROVE Total(f, n) = 0
  BY <1>1, <1>3, <1>4, <1>6, TotalZero, Zenon
<1> QED BY <1>1, <1>3, <1>5, <1>6, Zenon DEF Calls, n, f

\* One more call, at the time u.
LEMMA CallAdds ==
    ASSUME NEW g \in [Times -> Nat], NEW t \in Times, NEW u \in Times
    PROVE  LET h == [g EXCEPT ![u] = g[u] + 1]
           IN /\ h \in [Times -> Nat]
              /\ t <= u /\ u < t + Window => Calls(h, t) = Calls(g, t) + 1
              /\ ~(t <= u /\ u < t + Window) => Calls(h, t) = Calls(g, t)
<1> DEFINE h == [g EXCEPT ![u] = g[u] + 1]
           n == MaxTime + 1
           f == Slice(g, t)
           e == Slice(h, t)
<1>1. MaxTime \in Nat /\ Window \in Nat /\ n \in Nat
  BY LimiterAssumption
<1>2. /\ h \in [Times -> Nat] /\ h[u] = g[u] + 1
      /\ \A v \in Times : v # u => h[v] = g[v]
  OBVIOUS
<1> HIDE DEF h
<1>3. f \in [1 .. n -> Nat] /\ e \in [1 .. n -> Nat]
  BY <1>2, CallsFacts, Zenon
<1>4. \A i \in 1 .. n : i - 1 \in Times
  BY <1>1 DEF Times
<1>5. ASSUME t <= u, u < t + Window PROVE Calls(h, t) = Calls(g, t) + 1
  <2>1. u + 1 \in 1 .. n /\ (u + 1) - 1 = u
    BY <1>1 DEF Times
  <2>2. e[u + 1] = f[u + 1] + 1
    BY <1>2, <1>5, <2>1, Zenon DEF Slice
  <2>3. ASSUME NEW i \in 1 .. n, i # u + 1 PROVE e[i] = f[i]
    <3>1. i - 1 # u
      BY <2>3 DEF Times
    <3> QED BY <1>2, <1>4, <3>1, Zenon DEF Slice
  <2> HIDE DEF e, f, n
  <2>4. e = [f EXCEPT ![u + 1] = f[u + 1] + 1]
    BY <1>3, <2>1, <2>2, <2>3, Zenon
  <2>5. Total(e, n) = Total(f, n) + 1
    BY <1>1, <1>3, <2>1, <2>4, TotalBump, Zenon
  <2> QED BY <2>5, Zenon DEF Calls, e, f, n
<1>6. ASSUME ~(t <= u /\ u < t + Window) PROVE Calls(h, t) = Calls(g, t)
  <2>1. \A i \in 1 .. n : e[i] = f[i]
    BY <1>2, <1>4, <1>6, Zenon DEF Slice
  <2>2. e = f
    <3> HIDE DEF e, f, n
    <3>1. e = [i \in 1 .. n |-> e[i]] /\ f = [i \in 1 .. n |-> f[i]]
      BY <1>3, Zenon
    <3> QED BY <2>1, <3>1, Zenon
  <2> QED BY <2>2, Zenon DEF Calls
<1> QED BY <1>2, <1>5, <1>6, Zenon DEF h

\* A call admitted in the window in force, at most a window before its start.
LEMMA CountedCall ==
    ASSUME NEW g \in [Times -> Nat], NEW s \in Times, NEW c \in Nat, Fits(g, s, c),
           c < RateLimit, NEW u \in Times, u < s + Window, s <= u + Window
    PROVE  Fits([g EXCEPT ![u] = g[u] + 1], s, c + 1)
<1> DEFINE h == [g EXCEPT ![u] = g[u] + 1]
<1>1. RateLimit \in Nat /\ Window \in Nat \ {0} /\ MaxTime \in Nat
  BY LimiterAssumption, Zenon
<1>2. h \in [Times -> Nat] /\ \A v \in Times : v # u => h[v] = g[v]
  OBVIOUS
<1>3. c \in 1 .. RateLimit /\ c + 1 \in 1 .. RateLimit
  BY <1>1 DEF Fits
<1>4. \A v \in Times : s + Window <= v => h[v] = 0
  BY <1>1, <1>2 DEF Fits, Times
<1>5. ASSUME NEW t \in Times PROVE Bounded(h, s, c + 1, t)
  <2> DEFINE a == Calls(g, t)
             b == Calls(h, t)
  <2>1. /\ t <= u /\ u < t + Window => b = a + 1
        /\ ~(t <= u /\ u < t + Window) => b = a
    BY CallAdds, Zenon
  <2>2. a \in Nat /\ b \in Nat
    BY <1>2, CallsFacts, Zenon
  <2>3. /\ t > s => a <= c - 1
        /\ s < t + Window => a <= RateLimit - 1 + c
        /\ s < t + 2 * Window => a <= 2 * RateLimit - 2 + c
        /\ a <= 3 * RateLimit - 2
    BY Zenon DEF Fits, Bounded
  <2> HIDE DEF a, b, h
  <2>4. t \in Nat /\ u \in Nat /\ s \in Nat
    BY <1>1 DEF Times
  <2>5. /\ t > s => b <= (c + 1) - 1
        /\ s < t + Window => b <= RateLimit - 1 + (c + 1)
        /\ s < t + 2 * Window => b <= 2 * RateLimit - 2 + (c + 1)
    BY <1>1, <1>3, <2>1, <2>2, <2>3, <2>4, SMTT(30)
  <2>6. b <= 3 * RateLimit - 2
    <3>1. CASE s < t + 2 * Window
      BY <1>1, <1>3, <2>2, <2>5, <2>4, <3>1, SMTT(30)
    <3>2. CASE ~(s < t + 2 * Window)
      <4>1. ~(u < t + Window)
        BY <1>1, <2>4, <3>2
      <4> QED BY <2>1, <2>3, <4>1, Zenon
    <3> QED BY <3>1, <3>2, Zenon
  <2> QED BY <2>5, <2>6, Zenon DEF Bounded, b
<1> HIDE DEF h
<1> QED BY <1>3, <1>4, <1>5, Zenon DEF Fits, h

\* The call that starts a window.
LEMMA StartingCall ==
    ASSUME NEW g \in [Times -> Nat], NEW u \in Times,
           \/ \A v \in Times : g[v] = 0
           \/ \E s \in Times, c \in Nat : Fits(g, s, c) /\ s + Window <= u
    PROVE  Fits([g EXCEPT ![u] = g[u] + 1], u, 1)
<1> DEFINE h == [g EXCEPT ![u] = g[u] + 1]
<1>1. RateLimit \in Nat \ {0} /\ Window \in Nat \ {0} /\ MaxTime \in Nat
  BY LimiterAssumption, Zenon
<1>2. h \in [Times -> Nat] /\ \A v \in Times : v # u => h[v] = g[v]
  OBVIOUS
<1>3. 1 \in 1 .. RateLimit
  BY <1>1
<1>4. ASSUME NEW t \in Times
      PROVE  /\ t > u => Calls(g, t) = 0
             /\ u < t + Window => Calls(g, t) <= RateLimit - 1
             /\ u < t + 2 * Window => Calls(g, t) <= 2 * RateLimit - 1
             /\ Calls(g, t) <= 3 * RateLimit - 2
  <2> DEFINE a == Calls(g, t)
  <2>1. CASE \A v \in Times : g[v] = 0
    <3>1. a = 0
      BY <2>1, CallsFacts, Zenon
    <3> HIDE DEF a
    <3> QED BY <1>1, <3>1 DEF a
  <2>2. ASSUME NEW s \in Times, NEW c \in Nat, Fits(g, s, c), s + Window <= u
        PROVE  /\ t > u => a = 0
               /\ u < t + Window => a <= RateLimit - 1
               /\ u < t + 2 * Window => a <= 2 * RateLimit - 1
               /\ a <= 3 * RateLimit - 2
    <3>0. a \in Nat
      BY CallsFacts, Zenon
    <3>1. a \in Nat /\ s \in Nat /\ t \in Nat /\ u \in Nat /\ c <= RateLimit
      <4> HIDE DEF a
      <4> QED BY <1>1, <2>2, <3>0 DEF Fits, Times
    <3>2. /\ t > s => a <= c - 1
          /\ s < t + Window => a <= RateLimit - 1 + c
          /\ a <= 3 * RateLimit - 2
      BY <2>2, Zenon DEF Fits, Bounded
    <3>3. ASSUME t > u PROVE a = 0
      <4>1. \A v \in Times : t <= v => s + Window <= v
        BY <1>1, <2>2, <3>1, <3>3 DEF Times
      <4>2. \A v \in Times : t <= v => g[v] = 0
        BY <2>2, <4>1, Zenon DEF Fits
      <4> QED BY <4>2, CallsFacts, Zenon
    <3> HIDE DEF a
    <3>4. u < t + Window => a <= RateLimit - 1
      BY <1>1, <2>2, <3>1, <3>2
    <3>5. u < t + 2 * Window => a <= 2 * RateLimit - 1
      BY <1>1, <2>2, <3>1, <3>2
    <3> QED BY <3>2, <3>3, <3>4, <3>5, Zenon
  <2> QED BY <2>1, <2>2, Zenon
<1>5. ASSUME NEW t \in Times PROVE Bounded(h, u, 1, t)
  <2> DEFINE a == Calls(g, t)
             b == Calls(h, t)
  <2>1. /\ t <= u /\ u < t + Window => b = a + 1
        /\ ~(t <= u /\ u < t + Window) => b = a
    BY CallAdds, Zenon
  <2>2. a \in Nat /\ b \in Nat /\ t \in Nat /\ u \in Nat
    <3>1. a \in Nat /\ b \in Nat
      BY <1>2, CallsFacts, Zenon
    <3>2. t \in Nat /\ u \in Nat
      BY <1>1 DEF Times
    <3> QED BY <3>1, <3>2, Zenon
  <2>3. /\ t > u => a = 0
        /\ u < t + Window => a <= RateLimit - 1
        /\ u < t + 2 * Window => a <= 2 * RateLimit - 1
        /\ a <= 3 * RateLimit - 2
    BY <1>4, Zenon
  <2> HIDE DEF a, b, h
  <2>4. /\ t > u => b <= 1 - 1
        /\ u < t + Window => b <= RateLimit - 1 + 1
        /\ u < t + 2 * Window => b <= 2 * RateLimit - 2 + 1
        /\ b <= 3 * RateLimit - 2
    BY <1>1, <2>1, <2>2, <2>3
  <2> QED BY <2>4, Zenon DEF Bounded, b
<1>6. \A v \in Times : u + Window <= v => h[v] = 0
  <2> SUFFICES ASSUME NEW v \in Times, u + Window <= v PROVE h[v] = 0
    BY Zenon
  <2>1. v # u /\ h[v] = g[v]
    BY <1>1, <1>2 DEF Times
  <2>2. ASSUME NEW s \in Times, NEW c \in Nat, Fits(g, s, c), s + Window <= u PROVE g[v] = 0
    <3>1. s + Window <= v
      BY <1>1, <2>2 DEF Times
    <3> QED BY <2>2, <3>1, Zenon DEF Fits
  <2> QED BY <2>1, <2>2, Zenon
<1> HIDE DEF h
<1> QED BY <1>3, <1>5, <1>6, Zenon DEF Fits, h

\* The decision of a caller keeps the invariant: its time is no more than MaxDelay
\* before now, hence no more than a window before the start of the one in force.
LEMMA DecideKeeps ==
    ASSUME LimiterInv, NEW c \in Callers, Decide(c)
    PROVE  LimiterInv'
<1> DEFINE u == caller[c]
           b == Roll(bucket, u)
           s == bucket.start
<1>1. /\ RateLimit \in Nat \ {0} /\ Window \in Nat \ {0} /\ MaxTime \in Nat
      /\ MaxDelay \in 0 .. Window
  BY LimiterAssumption, Zenon
<1>2. /\ now \in Times /\ caller \in [Callers -> 0 .. Away] /\ granted \in [Times -> Nat]
      /\ bucket = [started |-> bucket.started, start |-> s, count |-> bucket.count]
      /\ s \in 0 .. now
  BY Zenon DEF LimiterInv
<1>3. u \in Times /\ u <= now /\ now <= u + MaxDelay
  BY <1>1, <1>2 DEF LimiterInv, Decide, Idle, Away, Times
<1>4. s \in Times /\ s <= u + Window /\ u \in 0 .. now
  BY <1>1, <1>2, <1>3 DEF Times
<1>5. /\ now' = now /\ caller' = [caller EXCEPT ![c] = Away]
      /\ bucket' = [b EXCEPT !.count = IF b.count < RateLimit THEN b.count + 1 ELSE b.count]
      /\ granted' = [granted EXCEPT ![u] = IF b.count < RateLimit THEN granted[u] + 1
                                           ELSE granted[u]]
  BY Zenon DEF Decide
<1>6. caller' \in [Callers -> 0 .. Away]
  <2>1. Away \in 0 .. Away
    BY <1>1 DEF Away
  <2> QED BY <1>2, <1>5, <2>1, Zenon
<1>7. \A d \in Callers : caller'[d] # Away => caller'[d] <= now' /\ now' <= caller'[d] + MaxDelay
  BY <1>2, <1>5, Zenon DEF LimiterInv, Idle
<1>8. ASSUME NEW st, NEW start \in 0 .. now, NEW n,
             bucket' = [started |-> st, start |-> start, count |-> n],
             granted' \in [Times -> Nat], st, Fits(granted', start, n)
      PROVE  LimiterInv'
  <2>1. bucket'.started = st /\ bucket'.start = start /\ bucket'.count = n
    BY <1>8, Zenon
  <2>2. bucket' = [started |-> bucket'.started, start |-> bucket'.start, count |-> bucket'.count]
    BY <1>8, <2>1, Zenon
  <2>3. bucket'.started /\ Fits(granted', bucket'.start, bucket'.count)
    BY <1>8, <2>1, Zenon
  <2> QED BY <1>2, <1>5, <1>6, <1>7, <1>8, <2>1, <2>2, <2>3, Zenon DEF LimiterInv, Idle
<1>9. CASE ~bucket.started \/ u >= s + Window
  <2>1. b = [started |-> TRUE, start |-> u, count |-> 0]
    BY <1>9, Zenon DEF Roll
  <2>2. b.count = 0 /\ 0 < RateLimit
    BY <1>1, <2>1
  <2>3. granted' = [granted EXCEPT ![u] = granted[u] + 1]
    BY <1>5, <2>2, Zenon
  <2>4. bucket' = [started |-> TRUE, start |-> u, count |-> 1]
    <3>1. bucket' = [b EXCEPT !.count = 1]
      BY <1>5, <2>2
    <3>2. \A st, x : [[started |-> st, start |-> x, count |-> 0] EXCEPT !.count = 1]
                      = [started |-> st, start |-> x, count |-> 1]
      OBVIOUS
    <3> HIDE DEF u, b
    <3> QED BY <2>1, <3>1, <3>2, Zenon
  <2>5. \/ \A v \in Times : granted[v] = 0
        \/ \E x \in Times, y \in Nat : Fits(granted, x, y) /\ x + Window <= u
    <3>1. CASE ~bucket.started
      BY <3>1, Zenon DEF LimiterInv
    <3>2. CASE bucket.started
      <4>1. Fits(granted, s, bucket.count) /\ s + Window <= u
        BY <1>1, <1>3, <1>4, <1>9, <3>2, Zenon DEF LimiterInv, Times
      <4>2. bucket.count \in Nat
        BY <1>1, <4>1 DEF Fits
      <4> QED BY <1>4, <4>1, <4>2, Zenon
    <3> QED BY <3>1, <3>2, Zenon
  <2>6. Fits(granted', u, 1) /\ granted' \in [Times -> Nat]
    <3>1. granted' \in [Times -> Nat]
      BY <1>2, <1>3, <2>3
    <3> QED BY <1>2, <1>3, <2>3, <2>5, <3>1, StartingCall, Zenon
  <2> QED BY <1>4, <1>8, <2>4, <2>6, Zenon
<1>10. CASE bucket.started /\ ~(u >= s + Window)
  <2> DEFINE n == bucket.count
  <2>1. b = bucket
    BY <1>10, Zenon DEF Roll
  <2>2. Fits(granted, s, n)
    BY <1>10, Zenon DEF LimiterInv
  <2>3. n \in Nat /\ u < s + Window
    BY <1>1, <1>3, <1>4, <1>10, <2>2 DEF Fits, Times
  <2>4. CASE n < RateLimit
    <3>1. granted' = [granted EXCEPT ![u] = granted[u] + 1]
      BY <1>5, <2>1, <2>4, Zenon
    <3>2. bucket' = [started |-> bucket.started, start |-> s, count |-> n + 1]
      BY <1>2, <1>5, <2>1, <2>4, SMTT(30)
    <3>3. granted' \in [Times -> Nat]
      BY <1>2, <1>3, <3>1
    <3>4. Fits(granted', s, n + 1)
      BY <1>2, <1>3, <1>4, <2>2, <2>3, <2>4, <3>1, CountedCall, Zenon
    <3> QED BY <1>2, <1>8, <1>10, <3>2, <3>3, <3>4, Zenon
  <2>5. CASE ~(n < RateLimit)
    <3>1. granted' = granted
      BY <1>2, <1>3, <1>5, <2>1, <2>5, Zenon
    <3>2. bucket' = [started |-> bucket.started, start |-> s, count |-> n]
      BY <1>2, <1>5, <2>1, <2>5, Zenon
    <3> QED BY <1>2, <1>8, <1>10, <2>2, <3>1, <3>2, Zenon
  <2> QED BY <2>4, <2>5, Zenon
<1> QED BY <1>9, <1>10, Zenon

LEMMA LimiterInvHolds == LimiterSpec => []LimiterInv
<1>1. LimiterInit => LimiterInv
  <2> SUFFICES ASSUME LimiterInit PROVE LimiterInv
    BY Zenon
  <2>1. MaxTime \in Nat /\ 0 \in Times /\ Away \in 0 .. Away /\ 0 \in 0 .. now
    BY LimiterAssumption DEF Times, Away, LimiterInit
  <2>2. ~bucket.started /\ bucket.start = 0 /\ bucket.count = 0
    BY Zenon DEF LimiterInit
  <2>3. bucket = [started |-> bucket.started, start |-> bucket.start, count |-> bucket.count]
    BY Zenon DEF LimiterInit
  <2>4. granted \in [Times -> Nat] /\ \A v \in Times : granted[v] = 0
    BY Zenon DEF LimiterInit, Times
  <2> QED BY <2>1, <2>2, <2>3, <2>4, Zenon DEF LimiterInit, LimiterInv, Idle
<1>2. LimiterInv /\ [LimiterNext]_limiterVars => LimiterInv'
  <2> SUFFICES ASSUME LimiterInv, [LimiterNext]_limiterVars PROVE LimiterInv'
    BY Zenon
  <2>1. MaxTime \in Nat /\ MaxDelay \in Nat /\ now \in 0 .. MaxTime
    BY LimiterAssumption DEF LimiterInv, Times
  <2>2. CASE Tick
    <3>1. now' \in Times /\ bucket.start \in 0 .. now'
      BY <2>1, <2>2 DEF Tick, LimiterInv, Times
    <3>2. ASSUME NEW c \in Callers, caller[c] # Away
          PROVE  caller[c] <= now' /\ now' <= caller[c] + MaxDelay
      <4>1. caller[c] \in Nat /\ caller[c] <= now /\ now < caller[c] + MaxDelay
        BY <2>1, <2>2, <3>2 DEF Tick, LimiterInv, Idle, Away
      <4> QED BY <2>1, <2>2, <4>1 DEF Tick
    <3> QED BY <2>2, <3>1, <3>2, Zenon DEF Tick, LimiterInv, Idle
  <2>3. ASSUME NEW c \in Callers, ReadClock(c) PROVE LimiterInv'
    <3>1. caller' = [caller EXCEPT ![c] = now] /\ UNCHANGED <<now, bucket, granted>>
      BY <2>3, Zenon DEF ReadClock
    <3>2. now \in 0 .. Away
      BY <2>1 DEF Away
    <3>3. caller' \in [Callers -> 0 .. Away]
      BY <3>1, <3>2, Zenon DEF LimiterInv
    <3>4. \A d \in Callers : caller'[d] # Away => caller'[d] <= now /\ now <= caller'[d] + MaxDelay
      BY <2>1, <3>1 DEF LimiterInv, Idle
    <3> QED BY <3>1, <3>3, <3>4, Zenon DEF LimiterInv, Idle
  <2>4. ASSUME NEW c \in Callers, Decide(c) PROVE LimiterInv'
    BY <2>4, DecideKeeps, Zenon
  <2>5. CASE UNCHANGED limiterVars
    BY <2>5, Zenon DEF limiterVars, LimiterInv, Idle
  <2> QED BY <2>2, <2>3, <2>4, <2>5, Zenon DEF LimiterNext
<1> QED BY <1>1, <1>2, PTL DEF LimiterSpec

\* However callers overtake each other on their way to the lock, no interval of a
\* window's length has more than 3 * limit - 2 calls that allow admitted, for any
\* limit, window and number of callers, if none is held up for more than a window.
THEOREM WindowsBoundCalls == LimiterSpec => []LimitPerInterval
<1>1. LimiterInv => LimitPerInterval
  <2> SUFFICES ASSUME LimiterInv, NEW t \in Times PROVE Calls(granted, t) <= 3 * RateLimit - 2
    BY Zenon DEF LimitPerInterval, Times, Admitted, Calls, Slice
  <2>1. CASE bucket.started
    BY <2>1, Zenon DEF LimiterInv, Fits, Bounded
  <2>2. CASE ~bucket.started
    <3>1. granted \in [Times -> Nat] /\ \A v \in Times : granted[v] = 0
      BY <2>2, Zenon DEF LimiterInv
    <3>2. Calls(granted, t) = 0
      BY <3>1, CallsFacts, Zenon
    <3> QED BY <3>2, LimiterAssumption
  <2> QED BY <2>1, <2>2, Zenon
<1> QED BY <1>1, LimiterInvHolds, PTL
=============================================================================
