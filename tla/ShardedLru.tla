----------------------------- MODULE ShardedLru -----------------------------
(***************************************************************************)
(* ShardedRwLruStore (cache.rs), as the HTTP/2 session entries and the TLS *)
(* caches use it: each shard is a BoundedLruStore behind its own           *)
(* read-write lock.  A thread looks under the read lock and inserts under  *)
(* the write lock, in two steps; clear takes the shards one by one.        *)
(* Values are numbered in the order they are made.                         *)
(***************************************************************************)
EXTENDS LruStore

CONSTANTS Threads, Keys, Capacity,
          DefaultShardCount,   \* DEFAULT_SHARD_COUNT
          Hash,                \* DefaultHasher, a number for each key
          MaxValues            \* bound on the values made

ASSUME ShardAssumption ==
  /\ Capacity \in Nat
  /\ DefaultShardCount \in Nat \ {0}
  /\ Hash \in [Keys -> Nat]
  /\ MaxValues \in Nat

VARIABLES
  shards,   \* shards[i]: a store
  pc,       \* what a thread is doing
  key,      \* the key it is doing it for
  value,    \* the value it made, or was given last; 0 for none
  at,       \* the next shard its clear takes
  made,     \* how many values have been made
  doomed    \* history: the values stored when its clear began

shardVars == <<shards, pc, key, value, at, made, doomed>>

\* recommended_shard_count: capacity.clamp(1, DEFAULT_SHARD_COUNT).
ShardCount ==
  IF Capacity < 1 THEN 1
  ELSE IF Capacity > DefaultShardCount THEN DefaultShardCount ELSE Capacity

Shards == 0 .. ShardCount - 1

ShardIndexFor(k) == Hash[k] % ShardCount

\* Mutant: the remainder is given to every shard.
RoundedUpCapacity(i) == (Capacity + ShardCount - 1) \div ShardCount

\* ShardedRwLruStore::new spreads the remainder over the first shards.
ShardCapacity(i) ==
  (Capacity \div ShardCount) + (IF i < Capacity % ShardCount THEN 1 ELSE 0)

Made == 1 .. MaxValues

Stored(i) == {shards[i].values[k] : k \in Present(shards[i])}

ShardTypeOK ==
  /\ shards \in [Shards -> {shards[i] : i \in Shards}]
  /\ \A i \in Shards : IsStore(shards[i], Keys, Made)
  /\ pc \in [Threads -> {"idle", "write", "put", "clear"}]
  /\ key \in [Threads -> Keys]
  /\ value \in [Threads -> 0 .. MaxValues]
  /\ at \in [Threads -> 0 .. ShardCount]
  /\ made \in 0 .. MaxValues
  /\ doomed \in [Threads -> SUBSET Made]

ShardInit ==
  /\ shards = [i \in Shards |-> EmptyStore]
  /\ pc = [t \in Threads |-> "idle"]
  /\ key \in {[t \in Threads |-> k] : k \in Keys}
  /\ value = [t \in Threads |-> 0]
  /\ at = [t \in Threads |-> 0]
  /\ made = 0
  /\ doomed = [t \in Threads |-> {}]

InsertInto(i, k, v) ==
  shards' = [shards EXCEPT ![i] = Insert(shards[i], ShardCapacity(i), k, v)]

\* get_or_insert_with_cloned, under the read lock: the key is not there.  When
\* it is, its value is returned and nothing changes, as in peek_cloned.
GetOrInsertRead(t, k) ==
  /\ pc[t] = "idle"
  /\ k \notin Present(shards[ShardIndexFor(k)])
  /\ pc' = [pc EXCEPT ![t] = "write"]
  /\ key' = [key EXCEPT ![t] = k]
  /\ UNCHANGED <<shards, value, at, made, doomed>>

\* Mutant: what the read lock showed is relied upon.
GetOrInsertUnchecked(t) ==
  LET i == ShardIndexFor(key[t]) IN
  /\ pc[t] = "write"
  /\ pc' = [pc EXCEPT ![t] = "idle"]
  /\ made < MaxValues
  /\ made' = made + 1
  /\ value' = [value EXCEPT ![t] = made + 1]
  /\ InsertInto(i, key[t], made + 1)
  /\ UNCHANGED <<key, at, doomed>>

\* get_or_insert_with_cloned, under the write lock: looks again, and makes the
\* value only if the key is still absent.
GetOrInsertWrite(t) ==
  LET i == ShardIndexFor(key[t]) IN
  /\ pc[t] = "write"
  /\ pc' = [pc EXCEPT ![t] = "idle"]
  /\ \/ /\ key[t] \in Present(shards[i])
        /\ value' = [value EXCEPT ![t] = shards[i].values[key[t]]]
        /\ UNCHANGED <<shards, made>>
     \/ /\ key[t] \notin Present(shards[i])
        /\ made < MaxValues
        /\ made' = made + 1
        /\ value' = [value EXCEPT ![t] = made + 1]
        /\ InsertInto(i, key[t], made + 1)
  /\ UNCHANGED <<key, at, doomed>>

\* A caller of insert makes its value first, outside the locks.
MakeValue(t, k) ==
  /\ pc[t] = "idle"
  /\ made < MaxValues
  /\ pc' = [pc EXCEPT ![t] = "put"]
  /\ key' = [key EXCEPT ![t] = k]
  /\ made' = made + 1
  /\ value' = [value EXCEPT ![t] = made + 1]
  /\ UNCHANGED <<shards, at, doomed>>

InsertValue(t) ==
  /\ pc[t] = "put"
  /\ pc' = [pc EXCEPT ![t] = "idle"]
  /\ InsertInto(ShardIndexFor(key[t]), key[t], value[t])
  /\ UNCHANGED <<key, value, at, made, doomed>>

BeginClear(t) ==
  /\ pc[t] = "idle"
  /\ pc' = [pc EXCEPT ![t] = "clear"]
  /\ at' = [at EXCEPT ![t] = 0]
  /\ doomed' = [doomed EXCEPT ![t] = UNION {Stored(i) : i \in Shards}]
  /\ UNCHANGED <<shards, key, value, made>>

\* clear, one shard under its write lock; after the last it returns.
ClearShard(t) ==
  /\ pc[t] = "clear"
  /\ at[t] < ShardCount
  /\ at' = [at EXCEPT ![t] = at[t] + 1]
  /\ pc' = [pc EXCEPT ![t] = IF at[t] + 1 = ShardCount THEN "idle" ELSE "clear"]
  /\ shards' = [shards EXCEPT ![at[t]] = EmptyStore]
  /\ UNCHANGED <<key, value, made, doomed>>

ThreadStep(t) ==
  \/ \E k \in Keys : GetOrInsertRead(t, k) \/ MakeValue(t, k)
  \/ GetOrInsertWrite(t)
  \/ InsertValue(t)
  \/ BeginClear(t)
  \/ ClearShard(t)

ShardNext == \E t \in Threads : ThreadStep(t)

ShardSpec == ShardInit /\ [][ShardNext]_shardVars

(***************************************************************************)
(* Properties                                                              *)
(***************************************************************************)
\* In every shard the map and the recency list agree and the shard keeps its
\* own capacity, whatever inserts and clears interleave.
ShardShape == \A i \in Shards : StoreShape(shards[i], ShardCapacity(i))

\* The shards together hold no more than the capacity the store was made with
\* ("sharded store retains requested total capacity").
TotalBounded ==
  Total([n \in 1 .. ShardCount |-> Cardinality(Present(shards[n - 1]))], ShardCount)
    <= Capacity

\* Only insert replaces a value that is there: threads that race in
\* get_or_insert_with_cloned all end with the value of the first, so that two
\* requests of an origin do not get two session entries.
GetOrInsertKeeps ==
  [][\A i \in Shards : \A k \in Present(shards[i]) \cap Present(shards'[i]) :
       shards'[i].values[k] # shards[i].values[k]
         => \E t \in Threads : pc[t] = "put" /\ pc'[t] = "idle" /\ key[t] = k]_shardVars

\* What get_or_insert_with_cloned returns is what the store holds for the key
\* when it returns; a store without capacity holds nothing.
ReturnsWhatIsStored ==
  [][\A t \in Threads : pc[t] = "write" /\ pc'[t] = "idle" =>
       LET s == shards'[ShardIndexFor(key[t])]
       IN IF Capacity = 0 THEN Present(s) = {}
          ELSE key[t] \in Present(s) /\ s.values[key[t]] = value'[t]]_shardVars

\* When clear returns, nothing that was stored when it was called is stored,
\* although the other shards are in use while it takes them one by one.
ClearForgets ==
  [][\A t \in Threads : pc[t] = "clear" /\ pc'[t] = "idle" =>
       \A i \in Shards : Stored(i)' \cap doomed[t] = {}]_shardVars
=============================================================================
