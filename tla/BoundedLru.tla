----------------------------- MODULE BoundedLru -----------------------------
(***************************************************************************)
(* One BoundedLruStore behind a mutex, as the downstream HTTP/2 and HTTP/3 *)
(* trackers hold their sessions.  `clock' and `used' are history: the      *)
(* number of uses so far, and the one that last used each key.             *)
(***************************************************************************)
EXTENDS LruStore

CONSTANTS LruKeys, LruValues, LruCapacity,
          MaxClock   \* bound on the uses of the store

ASSUME BoundsAssumption == LruCapacity \in Nat /\ MaxClock \in Nat

VARIABLES store, clock, used

lruVars == <<store, clock, used>>

LruTypeOK ==
  /\ IsStore(store, LruKeys, LruValues)
  /\ clock \in 0 .. MaxClock
  /\ used \in [LruKeys -> 0 .. clock]

LruInit ==
  /\ store = EmptyStore
  /\ clock = 0
  /\ used = [k \in LruKeys |-> 0]

Used(k) ==
  /\ clock < MaxClock
  /\ clock' = clock + 1
  /\ used' = [used EXCEPT ![k] = clock + 1]

InsertEntry(k, v) ==
  /\ Used(k)
  /\ store' = Insert(store, LruCapacity, k, v)

\* get_mut of a key that is present; of another it changes nothing.
GetMutEntry(k) ==
  /\ k \in Present(store)
  /\ Used(k)
  /\ store' = GetMut(store, k)

RemoveEntry(k) ==
  /\ store' = RemoveKey(store, k)
  /\ UNCHANGED <<clock, used>>

LruNext ==
  \E k \in LruKeys :
    \/ \E v \in LruValues : InsertEntry(k, v)
    \/ GetMutEntry(k)
    \/ RemoveEntry(k)

LruSpec == LruInit /\ [][LruNext]_lruVars

(***************************************************************************)
(* Properties                                                              *)
(***************************************************************************)
\* Whatever was inserted, touched and removed, the recency list has every key
\* of the map once, and the map keeps its capacity (insert, get_mut and remove
\* update the two structures apart).
Shape == StoreShape(store, LruCapacity)

\* The recency list is sorted by the last use of its keys, oldest first.
ByRecency ==
  \A i, j \in DOMAIN store.order : i < j => used[store.order[i]] < used[store.order[j]]

\* An insert that evicts drops the keys used least recently: every key it drops
\* was last used before every key it keeps ("least recently used entry is
\* evicted after capacity is reached"), and the key just used is kept.
EvictsOldest ==
  [][clock' # clock =>
       /\ \A k \in Present(store) \ Present(store'),
             j \in Present(store) \cap Present(store') : used[k] < used'[j]
       /\ LruCapacity # 0 => \E j \in Present(store') : used'[j] = clock']_lruVars
=============================================================================
