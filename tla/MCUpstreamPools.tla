--------------------------- MODULE MCUpstreamPools ---------------------------
(***************************************************************************)
(* What the requests of a process share on their way upstream: the sharded *)
(* store of HTTP/2 entries and TLS configurations, the HTTP/1.1 sender     *)
(* pool, the HTTP/3 session store and the rate limiter.  They hold no      *)
(* common lock and are checked one at a time: `part' names the one that    *)
(* moves, the state of the others stays what it is at first.               *)
(***************************************************************************)
EXTENDS ShardedLru, Http1SenderPool, Http3Upstream, RateLimiter, TLC

CONSTANTS r1, r2, c3, q1, q2, k1, k2, k3, k4, o1, o2

VARIABLE part

\* Two keys in each of two shards.
HashOf == [k \in Keys |-> IF k \in {k1, k2} THEN 2 ELSE 3]

\* One of the two HTTP/3 requests may not fall back.
ModeOf == [r \in {q1, q2} |-> IF r = q1 THEN "Required" ELSE "Preferred"]

Symmetry == {f @@ g @@ h : f \in Permutations({r1, r2}), g \in Permutations({k1, k2}),
                           h \in Permutations({o1, o2})}

PoolsInit ==
    /\ part \in {"lru", "http1", "http3", "limiter"}
    /\ ShardInit /\ (part # "lru" => key = [t \in Threads |-> k3])
    /\ Http1Init
    /\ part # "http1" => poolKey = [r \in Requests |-> k1] /\ replays = [r \in Requests |-> TRUE]
    /\ Http3Init /\ (part # "http3" => keyOf = [r \in Http3Requests |-> o1])
    /\ LimiterInit

PoolsNext ==
    \/ part = "lru" /\ ShardNext /\ UNCHANGED <<part, http1Vars, http3Vars, limiterVars>>
    \/ part = "http1" /\ Http1Next /\ UNCHANGED <<part, shardVars, http3Vars, limiterVars>>
    \/ part = "http3" /\ Http3Next /\ UNCHANGED <<part, shardVars, http1Vars, limiterVars>>
    \/ part = "limiter" /\ LimiterNext /\ UNCHANGED <<part, shardVars, http1Vars, http3Vars>>

PoolsSpec ==
    PoolsInit /\ [][PoolsNext]_<<part, shardVars, http1Vars, http3Vars, limiterVars>>
=============================================================================
