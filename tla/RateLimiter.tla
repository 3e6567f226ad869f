---------------------------- MODULE RateLimiter ----------------------------
(***************************************************************************)
(* RateLimiterStore of abi_impl/mod.rs: one fixed window per key, started  *)
(* by the first call that finds no window or an old one.  A caller reads   *)
(* the clock before it takes the shard's lock, so a caller that was held   *)
(* up decides with a time older than the window it meets.                  *)
(***************************************************************************)
EXTENDS Lists

CONSTANTS Callers,   \* threads calling allow for one key
          RateLimit, \* calls allowed in a window
          Window,    \* its length, in ticks of the clock
          MaxDelay,  \* how long a caller may be held up before the lock
          MaxTime    \* bound on the clock

\* allow admits nothing when the limit or the window is zero; a caller is held up
\* for less than a window, which lasts seconds.
ASSUME LimiterAssumption ==
    /\ RateLimit \in Nat \ {0}
    /\ Window \in Nat \ {0}
    /\ MaxDelay \in 0 .. Window
    /\ MaxTime \in Nat

VARIABLES
    now,      \* the monotonic clock
    bucket,   \* the key's RateLimitBucket; started = FALSE until it exists
    caller,   \* the time each caller has read; none while it is not calling
    granted   \* calls allowed, by the time they were made (history)

limiterVars == <<now, bucket, caller, granted>>

Away == MaxTime + 1
Idle(c) == caller[c] = Away

LimiterInit == /\ now = 0
               /\ bucket = [started |-> FALSE, start |-> 0, count |-> 0]
               /\ caller = [c \in Callers |-> Away]
               /\ granted = [t \in 0..MaxTime |-> 0]

Tick == /\ now < MaxTime
        /\ \A c \in Callers : Idle(c) \/ now < caller[c] + MaxDelay
        /\ now' = now + 1
        /\ UNCHANGED <<bucket, caller, granted>>

\* allow, up to the lock.
ReadClock(c) ==
    /\ Idle(c)
    /\ caller' = [caller EXCEPT ![c] = now]
    /\ UNCHANGED <<now, bucket, granted>>

\* entry().or_insert_with, then a window that is over starts anew.  A time
\* before the window's start counts as no time at all (duration_since).
\* Mutant: the window is not started anew, only its count.
RollKeepingStart(b, t) ==
    IF ~b.started THEN [started |-> TRUE, start |-> t, count |-> 0]
    ELSE IF t >= b.start + Window THEN [b EXCEPT !.count = 0] ELSE b

Roll(b, t) ==
    IF ~b.started \/ t >= b.start + Window
    THEN [started |-> TRUE, start |-> t, count |-> 0] ELSE b

\* allow under the lock.
Decide(c) ==
    /\ ~Idle(c)
    /\ LET b == Roll(bucket, caller[c])
           ok == b.count < RateLimit
       IN  /\ bucket' = [b EXCEPT !.count = IF ok THEN @ + 1 ELSE @]
           /\ granted' = [granted EXCEPT ![caller[c]] = IF ok THEN @ + 1 ELSE @]
    /\ caller' = [caller EXCEPT ![c] = Away]
    /\ UNCHANGED now

LimiterNext == Tick \/ \E c \in Callers : ReadClock(c) \/ Decide(c)

LimiterSpec == LimiterInit /\ [][LimiterNext]_limiterVars

-----------------------------------------------------------------------------
\* The calls admitted in the interval of a window's length from t.
Admitted(t) ==
    Total([i \in 1 .. MaxTime + 1 |->
             IF t <= i - 1 /\ i - 1 < t + Window THEN granted[i - 1] ELSE 0], MaxTime + 1)

\* A fixed window does not bound the calls of every interval of its length by
\* the limit: windows meet inside the interval, and a caller that was overtaken
\* on its way to the lock by the one that starts a window is counted in that
\* window, although its time is before it.  So three windows may have calls in
\* the interval; but the call that starts a window is the first it counts, and
\* those of the first and of the third window lie outside.
LimitPerInterval == \A t \in 0 .. MaxTime : Admitted(t) <= 3 * RateLimit - 2
=============================================================================
