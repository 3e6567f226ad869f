---------------------------- MODULE Http3Upstream ----------------------------
(***************************************************************************)
(* The pool of upstream HTTP/3 sessions (src/abi_impl/http3/upstream.rs):  *)
(* a bounded LRU store, behind one mutex, of entries that each hold        *)
(* several sessions of one key; the requests that acquire a session, open  *)
(* a stream on it and read the response; and the task that drives each     *)
(* connection.  A connect is made without the mutex, so any number of      *)
(* requests may connect for one key at once; each looks again before it    *)
(* puts its session into the entry.                                        *)
(***************************************************************************)
EXTENDS LruStore, Http3SessionDag

CONSTANTS Http3Requests,
          Http3Keys,
          Mode,          \* its Http3UpstreamMode: "Preferred" or "Required"
          StoreCapacity, \* entries in the store
          MaxReusable,   \* max_reusable_sessions_per_origin
          TargetActive   \* target_active_streams_per_session

ASSUME Http3Assumption ==
    /\ StoreCapacity \in Nat
    /\ MaxReusable \in Nat \ {0}
    /\ TargetActive \in Nat \ {0}
    /\ Mode \in [Http3Requests -> {"Preferred", "Required"}]

VARIABLES store,   \* Http3SessionStore.sessions: key -> the session ids of its entry
          locked,  \* the request that holds the store's mutex, or NoRequest
          dag,     \* the dag of each session; session ids are 1 .. Len(dag)
          origin,  \* the key each session was connected for
          driving, \* whether the session's connection task is still running
          phase,   \* where each request is
          held,    \* the session it was given, or 0
          keyOf    \* its Http3SessionKey

http3Vars == <<store, locked, dag, origin, driving, phase, held, keyOf>>

NoRequest == "nobody"

Settled == {"done", "failed", "peer_reset", "fallback"}

Awaits == {"connecting", "sending", "body", "awaiting", "respond", "streaming", "retired"}

Steps == {"look", "select", "relook", "reselect", "attach"} \cup Awaits \cup Settled

Sessions == 1 .. Len(dag)

Http3TypeOK ==
    /\ IsStore(store, Http3Keys, Seq(Sessions))
    /\ locked \in Http3Requests \cup {NoRequest}
    /\ \A s \in Sessions : IsDag(dag[s], Http3Requests)
    /\ origin \in [Sessions -> Http3Keys]
    /\ driving \in [Sessions -> BOOLEAN]
    /\ phase \in [Http3Requests -> Steps]
    /\ held \in [Http3Requests -> 0 .. Len(dag)]
    /\ keyOf \in [Http3Requests -> Http3Keys]

Http3Init ==
    /\ store = EmptyStore
    /\ locked = NoRequest
    /\ dag = << >>
    /\ origin = << >>
    /\ driving = << >>
    /\ phase = [r \in Http3Requests |-> "look"]
    /\ held = [r \in Http3Requests |-> 0]
    /\ keyOf \in [Http3Requests -> Http3Keys]

Goto(r, step) == phase' = [phase EXCEPT ![r] = step]

SetDag(s, d) == dag' = [dag EXCEPT ![s] = d]

----------------------------------------------------------------------------
(* acquire_or_open_session.                                                *)

IsReusable(s) == CanAcceptNewStreams(dag[s])

\* reusable_session_count.
ReusableCount(q) == Cardinality({i \in DOMAIN q : IsReusable(q[i])})

\* retain_sessions.
RetainSessions(q) == Kept(q, {s \in Sessions : ShouldRetain(dag[s])})

\* select_reusable_session: the first of those with the fewest streams.
SelectReusable(q) ==
    {q[i] : i \in {j \in DOMAIN q :
        /\ IsReusable(q[j])
        /\ \A k \in DOMAIN q : IsReusable(q[k]) =>
             \/ ActiveStreamCount(dag[q[j]]) < ActiveStreamCount(dag[q[k]])
             \/ ActiveStreamCount(dag[q[j]]) = ActiveStreamCount(dag[q[k]]) /\ j <= k}}

\* The selected session, unless it is busy and there is room for another.
Usable(q) == {s \in SelectReusable(q) :
                \/ ActiveStreamCount(dag[s]) < TargetActive
                \/ ReusableCount(q) >= MaxReusable}

\* The mutex is taken, and entries with nothing worth keeping go.
LockAndSweep(r, from, to) ==
    /\ phase[r] = from
    /\ locked = NoRequest
    /\ locked' = r
    /\ store' = Retain(store, {k \in Present(store) :
                                 \E i \in DOMAIN store.values[k] :
                                   ShouldRetain(dag[store.values[k][i]])})
    /\ Goto(r, to)
    /\ UNCHANGED <<dag, origin, driving, held>>

Look(r) == LockAndSweep(r, "look", "select")

\* get_mut (which makes the entry the newest) and retain_sessions.
TouchEntry(k) ==
    LET s == GetMut(store, k)
    IN  IF k \in Present(s)
        THEN [s EXCEPT !.values = With(s.values, k, RetainSessions(s.values[k]))]
        ELSE s

EntrySessions(s, k) == IF k \in Present(s) THEN s.values[k] ELSE << >>

Use(r, s) ==
    /\ held' = [held EXCEPT ![r] = s]
    /\ Goto(r, "sending")

Select(r) ==
    LET s == TouchEntry(keyOf[r])
        usable == Usable(EntrySessions(s, keyOf[r]))
    IN  /\ phase[r] = "select"
        /\ store' = s
        /\ locked' = NoRequest
        /\ \/ \E u \in usable : Use(r, u)
           \/ usable = {} /\ Goto(r, "connecting") /\ UNCHANGED held
        /\ UNCHANGED <<dag, origin, driving>>

Connected(r) ==
    /\ phase[r] = "connecting"
    /\ Goto(r, "relook")
    /\ UNCHANGED <<store, locked, dag, origin, driving, held>>

\* connect_session failed.
ConnectSessionFails(r) ==
    /\ phase[r] = "connecting"
    /\ Goto(r, IF Mode[r] = "Preferred" THEN "fallback" ELSE "failed")
    /\ UNCHANGED <<store, locked, dag, origin, driving, held>>

Relook(r) == LockAndSweep(r, "relook", "reselect")

\* into_session: the session gets its number and its connection task.
NewSession(r) ==
    /\ dag' = Append(dag, NewDag)
    /\ origin' = Append(origin, keyOf[r])
    /\ driving' = Append(driving, TRUE)
    /\ held' = [held EXCEPT ![r] = Len(dag) + 1]
    /\ Goto(r, "sending")

\* Mutant: the new session is used whatever was pooled meanwhile.
ReselectUnchecked(r) ==
    LET k == keyOf[r]
        s == TouchEntry(k)
    IN  /\ phase[r] = "reselect"
        /\ locked' = NoRequest
        /\ NewSession(r)
        /\ store' = Insert(s, StoreCapacity, k, Append(EntrySessions(s, k), Len(dag) + 1))

\* After a connect: the pool may have changed, and what was connected is dropped
\* if a pooled session will do.  Otherwise it joins the entry, or a new one.
Reselect(r) ==
    LET k == keyOf[r]
        s == TouchEntry(k)
        usable == Usable(EntrySessions(s, k))
    IN  /\ phase[r] = "reselect"
        /\ locked' = NoRequest
        /\ \/ /\ \E u \in usable : Use(r, u)
              /\ store' = s
              /\ UNCHANGED <<dag, origin, driving>>
           \/ /\ usable = {}
              /\ NewSession(r)
              /\ store' = IF k \in Present(s)
                          THEN [s EXCEPT !.values = With(s.values, k, Append(s.values[k], Len(dag) + 1))]
                          ELSE Insert(s, StoreCapacity, k, <<Len(dag) + 1>>)

----------------------------------------------------------------------------
(* send_request and the response body.                                     *)

\* The stream is open on the connection; the dag does not know it yet.
StreamOpened(r) ==
    /\ phase[r] = "sending"
    /\ driving[held[r]]
    /\ Goto(r, "attach")
    /\ UNCHANGED <<store, locked, dag, origin, driving, held>>

\* sender.send_request failed: no stream yet, so another version may be tried.
OpenStreamFails(r, kind) ==
    /\ phase[r] = "sending"
    /\ SetDag(held[r], ApplyError(dag[held[r]], kind))
    /\ Goto(r, IF Mode[r] = "Preferred" THEN "fallback" ELSE "failed")
    /\ UNCHANGED <<store, locked, origin, driving, held>>

Attach(r) ==
    /\ phase[r] = "attach"
    /\ SetDag(held[r], AttachStream(dag[held[r]], r))
    /\ Goto(r, "body")
    /\ UNCHANGED <<store, locked, origin, driving, held>>

RequestSent(r) ==
    /\ phase[r] = "body"
    /\ SetDag(held[r], MarkStreamRequestCommitted(dag[held[r]], r))
    /\ Goto(r, "awaiting")
    /\ UNCHANGED <<store, locked, origin, driving, held>>

\* The downstream body, streamed upwards, cannot be read.
RequestBodyUnreadable(r) ==
    /\ phase[r] = "body"
    /\ SetDag(held[r], MarkStreamReset(dag[held[r]], r))
    /\ Goto(r, "failed")
    /\ UNCHANGED <<store, locked, origin, driving, held>>

ResponseHead(r) ==
    /\ phase[r] = "awaiting"
    /\ SetDag(held[r], MarkStreamResponseHeadReady(dag[held[r]], r))
    /\ Goto(r, "respond")
    /\ UNCHANGED <<store, locked, origin, driving, held>>

\* from_http3 with a declared length of zero drops the tracker.
ZeroLength(r) ==
    /\ phase[r] = "respond"
    /\ Goto(r, "done")
    /\ UNCHANGED <<store, locked, dag, origin, driving, held>>

BodyReady(r) ==
    /\ phase[r] = "respond"
    /\ SetDag(held[r], MarkStreamResponseBodyReady(dag[held[r]], r))
    /\ Goto(r, "streaming")
    /\ UNCHANGED <<store, locked, origin, driving, held>>

\* note_body_eof, once: at the end of the stream or of the declared length.
BodyEof(r) ==
    /\ phase[r] = "streaming"
    /\ SetDag(held[r], MarkStreamClosed(dag[held[r]], r))
    /\ Goto(r, "retired")
    /\ UNCHANGED <<store, locked, origin, driving, held>>

Finish(r) ==
    /\ phase[r] = "retired"
    /\ Goto(r, "done")
    /\ UNCHANGED <<store, locked, dag, origin, driving, held>>

\* Mutant: a request that may, falls back although its stream is attached.
StreamFailsOver(r, kind) ==
    /\ phase[r] \in {"body", "awaiting", "respond", "streaming", "retired"}
    /\ SetDag(held[r], ApplyError(dag[held[r]], kind))
    /\ Goto(r, IF Mode[r] = "Preferred" THEN "fallback" ELSE "failed")
    /\ UNCHANGED <<store, locked, origin, driving, held>>

\* An operation on the stream fails; the error is put down to the session.
StreamFails(r, kind) ==
    /\ phase[r] \in {"body", "awaiting", "respond", "streaming", "retired"}
    /\ SetDag(held[r], ApplyError(dag[held[r]], kind))
    /\ Goto(r, "failed")
    /\ UNCHANGED <<store, locked, origin, driving, held>>

\* The peer resets this stream alone, which is no ConnectionError.
PeerResets(r) ==
    /\ phase[r] \in {"body", "awaiting", "respond", "streaming", "retired"}
    /\ SetDag(held[r], ApplyError(dag[held[r]], "other"))
    /\ Goto(r, "peer_reset")
    /\ UNCHANGED <<store, locked, origin, driving, held>>

\* The downstream client goes away: the future is dropped at its await, and
\* nothing it holds tells the session.
CancelRequest(r) ==
    /\ phase[r] \in Awaits
    /\ Goto(r, "failed")
    /\ UNCHANGED <<store, locked, dag, origin, driving, held>>

\* spawn_http3_connection_driver: poll_close returns, without an error or with one.
ConnectionEnds(s) ==
    /\ driving[s]
    /\ driving' = [driving EXCEPT ![s] = FALSE]
    /\ \/ SetDag(s, MarkConnectionClosed(dag[s]))
       \/ \E kind \in ErrorKinds : SetDag(s, ApplyError(dag[s], kind))
    /\ UNCHANGED <<store, locked, origin, phase, held>>

Step(r) ==
    \/ Look(r) \/ Select(r) \/ Connected(r) \/ ConnectSessionFails(r)
    \/ Relook(r) \/ Reselect(r)
    \/ StreamOpened(r) \/ Attach(r) \/ RequestSent(r) \/ RequestBodyUnreadable(r)
    \/ ResponseHead(r) \/ ZeroLength(r) \/ BodyReady(r) \/ BodyEof(r) \/ Finish(r)
    \/ \E kind \in ErrorKinds : OpenStreamFails(r, kind) \/ StreamFails(r, kind)
    \/ PeerResets(r) \/ CancelRequest(r)

Http3Next ==
    /\ \/ \E r \in Http3Requests : Step(r)
       \/ \E s \in Sessions : ConnectionEnds(s)
    /\ UNCHANGED keyOf

Http3Spec == Http3Init /\ [][Http3Next]_http3Vars

(***************************************************************************)
(* Properties                                                              *)
(***************************************************************************)
\* Map and recency list of the store agree, through sweeps, touches, inserts and
\* the changes made to entries in place, and the store keeps its capacity.
\* However many requests connect for one key at once, its entry has at most
\* max_reusable_sessions_per_origin sessions that accept streams, each connected
\* for that key: no request goes to another origin or over a connection with
\* other TLS settings.
StoreAgrees ==
    /\ StoreShape(store, StoreCapacity)
    /\ \A k \in Present(store) :
         /\ ReusableCount(store.values[k]) <= MaxReusable
         /\ \A i \in DOMAIN store.values[k] : origin[store.values[k][i]] = k
         /\ Distinct(store.values[k])
    /\ \A r \in Http3Requests : held[r] # 0 => origin[held[r]] = keyOf[r]

\* A request falls back to an earlier HTTP version only while no stream is
\* attached for it ("fallback from HTTP/3 to HTTP/2 or HTTP/1.1 must happen
\* before the carrier is published").
FallbackBeforeAttach ==
    \A r \in Http3Requests : phase[r] = "fallback" =>
        \A s \in Sessions : r \notin DOMAIN dag[s].streams

\* A session whose connection is gone and that no request uses any more has
\* ended, so that the pool forgets it ("draining after GOAWAY", then "closed or
\* failed").
DeadSessionEnds ==
    \A s \in Sessions :
        ~driving[s] /\ (\A r \in Http3Requests : held[r] = s => phase[r] \in Settled)
          => ~ShouldRetain(dag[s])
=============================================================================
