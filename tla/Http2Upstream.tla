---------------------------- MODULE Http2Upstream ----------------------------
(***************************************************************************)
(* Upstream HTTP/2 session reuse (src/abi_impl/http2/upstream.rs): the     *)
(* requests of many downstream clients that share one Http2SessionEntry,   *)
(* the sessions opened for it, and the task that drives each session's     *)
(* connection.  A request is one call of send_request followed by the      *)
(* reading of its response body; it loses the processor, and may be        *)
(* dropped with the downstream request it serves, at every await.  Each    *)
(* step below is what one task does between two points where another task  *)
(* can interfere: an await, or the release of a lock.                      *)
(***************************************************************************)
EXTENDS Http2SessionDag, FiniteSets

CONSTANTS Requests,     \* the requests that use the entry
          CancelAllowed \* whether a client may go away and drop its request

ASSUME CancelAssumption == CancelAllowed \in BOOLEAN

VARIABLES current,       \* Http2SessionEntry.current: a session id, or None
          opening,       \* Http2SessionEntry.opening
          nextSessionId, \* SharedHttpUpstreamSessions.next_session_id
          dag,           \* session id -> the session's dag
          conn,          \* session id -> what its connection task has done
          pc,            \* where each request is
          held,          \* the session the request holds a reference to, or None
          stream         \* the stream it reserved, or None

vars == <<current, opening, nextSessionId, dag, conn, pc, held, stream>>

None == 0

Steps == {"lookup", "probe", "clear", "begin_open", "subscribe", "waiting",
          "connecting", "publish", "lower_flag", "notify",
          "ready", "reserve", "build", "sending", "committed", "head_ready",
          "body", "streaming", "retired", "done", "failed"}

Over == {"done", "failed"}

\* The suspension points of send_request and of the body reader.
Awaits == {"waiting", "connecting", "ready", "sending", "body", "streaming", "retired"}

Sessions == DOMAIN dag

Reusable(s) == CanAcceptNewStreams(dag[s])

TypeOK ==
    /\ nextSessionId \in Nat
    /\ Sessions \subseteq 1 .. nextSessionId
    /\ current \in Sessions \cup {None}
    /\ opening \in BOOLEAN
    /\ \A s \in Sessions : IsDag(dag[s])
    /\ dag = [s \in Sessions |-> dag[s]]
    /\ conn \in [Sessions -> {"running", "goaway", "ended"}]
    /\ pc \in [Requests -> Steps]
    /\ held \in [Requests -> 0 .. nextSessionId]
    /\ stream \in [Requests -> Nat]

Init ==
    /\ current = None
    /\ opening = FALSE
    /\ nextSessionId = 0
    /\ dag = [s \in {} |-> NewDag]
    /\ conn = [s \in {} |-> "running"]
    /\ pc = [r \in Requests |-> "lookup"]
    /\ held = [r \in Requests |-> None]
    /\ stream = [r \in Requests |-> None]

Goto(r, step) == pc' = [pc EXCEPT ![r] = step]

SetDag(s, d) == dag' = [dag EXCEPT ![s] = d]

----------------------------------------------------------------------------
(* acquire_or_open_session and the methods of Http2SessionEntry.           *)

\* reusable_session, first part: clone `current` under the read lock.
Lookup(r) ==
    /\ pc[r] = "lookup"
    /\ held' = [held EXCEPT ![r] = current]
    /\ Goto(r, IF current = None THEN "begin_open" ELSE "probe")
    /\ UNCHANGED <<current, opening, nextSessionId, dag, conn, stream>>

\* reusable_session, second part: is_reusable takes the session's own lock.
Probe(r) ==
    /\ pc[r] = "probe"
    /\ Goto(r, IF Reusable(held[r]) THEN "ready" ELSE "clear")
    /\ UNCHANGED <<current, opening, nextSessionId, dag, conn, held, stream>>

\* Mutant: the entry is cleared without looking at what it holds by now.
ClearWithoutRecheck(r) ==
    /\ pc[r] = "clear"
    /\ current' = None
    /\ held' = [held EXCEPT ![r] = None]
    /\ Goto(r, "begin_open")
    /\ UNCHANGED <<opening, nextSessionId, dag, conn, stream>>

\* reusable_session, third part: under the write lock, forget the session if
\* it is still the current one and still not reusable.
ClearStale(r) ==
    /\ pc[r] = "clear"
    /\ current' = IF current = held[r] /\ ~Reusable(held[r]) THEN None ELSE current
    /\ held' = [held EXCEPT ![r] = None]
    /\ Goto(r, "begin_open")
    /\ UNCHANGED <<opening, nextSessionId, dag, conn, stream>>

\* Mutant: the flag is set whether or not it was set before.
BeginOpenAlways(r) ==
    /\ pc[r] = "begin_open"
    /\ opening' = TRUE
    /\ nextSessionId' = nextSessionId + 1
    /\ held' = [held EXCEPT ![r] = nextSessionId + 1]
    /\ Goto(r, "connecting")
    /\ UNCHANGED <<current, dag, conn, stream>>

\* try_begin_open; the winner also draws the session id.
TryBeginOpen(r) ==
    /\ pc[r] = "begin_open"
    /\ \/ /\ ~opening
          /\ opening' = TRUE
          /\ nextSessionId' = nextSessionId + 1
          /\ held' = [held EXCEPT ![r] = nextSessionId + 1]
          /\ Goto(r, "connecting")
       \/ /\ opening
          /\ Goto(r, "subscribe")
          /\ UNCHANGED <<opening, nextSessionId, held>>
    /\ UNCHANGED <<current, dag, conn, stream>>

\* wait_for_open: the Notified future is created, and registered, only now.
Subscribe(r) ==
    /\ pc[r] = "subscribe"
    /\ Goto(r, "waiting")
    /\ UNCHANGED <<current, opening, nextSessionId, dag, conn, held, stream>>

\* open_session succeeds: the session exists and its connection task runs,
\* before the entry knows of it.
OpenSession(r) ==
    /\ pc[r] = "connecting"
    /\ dag' = [s \in Sessions \cup {held[r]} |->
                   IF s = held[r] THEN NewDag ELSE dag[s]]
    /\ conn' = [s \in Sessions \cup {held[r]} |->
                    IF s = held[r] THEN "running" ELSE conn[s]]
    /\ Goto(r, "publish")
    /\ UNCHANGED <<current, opening, nextSessionId, held, stream>>

\* Mutant: the error is returned before finish_open.
OpenFailsEarly(r) ==
    /\ pc[r] = "connecting"
    /\ Goto(r, "failed")
    /\ UNCHANGED <<current, opening, nextSessionId, dag, conn, held, stream>>

\* open_session fails, or falls back to HTTP/1.1 because ALPN did not pick h2.
OpenSessionFails(r) ==
    /\ pc[r] = "connecting"
    /\ held' = [held EXCEPT ![r] = None]
    /\ Goto(r, "publish")
    /\ UNCHANGED <<current, opening, nextSessionId, dag, conn, stream>>

\* finish_open, first part: the entry is overwritten with the outcome.
FinishOpenPublish(r) ==
    /\ pc[r] = "publish"
    /\ current' = held[r]
    /\ Goto(r, "lower_flag")
    /\ UNCHANGED <<opening, nextSessionId, dag, conn, held, stream>>

\* finish_open, second part: opening.store(false).
FinishOpenLowerFlag(r) ==
    /\ pc[r] = "lower_flag"
    /\ opening' = FALSE
    /\ Goto(r, "notify")
    /\ UNCHANGED <<current, nextSessionId, dag, conn, held, stream>>

\* finish_open, last part: notify_waiters wakes the futures that exist now.
FinishOpenNotify(r) ==
    /\ pc[r] = "notify"
    /\ pc' = [q \in Requests |->
                  IF q = r THEN (IF held[r] = None THEN "failed" ELSE "ready")
                  ELSE IF pc[q] = "waiting" THEN "lookup" ELSE pc[q]]
    /\ UNCHANGED <<current, opening, nextSessionId, dag, conn, held, stream>>

----------------------------------------------------------------------------
(* send_request, once it has a session.                                    *)

SenderReady(r) ==
    /\ pc[r] = "ready"
    /\ Goto(r, "reserve")
    /\ UNCHANGED <<current, opening, nextSessionId, dag, conn, held, stream>>

SenderReadyFails(r) ==
    /\ pc[r] = "ready"
    /\ \E kind \in ErrorKinds : SetDag(held[r], ApplySessionError(dag[held[r]], kind))
    /\ Goto(r, "failed")
    /\ UNCHANGED <<current, opening, nextSessionId, conn, held, stream>>

\* Mutant: the check made before the await is relied upon.
ReserveUnchecked(r) ==
    /\ pc[r] = "reserve"
    /\ stream' = [stream EXCEPT ![r] = dag[held[r]].next]
    /\ SetDag(held[r], ReserveStream(dag[held[r]]))
    /\ Goto(r, "build")
    /\ UNCHANGED <<current, opening, nextSessionId, conn, held>>

\* reserve_stream checks again, under the lock, that the session still accepts
\* streams.
ReserveStreamFor(r) ==
    /\ pc[r] = "reserve"
    /\ \/ /\ Reusable(held[r])
          /\ stream' = [stream EXCEPT ![r] = dag[held[r]].next]
          /\ SetDag(held[r], ReserveStream(dag[held[r]]))
          /\ Goto(r, "build")
       \/ /\ ~Reusable(held[r])
          /\ Goto(r, "failed")
          /\ UNCHANGED <<dag, stream>>
    /\ UNCHANGED <<current, opening, nextSessionId, conn, held>>

\* build_http2_request: a header or a path that does not encode ends the
\* request with the stream still reserved.
BuildHttp2Request(r) ==
    /\ pc[r] = "build"
    /\ \E step \in {"sending", "failed"} : Goto(r, step)
    /\ UNCHANGED <<current, opening, nextSessionId, dag, conn, held, stream>>

\* The response head is here.  The two frontier updates take the lock twice.
SendRequest(r) ==
    /\ pc[r] = "sending"
    /\ SetDag(held[r], MarkStreamRequestCommitted(dag[held[r]], stream[r]))
    /\ Goto(r, "committed")
    /\ UNCHANGED <<current, opening, nextSessionId, conn, held, stream>>

NoteResponseHead(r) ==
    /\ pc[r] = "committed"
    /\ SetDag(held[r], MarkStreamResponseHeadReady(dag[held[r]], stream[r]))
    /\ Goto(r, "head_ready")
    /\ UNCHANGED <<current, opening, nextSessionId, conn, held, stream>>

SendRequestFails(r) ==
    /\ pc[r] = "sending"
    /\ \E kind \in ErrorKinds :
          SetDag(held[r], ApplyStreamError(dag[held[r]], stream[r], kind))
    /\ Goto(r, "failed")
    /\ UNCHANGED <<current, opening, nextSessionId, conn, held, stream>>

----------------------------------------------------------------------------
(* The response body (UpstreamResponseBodyState and its http2_tracker).    *)

\* from_hyper: a response that declares a length of zero is given the empty
\* body, which has no tracker.
FromHyper(r) ==
    /\ pc[r] = "head_ready"
    /\ \E step \in {"body", "done"} : Goto(r, step)
    /\ UNCHANGED <<current, opening, nextSessionId, dag, conn, held, stream>>

\* note_body_ready: with the first chunk, or just before note_body_eof.
NoteBodyReady(r) ==
    /\ pc[r] = "body"
    /\ SetDag(held[r], MarkStreamResponseBodyReady(dag[held[r]], stream[r]))
    /\ Goto(r, "streaming")
    /\ UNCHANGED <<current, opening, nextSessionId, conn, held, stream>>

\* note_body_eof: the last declared byte was delivered, or the body ended.
NoteBodyEof(r) ==
    /\ pc[r] = "streaming"
    /\ SetDag(held[r], MarkStreamClosed(dag[held[r]], stream[r]))
    /\ Goto(r, "retired")
    /\ UNCHANGED <<current, opening, nextSessionId, conn, held, stream>>

\* note_body_error; a reader that polls again after the last declared byte can
\* still meet one.
NoteBodyError(r) ==
    /\ pc[r] \in {"body", "streaming", "retired"}
    /\ \E kind \in ErrorKinds :
          SetDag(held[r], ApplyStreamError(dag[held[r]], stream[r], kind))
    /\ Goto(r, "failed")
    /\ UNCHANGED <<current, opening, nextSessionId, conn, held, stream>>

BodyDone(r) ==
    /\ pc[r] = "retired"
    /\ Goto(r, "done")
    /\ UNCHANGED <<current, opening, nextSessionId, dag, conn, held, stream>>

\* The future, or the body, is dropped where it is suspended.  Neither
\* Http2SessionEntry nor the tracker has a guard that runs then.
Cancel(r) ==
    /\ CancelAllowed
    /\ pc[r] \in Awaits
    /\ Goto(r, "failed")
    /\ UNCHANGED <<current, opening, nextSessionId, dag, conn, held, stream>>

----------------------------------------------------------------------------
(* spawn_http2_connection: how the connection task ends.                   *)

ConnectionEnds(s) ==
    /\ conn[s] = "running"
    /\ \/ /\ SetDag(s, MarkConnectionClosed(dag[s]))
          /\ conn' = [conn EXCEPT ![s] = "ended"]
       \/ /\ SetDag(s, MarkGoaway(dag[s]))
          /\ conn' = [conn EXCEPT ![s] = "goaway"]
       \/ /\ SetDag(s, MarkConnectionFailed(dag[s]))
          /\ conn' = [conn EXCEPT ![s] = "ended"]
    /\ UNCHANGED <<current, opening, nextSessionId, pc, held, stream>>

\* After a GOAWAY the task takes the lock a second time.
ConnectionClosesAfterGoaway(s) ==
    /\ conn[s] = "goaway"
    /\ SetDag(s, MarkConnectionClosed(dag[s]))
    /\ conn' = [conn EXCEPT ![s] = "ended"]
    /\ UNCHANGED <<current, opening, nextSessionId, pc, held, stream>>

----------------------------------------------------------------------------
RequestStep(r) ==
    \/ Lookup(r)
    \/ Probe(r)
    \/ ClearStale(r)
    \/ TryBeginOpen(r)
    \/ Subscribe(r)
    \/ OpenSession(r)
    \/ OpenSessionFails(r)
    \/ FinishOpenPublish(r)
    \/ FinishOpenLowerFlag(r)
    \/ FinishOpenNotify(r)
    \/ SenderReady(r)
    \/ SenderReadyFails(r)
    \/ ReserveStreamFor(r)
    \/ BuildHttp2Request(r)
    \/ SendRequest(r)
    \/ NoteResponseHead(r)
    \/ SendRequestFails(r)
    \/ FromHyper(r)
    \/ NoteBodyReady(r)
    \/ NoteBodyEof(r)
    \/ NoteBodyError(r)
    \/ BodyDone(r)

ConnectionStep(s) == ConnectionEnds(s) \/ ConnectionClosesAfterGoaway(s)

Next ==
    \/ \E r \in Requests : RequestStep(r) \/ Cancel(r)
    \/ \E s \in Sessions : ConnectionStep(s)

Spec == Init /\ [][Next]_vars

\* What the code's scheduling justifies for a request that is acquiring a
\* session: tokio polls every task that is ready, no step but the connect
\* waits on a peer, and a connect ends when the peer, or the operating system
\* in its place, answers.  The steps that wait for a response have no bound in
\* the code and are not assumed fair.
AcquireStep(r) ==
    \/ Lookup(r)
    \/ Probe(r)
    \/ ClearStale(r)
    \/ TryBeginOpen(r)
    \/ Subscribe(r)
    \/ OpenSession(r)
    \/ OpenSessionFails(r)
    \/ FinishOpenPublish(r)
    \/ FinishOpenLowerFlag(r)
    \/ FinishOpenNotify(r)

FairSpec == Spec /\ \A r \in Requests : WF_vars(AcquireStep(r))

----------------------------------------------------------------------------
(* Properties.                                                             *)

\* Between try_begin_open and the store that lowers the flag in finish_open.
OpenSection == {"connecting", "publish", "lower_flag"}

\* At most one request at a time is opening a session and overwriting
\* `current`, and the flag is up all the while: the compare_exchange of
\* try_begin_open and the order of the two stores in finish_open.
ExclusiveOpen ==
    \A r \in Requests : pc[r] \in OpenSection =>
        /\ opening
        /\ \A q \in Requests : pc[q] \in OpenSection => q = r

\* An open session has seen no GOAWAY; a draining one has, and still has work
\* that will close it (prune_terminal_streams closes it with the last stream);
\* and neither keeps a stream that is over.
SessionShape == \A s \in Sessions : DagShape(dag[s])

\* Every stream in a session's map was reserved by one request, and no two
\* requests ever hold the same stream of the same session, however the
\* reservations, resets and failures interleave (next_local_stream_id is never
\* handed out twice, reserve_stream).
StreamOwnership ==
    /\ \A r, q \in Requests :
          r # q /\ held[r] = held[q] /\ stream[r] # None => stream[r] # stream[q]
    /\ \A s \in Sessions : \A id \in DOMAIN dag[s].streams :
          id # None /\ \E r \in Requests : held[r] = s /\ stream[r] = id

\* A stream is attached only to a session that is open and has seen no GOAWAY
\* when it is attached, although the request looked at the session before it
\* awaited sender.ready ("GOAWAY must block new stream attachment").
AttachOnlyWhileOpen ==
    [][\A s \in Sessions :
          DOMAIN dag'[s].streams \ DOMAIN dag[s].streams # {} =>
              CanAcceptNewStreams(dag[s])]_vars

\* A session that stopped accepting streams never accepts one again, whatever
\* order GOAWAY, stream ends, errors and the end of the connection come in.
NeverReopens ==
    [][\A s \in Sessions : ~Reusable(s) => ~CanAcceptNewStreams(dag'[s])]_vars

\* One request's reset, or a GOAWAY, leaves the other requests' streams alone:
\* a step that changes two live streams of a session is the failure of the
\* whole session ("stream resets or GOAWAY affect only the relevant exchange or
\* the session").
ErrorIsolation ==
    [][\A s \in Sessions :
          (\E i, j \in ActiveStreams(dag[s]) :
              /\ i # j
              /\ i \notin DOMAIN dag'[s].streams \/ dag'[s].streams[i] # dag[s].streams[i]
              /\ j \notin DOMAIN dag'[s].streams \/ dag'[s].streams[j] # dag[s].streams[j])
          => dag'[s].frontier = "Failed"]_vars

\* A request that found the current session unusable never makes the entry
\* forget a usable one that was published meanwhile (the ptr_eq test in
\* reusable_session): only the request that is publishing replaces a usable
\* current session.
StaleClearIsHarmless ==
    [][current # None /\ Reusable(current) /\ current' # current =>
           \E r \in Requests : pc[r] = "publish" /\ pc'[r] = "lower_flag"]_vars

\* The entry does not stay in the opening state: every open that begins ends by
\* lowering the flag.
OpenEnds == opening ~> ~opening
=============================================================================
