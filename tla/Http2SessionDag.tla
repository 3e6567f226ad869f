--------------------------- MODULE Http2SessionDag ---------------------------
(***************************************************************************)
(* The bookkeeping of one upstream HTTP/2 session: the struct              *)
(* Http2UpstreamSessionDagState of src/abi_impl/http2/upstream.rs, which   *)
(* every method of Http2UpstreamSession reads and writes under its mutex.  *)
(* A dag is a record                                                       *)
(*   frontier  the session frontier                                        *)
(*   goaway    whether a GOAWAY was recorded (its reason is diagnostics)   *)
(*   streams   the stream frontiers, by stream id                          *)
(*   next      next_local_stream_id                                        *)
(* and each operator below is one method: it maps the dag the method finds *)
(* to the dag it leaves behind.                                            *)
(***************************************************************************)
EXTENDS Integers

\* Http2UpstreamSession::new runs Candidate, Attachable, PrefaceExchanged and
\* PeerSettingsReceived before the session is shared, so these four frontiers
\* are the ones another task can ever observe.
SessionFrontiers == {"Open", "Draining", "Closed", "Failed"}

\* Reserved, RequestHeadersSent, RequestCommitted, RequestBodyOpen and
\* HalfClosedRemote are entered and left within one method, under the mutex.
StreamFrontiers == {"AttachedToExchange", "HalfClosedLocal", "ResponseHeadReady",
                    "ResponseBodyReady", "Closed", "Reset"}

SessionTerminal(frontier) == frontier \in {"Closed", "Failed"}

StreamTerminal(frontier) == frontier \in {"Closed", "Reset"}

\* What a classified error reports (classify_http2_error): a stream reset, a
\* GOAWAY, or neither of the two.
ErrorKinds == {"reset", "goaway", "other"}

NewDag == [frontier |-> "Open", goaway |-> FALSE, next |-> 1,
           streams |-> [id \in {} |-> "Closed"]]

IsDag(d) ==
    /\ d \in [frontier : SessionFrontiers, goaway : BOOLEAN, next : Nat,
              streams : [DOMAIN d.streams -> StreamFrontiers]]
    /\ DOMAIN d.streams \subseteq Nat

ActiveStreams(d) == {id \in DOMAIN d.streams : ~StreamTerminal(d.streams[id])}

\* What holds of a dag whenever its mutex is free: an open session has seen no
\* GOAWAY; a draining one has, and still has work that will close it; and
\* neither keeps a stream that is over.
DagShape(d) ==
    /\ d.frontier = "Open" => ~d.goaway
    /\ d.frontier = "Draining" => d.goaway /\ ActiveStreams(d) # {}
    /\ ~SessionTerminal(d.frontier) => ActiveStreams(d) = DOMAIN d.streams

CanAcceptNewStreams(d) == d.frontier = "Open" /\ ~d.goaway

\* Only live streams stay, and the last one to go closes a draining session.
PruneTerminalStreams(d) ==
    [d EXCEPT !.streams  = [id \in ActiveStreams(d) |-> d.streams[id]],
              !.frontier = IF d.frontier = "Draining" /\ ActiveStreams(d) = {}
                           THEN "Closed" ELSE d.frontier]

\* The id handed out is the counter's value on entry; the caller has checked
\* CanAcceptNewStreams.  (The u64 counter saturates long after a connection
\* has used up its 2^30 stream ids, so the saturation is left out.)
ReserveStream(d) ==
    LET p == PruneTerminalStreams(d)
    IN  [frontier |-> p.frontier, goaway |-> p.goaway, next |-> p.next + 2,
         streams  |-> [id \in DOMAIN p.streams \cup {p.next} |->
                           IF id = p.next THEN "AttachedToExchange" ELSE p.streams[id]]]

\* A stream that is no longer in the map is left alone by every goal.
AdvanceStream(d, id, Goal(_)) ==
    IF id \in DOMAIN d.streams
    THEN [d EXCEPT !.streams[id] = Goal(d.streams[id])]
    ELSE d

RequestCommitted(frontier) == "HalfClosedLocal"

ResponseHeadReady(frontier) ==
    IF frontier \in {"AttachedToExchange", "HalfClosedLocal"}
    THEN "ResponseHeadReady" ELSE frontier

ResponseBodyReady(frontier) ==
    IF frontier \in {"AttachedToExchange", "HalfClosedLocal", "ResponseHeadReady"}
    THEN "ResponseBodyReady" ELSE frontier

StreamClosed(frontier) == "Closed"

StreamReset(frontier) == "Reset"

MarkStreamRequestCommitted(d, id) == AdvanceStream(d, id, RequestCommitted)

MarkStreamResponseHeadReady(d, id) == AdvanceStream(d, id, ResponseHeadReady)

MarkStreamResponseBodyReady(d, id) == AdvanceStream(d, id, ResponseBodyReady)

MarkStreamClosed(d, id) == PruneTerminalStreams(AdvanceStream(d, id, StreamClosed))

\* Mutant: a reset of one stream resets the others too.
ResetEveryStream(d, id) ==
    PruneTerminalStreams([d EXCEPT !.streams = [i \in DOMAIN d.streams |-> "Reset"]])

MarkStreamReset(d, id) == PruneTerminalStreams(AdvanceStream(d, id, StreamReset))

\* A GOAWAY drains a session with live streams and closes one without; a
\* terminal session without live streams ends Closed whatever it was.
MarkGoaway(d) ==
    [d EXCEPT !.goaway   = TRUE,
              !.frontier = IF ActiveStreams(d) = {} THEN "Closed"
                           ELSE IF SessionTerminal(d.frontier) THEN d.frontier
                           ELSE "Draining"]

\* Every live stream is reset and stays in the map.
MarkConnectionFailed(d) ==
    [d EXCEPT !.frontier = "Failed",
              !.streams  = [id \in DOMAIN d.streams |->
                                IF StreamTerminal(d.streams[id])
                                THEN d.streams[id] ELSE "Reset"]]

MarkConnectionClosed(d) ==
    IF ActiveStreams(d) = {} THEN [d EXCEPT !.frontier = "Closed"]
    ELSE MarkConnectionFailed(d)

\* What sender.ready() failing does to the session.
ApplySessionError(d, kind) ==
    CASE kind = "reset"  -> d
      [] kind = "goaway" -> MarkGoaway(d)
      [] kind = "other"  -> MarkConnectionFailed(d)

\* What a failed request, or a response body that fails, does to it.
ApplyStreamError(d, id, kind) ==
    CASE kind = "reset"  -> MarkStreamReset(d, id)
      [] kind = "goaway" -> MarkGoaway(d)
      [] kind = "other"  -> MarkConnectionFailed(d)
=============================================================================
