--------------------------- MODULE Http3SessionDag ---------------------------
(***************************************************************************)
(* The bookkeeping of one upstream HTTP/3 session: the struct              *)
(* Http3UpstreamSessionDagState of src/abi_impl/http3/upstream.rs, read    *)
(* and written under the session's mutex.  A dag is a record of the        *)
(* session frontier, whether a GOAWAY was recorded, and the frontier of    *)
(* each stream in the map.  Streams are numbered by QUIC, a new number for *)
(* each; as a request opens one, a stream is named here by its request.    *)
(***************************************************************************)
EXTENDS Integers, FiniteSets

\* Http3UpstreamSession::new runs through the earlier frontiers before the
\* session is shared.
SessionFrontiers == {"Open", "Draining", "Closed", "Failed"}

\* RequestBodyOpen, which only records that a body was sent, is taken with
\* RequestCommitted.
StreamFrontiers == {"AttachedToExchange", "RequestCommitted", "ResponseHeadReady",
                    "ResponseBodyReady", "Closed", "Reset"}

SessionTerminal(frontier) == frontier \in {"Closed", "Failed"}

StreamTerminal(frontier) == frontier \in {"Closed", "Reset"}

\* What classify_http3_error reports: the end of the QUIC connection, which is
\* recorded as a GOAWAY, or anything else.  It never reports a reset.
ErrorKinds == {"goaway", "other"}

NewDag == [frontier |-> "Open", goaway |-> FALSE, streams |-> [r \in {} |-> "Closed"]]

IsDag(d, R) ==
    /\ DOMAIN d.streams \subseteq R
    /\ d \in [frontier : SessionFrontiers, goaway : BOOLEAN,
              streams : [DOMAIN d.streams -> StreamFrontiers]]

CanAcceptNewStreams(d) == d.frontier = "Open" /\ ~d.goaway

HasActiveStreams(d) == \E r \in DOMAIN d.streams : ~StreamTerminal(d.streams[r])

ShouldRetain(d) == ~SessionTerminal(d.frontier) \/ HasActiveStreams(d)

ActiveStreamCount(d) == Cardinality(DOMAIN d.streams)

\* The session is not asked whether it still accepts streams.
AttachStream(d, r) ==
    [d EXCEPT !.streams = [q \in DOMAIN d.streams \cup {r} |->
                               IF q = r THEN "AttachedToExchange" ELSE d.streams[q]]]

\* A stream that is no longer in the map is left alone; one that is there moves
\* whatever its frontier was.
SetStream(d, r, frontier) ==
    IF r \in DOMAIN d.streams THEN [d EXCEPT !.streams[r] = frontier] ELSE d

RetainLive(d) ==
    [d EXCEPT !.streams = [r \in {q \in DOMAIN d.streams : ~StreamTerminal(d.streams[q])}
                               |-> d.streams[r]]]

MarkStreamRequestCommitted(d, r) == SetStream(d, r, "RequestCommitted")

MarkStreamResponseHeadReady(d, r) == SetStream(d, r, "ResponseHeadReady")

MarkStreamResponseBodyReady(d, r) == SetStream(d, r, "ResponseBodyReady")

MarkStreamClosed(d, r) ==
    LET n == RetainLive(SetStream(d, r, "Closed"))
    IN  [n EXCEPT !.frontier = IF n.frontier = "Draining" /\ DOMAIN n.streams = {}
                               THEN "Closed" ELSE n.frontier]

MarkStreamReset(d, r) == RetainLive(SetStream(d, r, "Reset"))

MarkGoaway(d) ==
    [frontier |-> IF SessionTerminal(d.frontier) THEN d.frontier ELSE "Draining",
     goaway   |-> TRUE,
     streams  |-> d.streams]

MarkConnectionClosed(d) ==
    [d EXCEPT !.frontier =
        CASE d.frontier = "Draining" /\ DOMAIN d.streams = {} -> "Closed"
          [] d.frontier = "Open" -> "Draining"
          [] OTHER -> d.frontier]

MarkConnectionFailed(d) ==
    [d EXCEPT !.frontier = "Failed",
              !.streams  = [r \in DOMAIN d.streams |->
                                IF StreamTerminal(d.streams[r]) THEN d.streams[r] ELSE "Reset"]]

\* apply_session_error; apply_stream_error does the same, as no error it is
\* given is a reset.
ApplyError(d, kind) ==
    CASE kind = "goaway" -> MarkGoaway(d)
      [] kind = "other"  -> MarkConnectionFailed(d)
=============================================================================
