--------------------------- MODULE Http1SenderPool ---------------------------
(***************************************************************************)
(* The outbound HTTP/1.1 engine (src/abi_impl/http/outbound_http1.rs): the *)
(* pool of idle connections, the lease that keeps a connection with its    *)
(* response body, and the retry of forward_serialized_via_sender_pool.     *)
(* The peer at the other end of a connection is modelled by what the       *)
(* engine can see of it: which requests reached it, what it has sent that  *)
(* is still unread, and whether it closed.  A response is its head         *)
(* followed by units of body.                                              *)
(***************************************************************************)
EXTENDS Integers, Sequences, FiniteSets

CONSTANTS Requests,     \* the requests that go through the pool
          PoolKeys,     \* the pool keys: scheme, authority and TLS settings
          MaxConns,     \* bound: connections open at the same time
          SenderPoolCapacity, \* sender_pool_capacity
          MaxUnits,     \* bound: units of body in one response
          PeerFramings, \* the framings peers use
          SendsInterim, \* whether peers send interim (1xx) responses
          None

Framings == {"None", "Fixed", "Chunked", "CloseDelimited"}

VARIABLES hotKey, hot, other, \* PlainHttp1SenderPool
          link,    \* connection -> what the engine can see of its peer
          stage,   \* where each request is
          poolKey, \* the request's pool key
          replays, \* whether its body is_retryable: not a stream
          conn,    \* the connection it holds, or None
          tries,   \* attempts so far
          sent,    \* how often the whole request reached a peer
          lease,   \* its PlainHttp1ResponseBody
          answer   \* the request whose response it was given, or None

pool == <<hotKey, hot, other>>
http1Vars == <<hotKey, hot, other, link, stage, poolKey, replays, conn, tries, sent, lease, answer>>

\* Connections are numbered, and a number is free again once it is dropped.
Conns == 1 .. MaxConns

Over == {"done", "failed"}

\* What the peer puts on the wire, each unit for the request it answers.
Unit(r, part) == [to |-> r, part |-> part, framing |-> "None", keep |-> TRUE, len |-> 0]

HeadUnit(r, framing, keep, len) ==
    [to |-> r, part |-> "head", framing |-> framing, keep |-> keep, len |-> len]

Units ==
    [to : Requests, part : {"interim", "head", "data", "end", "bad"}, framing : Framings,
     keep : BOOLEAN, len : 0 .. MaxUnits]

\* A connection: whether the peer still has it open, the requests that reached
\* the peer and are unanswered, and what it sent that nobody has read.
Links == [up : BOOLEAN, asked : Seq(Requests), wire : Seq(Units)]

Fresh == [up |-> TRUE, asked |-> <<>>, wire |-> <<>>]

Gone == [up |-> FALSE, asked |-> <<>>, wire |-> <<>>]

\* PlainHttp1BodyKind, where `left` is the remaining length of a Fixed body, and
\* may_reuse of the lease.
Leases == [framing : Framings, left : 0 .. MaxUnits, reuse : BOOLEAN]

NoLease == [framing |-> "None", left |-> 0, reuse |-> FALSE]

Http1TypeOK ==
    /\ hotKey \in PoolKeys \cup {None}
    /\ hot \in Seq(Conns)
    /\ other \in [PoolKeys -> Seq(Conns)]
    /\ link \in [Conns -> Links]
    /\ stage \in [Requests -> {"acquire", "connecting", "send", "head", "body"} \cup Over]
    /\ poolKey \in [Requests -> PoolKeys]
    /\ replays \in [Requests -> BOOLEAN]
    /\ conn \in [Requests -> Conns \cup {None}]
    /\ tries \in [Requests -> 1 .. 2]
    /\ sent \in [Requests -> 0 .. 2]
    /\ lease \in [Requests -> Leases]
    /\ answer \in [Requests -> Requests \cup {None}]

Http1Init ==
    /\ hotKey = None
    /\ hot = <<>>
    /\ other = [k \in PoolKeys |-> <<>>]
    /\ link = [c \in Conns |-> Gone]
    /\ stage = [r \in Requests |-> "acquire"]
    /\ poolKey \in [Requests -> PoolKeys]
    /\ replays \in [Requests -> BOOLEAN]
    /\ conn = [r \in Requests |-> None]
    /\ tries = [r \in Requests |-> 1]
    /\ sent = [r \in Requests |-> 0]
    /\ lease = [r \in Requests |-> NoLease]
    /\ answer = [r \in Requests |-> None]

----------------------------------------------------------------------------
(* PlainHttp1SenderPool.                                                   *)

Pooled(k) == IF hotKey = k THEN hot ELSE other[k]

AllPooled == {hot[i] : i \in DOMAIN hot} \cup
             UNION {{other[k][i] : i \in DOMAIN other[k]} : k \in PoolKeys}

Held == {conn[r] : r \in Requests} \ {None}

Pop(s) == SubSeq(s, 1, Len(s) - 1)

\* take: the connection returned last is the first to be used again.
Take(k) ==
    /\ Pooled(k) # <<>>
    /\ IF hotKey = k THEN hot' = Pop(hot) /\ UNCHANGED other
                     ELSE other' = [other EXCEPT ![k] = Pop(@)] /\ UNCHANGED hot
    /\ UNCHANGED hotKey

Limit == IF SenderPoolCapacity = 0 THEN 1 ELSE SenderPoolCapacity

\* put, once it has room: the first key that ever returns a connection becomes
\* the hot one.
Put(k, c) ==
    \/ /\ hotKey \in {k, None}
       /\ hotKey' = k
       /\ hot' = Append(hot, c)
       /\ UNCHANGED other
    \/ /\ hotKey \notin {k, None}
       /\ other' = [other EXCEPT ![k] = Append(@, c)]
       /\ UNCHANGED <<hotKey, hot>>

\* Dropping a connection closes it.
Drop(c) == link' = [link EXCEPT ![c] = Gone]

\* PlainHttp1SenderLease::release, with the connection left in state l: one that
\* may not be reused, or that put has no room for, is closed.
Release(k, c, mayReuse, l) ==
    IF mayReuse /\ (hotKey = None \/ Len(Pooled(k)) < Limit)
    THEN Put(k, c) /\ link' = [link EXCEPT ![c] = l]
    ELSE Drop(c) /\ UNCHANGED pool

----------------------------------------------------------------------------
(* forward_serialized_via_sender_pool, up to the response head.            *)

\* acquire_plain_http1_connection, a pool hit.
TakePooled(r) ==
    /\ stage[r] = "acquire"
    /\ Take(poolKey[r])
    /\ conn' = [conn EXCEPT ![r] = Pooled(poolKey[r])[Len(Pooled(poolKey[r]))]]
    /\ stage' = [stage EXCEPT ![r] = "send"]
    /\ UNCHANGED <<link, poolKey, replays, tries, sent, lease, answer>>

\* acquire_plain_http1_connection, a miss: the pool's lock is let go.
TakeMisses(r) ==
    /\ stage[r] = "acquire"
    /\ Pooled(poolKey[r]) = <<>>
    /\ stage' = [stage EXCEPT ![r] = "connecting"]
    /\ UNCHANGED <<pool, link, poolKey, replays, conn, tries, sent, lease, answer>>

Free == Conns \ (AllPooled \cup Held)

Connect(r) ==
    /\ stage[r] = "connecting"
    /\ \E c \in Free :
          /\ \A d \in Free : c <= d
          /\ conn' = [conn EXCEPT ![r] = c]
          /\ link' = [link EXCEPT ![c] = Fresh]
    /\ stage' = [stage EXCEPT ![r] = "send"]
    /\ UNCHANGED <<pool, poolKey, replays, tries, sent, lease, answer>>

ConnectFails(r) ==
    /\ stage[r] = "connecting"
    /\ stage' = [stage EXCEPT ![r] = "failed"]
    /\ UNCHANGED <<pool, link, poolKey, replays, conn, tries, sent, lease, answer>>

\* A request that ends and takes its connection with it.
FailWithConnection(r) ==
    /\ Drop(conn[r])
    /\ conn' = [conn EXCEPT ![r] = None]
    /\ stage' = [stage EXCEPT ![r] = "failed"]
    /\ lease' = [lease EXCEPT ![r] = NoLease]
    /\ UNCHANGED <<pool, poolKey, replays, tries, sent, answer>>

\* make_request fails: the error leaves the function with the connection.
MakeRequestFails(r) ==
    /\ stage[r] = "send"
    /\ FailWithConnection(r)

\* The whole request is written.
SendRequest(r) ==
    /\ stage[r] = "send"
    /\ link[conn[r]].up
    /\ link' = [link EXCEPT ![conn[r]].asked = Append(@, r)]
    /\ sent' = [sent EXCEPT ![r] = @ + 1]
    /\ stage' = [stage EXCEPT ![r] = "head"]
    /\ UNCHANGED <<pool, poolKey, replays, conn, tries, lease, answer>>

\* Why an attempt fails: the peer is gone, the body's source fails, or what
\* comes back is not a response head.
AttemptError(r) ==
    LET l == link[conn[r]]
    IN  \/ stage[r] = "send" /\ (~l.up \/ ~replays[r])
        \/ stage[r] = "head" /\ l.wire = <<>> /\ ~l.up
        \/ stage[r] = "head" /\ l.wire # <<>> /\ Head(l.wire).part \notin {"head", "interim"}

\* Mutant: a request is tried again whatever its body is.
RetryStreams(r) ==
    /\ AttemptError(r)
    /\ tries[r] = 1
    /\ tries' = [tries EXCEPT ![r] = 2]
    /\ Drop(conn[r])
    /\ conn' = [conn EXCEPT ![r] = None]
    /\ stage' = [stage EXCEPT ![r] = "acquire"]
    /\ UNCHANGED <<pool, poolKey, replays, sent, lease, answer>>

\* The connection is dropped, and a request whose body can be sent again is
\* tried once more, on a pooled connection if there is one.
RetryAttempt(r) ==
    /\ AttemptError(r)
    /\ replays[r] /\ tries[r] = 1
    /\ tries' = [tries EXCEPT ![r] = 2]
    /\ Drop(conn[r])
    /\ conn' = [conn EXCEPT ![r] = None]
    /\ stage' = [stage EXCEPT ![r] = "acquire"]
    /\ UNCHANGED <<pool, poolKey, replays, sent, lease, answer>>

AttemptFails(r) ==
    /\ AttemptError(r)
    /\ ~replays[r] \/ tries[r] = 2
    /\ FailWithConnection(r)

\* parse_response_head on a response without a body (to HEAD, 1xx, 204, 304 or
\* of length zero): a connection that stays open goes back to the pool at once.
ReadHeadOnly(r) ==
    /\ stage[r] = "head"
    /\ link[conn[r]].wire # <<>>
    /\ LET l == link[conn[r]]
           unit == Head(l.wire)
       IN  /\ unit.part \in {"interim", "head"} /\ unit.framing = "None"
           /\ answer' = [answer EXCEPT ![r] = unit.to]
           /\ Release(poolKey[r], conn[r], unit.keep, [l EXCEPT !.wire = Tail(@)])
    /\ conn' = [conn EXCEPT ![r] = None]
    /\ stage' = [stage EXCEPT ![r] = "done"]
    /\ UNCHANGED <<poolKey, replays, tries, sent, lease>>

\* parse_response_head on a response with a body: the connection moves into
\* the lease of the body.
ReadHead(r) ==
    /\ stage[r] = "head"
    /\ link[conn[r]].wire # <<>>
    /\ LET unit == Head(link[conn[r]].wire)
       IN  /\ unit.part = "head" /\ unit.framing # "None"
           /\ answer' = [answer EXCEPT ![r] = unit.to]
           /\ lease' = [lease EXCEPT ![r] =
                             [framing |-> unit.framing,
                              left  |-> IF unit.framing = "Fixed" THEN unit.len ELSE 0,
                              reuse |-> unit.keep /\ unit.framing # "CloseDelimited"]]
    /\ link' = [link EXCEPT ![conn[r]].wire = Tail(@)]
    /\ stage' = [stage EXCEPT ![r] = "body"]
    /\ UNCHANGED <<pool, poolKey, replays, conn, tries, sent>>

----------------------------------------------------------------------------
(* PlainHttp1ResponseBody::pull_next.                                      *)

Readable(r) == stage[r] = "body" /\ link[conn[r]].wire # <<>>

Part(r) == Head(link[conn[r]].wire).part

\* Bytes that the framing takes for body, but for the last of a Fixed body.
PullChunk(r) ==
    /\ Readable(r)
    /\ \/ lease[r].framing = "Fixed" /\ lease[r].left > 1
       \/ lease[r].framing = "Chunked" /\ Part(r) = "data"
       \/ lease[r].framing = "CloseDelimited"
    /\ lease' = [lease EXCEPT ![r].left = IF lease[r].framing = "Fixed" THEN @ - 1 ELSE @]
    /\ link' = [link EXCEPT ![conn[r]].wire = Tail(@)]
    /\ UNCHANGED <<pool, stage, poolKey, replays, conn, tries, sent, answer>>

\* The response has been read to its end: its lease is released.
FinishBody(r, l) ==
    /\ Release(poolKey[r], conn[r], lease[r].reuse, l)
    /\ conn' = [conn EXCEPT ![r] = None]
    /\ lease' = [lease EXCEPT ![r] = NoLease]
    /\ stage' = [stage EXCEPT ![r] = "done"]
    /\ UNCHANGED <<poolKey, replays, tries, sent, answer>>

\* The last declared byte, or the empty line after the last chunk.
PullLast(r) ==
    /\ Readable(r)
    /\ \/ lease[r].framing = "Fixed" /\ lease[r].left = 1
       \/ lease[r].framing = "Chunked" /\ Part(r) = "end"
    /\ FinishBody(r, [link[conn[r]] EXCEPT !.wire = Tail(@)])

AtEof(r) == stage[r] = "body" /\ link[conn[r]].wire = <<>> /\ ~link[conn[r]].up

\* The peer's close is the end of a CloseDelimited body.
PullEof(r) ==
    /\ AtEof(r) /\ lease[r].framing = "CloseDelimited"
    /\ FinishBody(r, link[conn[r]])

\* The peer closes before the end of any other body, which makes the lease
\* dirty; or a chunk size, terminator or trailer does not parse, and the body is
\* Done without a release.  The lease is dropped with the connection in it.
PullFails(r) ==
    /\ \/ AtEof(r) /\ lease[r].framing # "CloseDelimited"
       \/ Readable(r) /\ lease[r].framing = "Chunked" /\ Part(r) \notin {"data", "end"}
    /\ FailWithConnection(r)

\* Mutant: a body that is dropped releases its lease.
CancelReleases(r) ==
    /\ stage[r] \in {"head", "body"}
    /\ Release(poolKey[r], conn[r], TRUE, link[conn[r]])
    /\ conn' = [conn EXCEPT ![r] = None]
    /\ stage' = [stage EXCEPT ![r] = "failed"]
    /\ lease' = [lease EXCEPT ![r] = NoLease]
    /\ UNCHANGED <<poolKey, replays, tries, sent, answer>>

\* The client goes away: the future, or the body with its lease, is dropped
\* where it awaits.
Cancel(r) ==
    \/ /\ stage[r] \in {"send", "head", "body"}
       /\ FailWithConnection(r)
    \/ /\ stage[r] = "connecting"
       /\ stage' = [stage EXCEPT ![r] = "failed"]
       /\ UNCHANGED <<pool, link, poolKey, replays, conn, tries, sent, lease, answer>>

----------------------------------------------------------------------------
(* The peer, as the engine meets it.                                       *)

\* The units that follow a head.  A chunked body may not parse.
BodyUnits(r, framing, len) ==
    LET data == [i \in 1 .. len |-> Unit(r, "data")]
    IN  CASE framing = "Chunked" -> {Append(data, Unit(r, "end")), Append(data, Unit(r, "bad"))}
          [] framing = "None"    -> {<<>>}
          [] OTHER               -> {data}

\* The peer answers the oldest request, after an interim response if it sends
\* those.  Its head declares the framing and the length it then keeps to.
PeerReplies(c) ==
    /\ link[c].up /\ link[c].asked # <<>>
    /\ LET r == Head(link[c].asked)
           interims == IF SendsInterim THEN {<<>>, <<Unit(r, "interim")>>} ELSE {<<>>}
       IN  \E framing \in PeerFramings, keep \in BOOLEAN, len \in 0 .. MaxUnits,
              interim \in interims :
              /\ framing = "None" => len = 0
              /\ framing = "Fixed" => len > 0
              /\ \E units \in BodyUnits(r, framing, len) :
                    link' = [link EXCEPT
                        ![c].wire = @ \o interim \o <<HeadUnit(r, framing, keep, len)>> \o units,
                        ![c].asked = Tail(@)]
    /\ UNCHANGED <<pool, stage, poolKey, replays, conn, tries, sent, lease, answer>>

\* The peer, or the network, closes the connection at any point of what it sends.
PeerCloses(c) ==
    /\ link[c].up
    /\ \E n \in 0 .. Len(link[c].wire) :
          link' = [link EXCEPT ![c].up = FALSE, ![c].wire = SubSeq(@, 1, n)]
    /\ UNCHANGED <<pool, stage, poolKey, replays, conn, tries, sent, lease, answer>>

----------------------------------------------------------------------------
RequestStep(r) ==
    \/ TakePooled(r)
    \/ TakeMisses(r)
    \/ Connect(r)
    \/ ConnectFails(r)
    \/ MakeRequestFails(r)
    \/ SendRequest(r)
    \/ RetryAttempt(r)
    \/ AttemptFails(r)
    \/ ReadHeadOnly(r)
    \/ ReadHead(r)
    \/ PullChunk(r)
    \/ PullLast(r)
    \/ PullEof(r)
    \/ PullFails(r)
    \/ Cancel(r)

Http1Next ==
    \/ \E r \in Requests : RequestStep(r)
    \/ \E c \in Conns : PeerReplies(c) \/ PeerCloses(c)

Http1Spec == Http1Init /\ [][Http1Next]_http1Vars

----------------------------------------------------------------------------
(* Properties.                                                             *)

\* A pooled connection is at a message boundary: no request on it is unanswered
\* and nothing of a response is unread, whatever the peer declared, where it
\* closed and where clients went away ("Return connections to the pool only
\* after the full message boundary is proven"); and it is in nobody's hands.  So
\* no two requests share a connection, and the response a request is given is
\* the answer to that request.
PooledAtBoundary ==
    /\ \A c \in AllPooled : link[c].asked = <<>> /\ link[c].wire = <<>>
    /\ AllPooled \cap Held = {}
    /\ \A r, q \in Requests : conn[r] # None /\ conn[r] = conn[q] => r = q
    /\ \A r \in Requests : answer[r] \in {r, None}

\* A request whose body is a stream reaches a peer at most once, as the stream
\* cannot be read again; any other at most twice.
SentAtMost == \A r \in Requests : sent[r] <= (IF replays[r] THEN 2 ELSE 1)
=============================================================================
