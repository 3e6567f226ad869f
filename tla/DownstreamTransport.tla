------------------------- MODULE DownstreamTransport -------------------------
(***************************************************************************)
(* A downstream connection in the hands of a program: tcp::stream::* and   *)
(* tls::session::* on the reserved downstream handle (transport/tcp.rs and *)
(* tls.rs), the hand-over of the connection to the HTTP runtime            *)
(* (http/state.rs, http_plane/proxy_path.rs), and the cache through which  *)
(* one connection's TLS configuration is reused by later ones, which       *)
(* loading a program clears (runtime.rs).                                  *)
(*                                                                         *)
(* The client's bytes are the items of its script, in order; item Hello is *)
(* its TLS client hello, and what follows a hello is sent only once the    *)
(* handshake is over.  A host call is one action, except for the TLS       *)
(* handshake, whose take, completion and cache insertion are separate:     *)
(* other connections and program loads run between them.  The host calls   *)
(* of one program run one at a time; which ones it makes is left open.     *)
(* The policy a program gives its TLS sessions is named by its version.    *)
(***************************************************************************)
EXTENDS TransportFlows, Sequences, FiniteSets

CONSTANTS
    Conns,              \* connections
    Scripts,            \* what a client may send
    Goals,              \* listener goals: "none", "http" or "https"
    Chunks,             \* max_bytes arguments of reads and peeks
    MaxProgram,         \* bound: program versions 1..MaxProgram
    ConfiguresFirst     \* TRUE: programs configure a session that needs it
                        \* before they handshake

ASSUME TransportAssumption == Scripts \subseteq Seq(Nat) /\ Chunks \subseteq Nat

Hello == 0

NoOp == [step |-> "none", policy |-> DefaultPolicy, config |-> DefaultPolicy]

VARIABLES
    program,    \* active_program
    loading,    \* version whose load has cleared the cache, or 0
    cache,      \* downstream_tls_configuration_cache, for the one hello
    conn        \* per connection: its transport state

transportVars == <<program, loading, cache, conn>>

-----------------------------------------------------------------------------
(* The transport state of one connection (TransportState).                 *)

Fresh(s, g) ==
    [state |-> "new", version |-> 0, goal |-> g, script |-> s,
     sent |-> 0, fin |-> FALSE, pos |-> 0,
     tcpIo |-> FALSE, start |-> FALSE, tlsIo |-> FALSE, prepared |-> None,
     preread |-> <<>>, eof |-> FALSE, accessed |-> FALSE, carrier |-> FALSE,
     websocket |-> FALSE,
     flow |-> IdleTcpFlow, tls |-> AbsentTlsFlow, op |-> NoOp, got |-> <<>>]

Running(c) == conn[c].state = "running" /\ conn[c].op = NoOp

\* Bytes in the socket that nobody has read yet.
Waiting(k) == SubSeq(k.script, k.pos + 1, k.sent)

HasIo(k) == k.tcpIo \/ k.tlsIo

\* What take_downstream_preread_bytes and the read of the socket after it
\* can return: the preread bytes first, then n bytes more.
TakePreread(k, max) == IF max < Len(k.preread) THEN max ELSE Len(k.preread)

\* The numbers of bytes one read of the socket can return, at most max: at
\* least one, or none at the end of the stream.
SocketReads(k, max) ==
    IF Len(Waiting(k)) > 0
    THEN 1..(IF max < Len(Waiting(k)) THEN max ELSE Len(Waiting(k)))
    ELSE IF k.fin THEN {0} ELSE {}

\* read_attached_downstream_tcp and _tls: the end of the stream is noted.
ReadSocket(k, n) == [k EXCEPT !.pos = @ + n, !.eof = (n = 0)]

MarkAttachedFailed(k) ==
    [k EXCEPT !.flow = FlowMarkFailed(@), !.tls = TlsMarkFailed(@),
              !.start = FALSE, !.tlsIo = FALSE, !.tcpIo = FALSE,
              !.preread = <<>>]

-----------------------------------------------------------------------------
(* Clients, listeners and program loads.                                   *)

TransportInit ==
    /\ program = 1
    /\ loading = 0
    /\ cache = None
    /\ conn \in [Conns -> {Fresh(s, g) : s \in Scripts, g \in Goals}]

\* A listener hands the connection to the program loaded at this moment.
Serve(c) ==
    /\ conn[c].state = "new"
    /\ conn' = [conn EXCEPT ![c].state = "running", ![c].version = program,
                            ![c].tcpIo = TRUE, ![c].flow = DownstreamReady]
    /\ UNCHANGED <<program, loading, cache>>

\* The client sends its next item.
ClientSend(c) ==
    LET k == conn[c] IN
    /\ k.sent < Len(k.script)
    /\ \A i \in 1..k.sent : k.script[i] = Hello => k.tls.complete
    /\ ~k.fin
    /\ conn' = [conn EXCEPT ![c].sent = @ + 1]
    /\ UNCHANGED <<program, loading, cache>>

ClientFin(c) ==
    /\ ~conn[c].fin
    /\ conn' = [conn EXCEPT ![c].fin = TRUE]
    /\ UNCHANGED <<program, loading, cache>>

\* apply_program: the TLS configuration cache is cleared ...
ClearConfigurations ==
    /\ loading = 0
    /\ program < MaxProgram
    /\ loading' = program + 1
    /\ cache' = None
    /\ UNCHANGED <<program, conn>>

\* ... and then the new program replaces the old one.
StoreProgram ==
    /\ loading # 0
    /\ program' = loading
    /\ loading' = 0
    /\ UNCHANGED <<cache, conn>>

\* Every host call on the downstream handle notes the access.
HostCall(c, k) ==
    /\ conn' = [conn EXCEPT ![c] = [k EXCEPT !.accessed = TRUE]]
    /\ UNCHANGED <<program, loading, cache>>

-----------------------------------------------------------------------------
(* tcp::stream::* on the downstream handle.                                *)

\* tcp::stream::read and read_binary: the preread bytes, and when they are
\* fewer than asked for, a read of the plaintext or raw socket.
Read(c) ==
    /\ Running(c)
    /\ HasIo(conn[c])
    /\ \E max \in Chunks :
        LET k == [conn[c] EXCEPT !.flow = FlowNoteRead(@)]
            p == TakePreread(k, max)
            j == [k EXCEPT !.preread = SubSeq(k.preread, p + 1, Len(k.preread)),
                           !.got = @ \o SubSeq(k.preread, 1, p)]
        IN \/ p = max /\ HostCall(c, j)
           \/ /\ p < max
              /\ \E n \in SocketReads(k, max - p) :
                   HostCall(c, [ReadSocket(j, n) EXCEPT
                                  !.got = @ \o SubSeq(Waiting(k), 1, n)])

\* tcp::stream::peek and peek_binary: what is read joins the preread buffer.
Peek(c) ==
    /\ Running(c)
    /\ HasIo(conn[c])
    /\ \E max \in Chunks :
        LET k == conn[c]
            p == TakePreread(k, max)
        IN \/ (p = max \/ (k.eof /\ k.preread = <<>>)) /\ HostCall(c, k)
           \/ /\ p < max /\ ~(k.eof /\ k.preread = <<>>)
              /\ \E n \in SocketReads(k, max - p) :
                   HostCall(c, [ReadSocket(k, n) EXCEPT
                                  !.preread = @ \o SubSeq(Waiting(k), 1, n)])

\* tcp::stream::write and write_binary; refused while a client hello waits.
Write(c) ==
    /\ Running(c)
    /\ HasIo(conn[c])
    /\ HostCall(c, [conn[c] EXCEPT !.flow = FlowNoteWrite(@)])

\* A read, peek or write that fails drops the transport.
IoFails(c) ==
    /\ Running(c)
    /\ HasIo(conn[c])
    /\ HostCall(c, MarkAttachedFailed(conn[c]))

\* Mutant: the end of the socket is the end of the stream.
EofOfSocket(k) == k.eof

\* tcp::stream::eof.
StreamEof(k) == k.eof /\ k.preread = <<>>

\* tcp::stream::close.
Close(c) ==
    /\ Running(c)
    /\ HostCall(c, [conn[c] EXCEPT !.tcpIo = FALSE, !.tlsIo = FALSE,
                      !.start = FALSE, !.preread = <<>>, !.eof = TRUE,
                      !.tls = TlsMarkClosed(@), !.flow = FlowMarkClosed(@)])

-----------------------------------------------------------------------------
(* tls::session::* on the downstream handle.                               *)

\* cached_downstream_configuration: the policy and the server config kept for
\* the same client hello.
RestoreCached(k) ==
    IF cache = None THEN [k EXCEPT !.prepared = None]
    ELSE [k EXCEPT !.tls = TlsRestore(@, Get(cache).policy),
                   !.prepared = Some(Get(cache).config)]

\* tls::session::from_socket, when the connection is raw: the acceptor reads
\* the preread bytes and then the socket up to the client hello, and a cached
\* configuration of the same hello is restored.
FromSocket(c) ==
    LET k == conn[c]
        input == k.preread \o Waiting(k)
        j == [k EXCEPT !.tcpIo = FALSE, !.preread = <<>>, !.start = TRUE,
                       !.got = Append(@, Hello),
                       !.pos = @ + (1 - Len(k.preread)),
                       !.tls = TlsObserveClientHello(@)]
    IN
    /\ Running(c)
    /\ k.tcpIo /\ ~k.tlsIo
    /\ input # <<>> /\ input[1] = Hello
    /\ HostCall(c, RestoreCached(j))

\* The bytes are no client hello: the acceptor has consumed some of them, and
\* the raw socket goes back with what is left of the preread prefix.
FromSocketRejects(c) ==
    LET k == conn[c]
        p == Len(k.preread)
    IN
    /\ Running(c)
    /\ k.tcpIo /\ ~k.tlsIo
    /\ \/ /\ p > 0 /\ k.preread[1] # Hello
          /\ \E n \in 1..p :
               HostCall(c, [k EXCEPT !.preread = SubSeq(@, n + 1, p),
                                     !.got = @ \o SubSeq(k.preread, 1, n)])
       \/ /\ p = 0
          /\ Waiting(k) # <<>> => Waiting(k)[1] # Hello
          /\ \E n \in SocketReads(k, Len(k.script)) :
               HostCall(c, [k EXCEPT !.pos = @ + n,
                                     !.got = @ \o SubSeq(Waiting(k), 1, n)])

\* with_configurable_session_mut: a session is configurable until its
\* handshake is complete.
Configurable(k) == (k.tcpIo \/ k.start) /\ ~k.tls.complete

\* Mutant: the prepared server config outlives the change.
ConfigureKeepsPrepared(c) ==
    LET k == conn[c] IN
    /\ Running(c)
    /\ Configurable(k)
    /\ HostCall(c, [k EXCEPT !.tls = TlsSetPolicy(@, k.version)])

\* tls::session::set_*: a change drops the prepared server config.
Configure(c) ==
    LET k == conn[c] IN
    /\ Running(c)
    /\ Configurable(k)
    /\ HostCall(c, [k EXCEPT !.tls = TlsSetPolicy(@, k.version),
                             !.prepared = None])

\* tls::session::handshake takes the client hello and the prepared server
\* config, or builds one from the session's policy.
HandshakeBegin(c) ==
    LET k == conn[c] IN
    /\ Running(c)
    /\ k.tls.present /\ ~k.tls.complete
    /\ k.start
    /\ ConfiguresFirst => k.tls.conf # "needs"
    /\ HostCall(c, [k EXCEPT !.start = FALSE, !.prepared = None,
                      !.op = [step |-> "handshake", policy |-> k.tls.policy,
                              config |-> IF k.prepared # None
                                         THEN Get(k.prepared) ELSE k.tls.policy]])

\* The server config cannot be built (a certificate without its key): the
\* client hello is already taken, and the connection goes with it.
BuildConfigFails(c) ==
    LET k == conn[c] IN
    /\ Running(c)
    /\ k.tls.present /\ ~k.tls.complete
    /\ k.start /\ k.prepared = None
    /\ HostCall(c, [k EXCEPT !.start = FALSE])

HandshakeEnd(c) ==
    LET k == conn[c]
        flight(r, v) == [k EXCEPT !.flow = FlowMarkConnected(@), !.eof = FALSE,
                                  !.tls = TlsNoteServerFlight(@, r, v)]
    IN
    /\ conn[c].op.step = "handshake"
    /\ \/ \E r, v \in BOOLEAN :
            HostCall(c, [flight(r, v) EXCEPT !.tls = TlsMarkComplete(@),
                                !.tlsIo = TRUE, !.op.step = "cache"])
       \/ \E r, v \in BOOLEAN :             \* ALPN mismatch
            HostCall(c, [flight(r, v) EXCEPT !.tls = TlsMarkFailed(@),
                                !.op = NoOp])
       \/ HostCall(c, [k EXCEPT !.flow = FlowMarkFailed(@),
                                !.tls = TlsMarkFailed(@), !.op = NoOp])

\* cache_downstream_server_config, after the transport lock is dropped.
CacheConfig(c) ==
    LET op == conn[c].op IN
    /\ op.step = "cache"
    /\ cache' = Some([policy |-> op.policy, config |-> op.config])
    /\ conn' = [conn EXCEPT ![c].op = NoOp]
    /\ UNCHANGED <<program, loading>>

-----------------------------------------------------------------------------
(* The hand-over of the connection to the HTTP runtime.                    *)

\* http::downstream::attach_transport: schedule_downstream_http_handoff and
\* take_promoted_downstream_transport.  HTTP reads the preread bytes first.
Handoff(c) ==
    LET k == conn[c] IN
    /\ Running(c)
    /\ HasIo(k) /\ ~k.start /\ ~k.carrier
    /\ conn' = [conn EXCEPT ![c] =
                  [k EXCEPT !.tcpIo = FALSE, !.tlsIo = FALSE, !.carrier = TRUE,
                            !.preread = <<>>, !.got = @ \o k.preread]]
    /\ UNCHANGED <<program, loading, cache>>

\* websocket::connection::* on the downstream handle:
\* take_downstream_websocket_transport.  Over TLS the server handshake reads
\* the preread bytes first; over TCP they were already taken, and dropped,
\* while looking for a TLS stream.
WebSocketAccept(c) ==
    LET k == conn[c]
        j == [k EXCEPT !.tcpIo = FALSE, !.tlsIo = FALSE, !.preread = <<>>,
                       !.got = IF k.tlsIo THEN @ \o k.preread ELSE @]
    IN
    /\ Running(c)
    /\ HasIo(k) /\ ~k.websocket
    /\ conn' \in
        {[conn EXCEPT ![c] = r] : r \in
           {[j EXCEPT !.websocket = TRUE, !.flow = FlowMarkConnected(@)],
            [j EXCEPT !.flow = FlowMarkFailed(@),
                      !.tls = IF k.tls.present THEN TlsMarkFailed(@) ELSE @]}}
    /\ UNCHANGED <<program, loading, cache>>

\* downstream_http_auto_promotion.
AutoPromotion(k) ==
    IF k.carrier \/ k.goal = "none" THEN "none"
    ELSE IF \/ k.accessed
            \/ FlowObservedIo(k.flow)
            \/ k.preread # <<>>
            \/ k.start \/ k.tlsIo
            \/ ~k.tcpIo
         THEN "blocked" ELSE "eligible"

\* auto_promote_downstream_listener_goal_into_http_request: an https goal
\* first runs the handshake with the listener's own server config.
AutoPromote(c) ==
    LET k == conn[c]
        hello == [k EXCEPT !.tcpIo = FALSE, !.tls = TlsObserveClientHello(@)]
    IN
    /\ Running(c)
    /\ AutoPromotion(k) = "eligible"
    /\ conn' \in
        {[conn EXCEPT ![c] = r] : r \in
           IF k.goal = "http"
           THEN {[k EXCEPT !.tcpIo = FALSE, !.carrier = TRUE]}
           ELSE IF Waiting(k) # <<>> /\ Waiting(k)[1] = Hello
           THEN {[hello EXCEPT !.carrier = TRUE, !.eof = FALSE,
                     !.pos = @ + 1, !.got = Append(@, Hello),
                     !.flow = FlowMarkConnected(@),
                     !.tls = TlsMarkComplete(TlsNoteServerFlight(@, FALSE, FALSE))],
                 [hello EXCEPT !.pos = @ + 1, !.got = Append(@, Hello),
                     !.flow = FlowMarkFailed(@), !.tls = TlsMarkFailed(@)]}
           ELSE IF Waiting(k) # <<>> \/ k.fin
           THEN {[k EXCEPT !.tcpIo = FALSE, !.flow = FlowMarkFailed(@),
                           !.tls = TlsMarkFailed(@)]}
           ELSE {}}
    /\ UNCHANGED <<program, loading, cache>>

\* The HTTP server, or the WebSocket session, reads on from the stream.
HttpReads(c) ==
    LET k == conn[c] IN
    /\ k.carrier \/ k.websocket
    /\ Waiting(k) # <<>>
    /\ conn' = [conn EXCEPT ![c].pos = @ + 1,
                            ![c].got = Append(@, Waiting(k)[1])]
    /\ UNCHANGED <<program, loading, cache>>

\* A step of the client, of the program or of HTTP on one connection.
TransportStep(c) ==
    \/ Serve(c) \/ ClientSend(c) \/ ClientFin(c)
    \/ Read(c) \/ Peek(c) \/ Write(c) \/ IoFails(c) \/ Close(c)
    \/ FromSocket(c) \/ FromSocketRejects(c) \/ Configure(c)
    \/ HandshakeBegin(c) \/ BuildConfigFails(c) \/ HandshakeEnd(c)
    \/ CacheConfig(c)
    \/ Handoff(c) \/ WebSocketAccept(c) \/ AutoPromote(c) \/ HttpReads(c)

TransportNext ==
    \/ ClearConfigurations \/ StoreProgram
    \/ \E c \in Conns : TransportStep(c)

TransportSpec == TransportInit /\ [][TransportNext]_transportVars

-----------------------------------------------------------------------------
(* Properties.                                                             *)

\* A connection that still has its transport, or whose transport HTTP or a
\* WebSocket session over TLS took.
Attached(k) ==
    HasIo(k) \/ k.start \/ k.op # NoOp \/ k.carrier
        \/ (k.websocket /\ k.tls.complete)

\* However peeks, reads, a TLS acceptor and an HTTP hand-over interleave,
\* what they were given followed by what the preread buffer holds is exactly
\* what was taken from the socket: no byte is lost, repeated or reordered.  And
\* tcp::stream::eof answers true only when the client has finished and every
\* byte it sent has been handed out.  A WebSocket session accepted over plain
\* TCP is not covered: it drops what was peeked.
BytesInOrder ==
    \A c \in Conns : LET k == conn[c] IN
        /\ Attached(k) => k.got \o k.preread = SubSeq(k.script, 1, k.pos)
        /\ (HasIo(k) \/ k.start) /\ StreamEof(k)
             => k.fin /\ k.pos = k.sent /\ k.got = SubSeq(k.script, 1, k.sent)

\* A server config that skips being built (restored from the cache, taken for
\* a handshake or put in the cache) was built from the very policy the session
\* shows the program: a tls::session::set_* call never leaves a stale one.
PreparedMatchesPolicy ==
    /\ \A e \in cache : e.config = e.policy
    /\ \A c \in Conns : LET k == conn[c] IN
        /\ \A p \in k.prepared : p = k.tls.policy
        /\ k.op # NoOp => k.op.config = k.op.policy /\ k.op.policy = k.tls.policy

\* For programs that configure every session that needs it before they
\* handshake: the configuration a session is restored with is the one its own
\* program would set, so skipping the tls::session::set_* calls changes
\* nothing (tests/proxy_tests/http.rs, "no-op").
RestoredIsNoOp ==
    \A c \in Conns : conn[c].tls.conf = "restored" /\ conn[c].start
        => conn[c].tls.policy = conn[c].version

=============================================================================
