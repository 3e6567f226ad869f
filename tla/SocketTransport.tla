--------------------------- MODULE SocketTransport ---------------------------
(***************************************************************************)
(* The sockets a program allocates (tcp::stream::new, udp::socket::new) and *)
(* what takes their transport over: a TLS session, an HTTP exchange, a      *)
(* CONNECT tunnel; and the sockets an MQTT connection allocates for itself. *)
(* A handle has a lifecycle record and, in tables of its own, the TCP       *)
(* stream and the TLS stream; an operation moves the stream between them    *)
(* and updates the record, and the two are kept apart only by the order of  *)
(* those updates (transport/tcp.rs, tls.rs, udp.rs, http/state.rs,          *)
(* http/state/upstream.rs, proxy.rs, mqtt/upstream.rs).                     *)
(*                                                                          *)
(* A stream is known by the target it is connected to.                      *)
(***************************************************************************)
EXTENDS TransportFlows

CONSTANTS Handles, Targets, Policies

VARIABLES
    sock,      \* tcp_streams: TcpSocketState of a handle
    tcpIo,     \* tcp_stream_ios: the stream in the table, {} when none
    tlsFlow,   \* dynamic_tls_sessions: the TLS flow of a handle, {} when none
    tlsIo,     \* dynamic_tls_session_ios
    udp,       \* the UDP socket's UdpSocketState and stream
    exchange   \* an HTTP exchange: what is attached, the stream it runs on

socketVars == <<sock, tcpIo, tlsFlow, tlsIo, udp, exchange>>

NotAttached == [via |-> "none", handle |-> None]

SocketInit ==
    /\ sock = [h \in Handles |-> NewSocket]
    /\ tcpIo = [h \in Handles |-> None]
    /\ tlsFlow = [h \in Handles |-> None]
    /\ tlsIo = [h \in Handles |-> None]
    /\ udp = [state |-> NewUdpSocket, io |-> None]
    /\ exchange = [attached |-> NotAttached, started |-> FALSE, runsOn |-> None]

-----------------------------------------------------------------------------
(* tcp::stream on a dynamic handle *)

\* with_mutable_dynamic_tcp_socket_state, as all its callers use it: the record
\* is changed and the stream dropped.
Reset(h, s) ==
    /\ sock' = [sock EXCEPT ![h] = s]
    /\ tcpIo' = [tcpIo EXCEPT ![h] = None]
    /\ UNCHANGED <<tlsFlow, tlsIo, udp, exchange>>

Bind(h) == Reset(h, SocketSetBind(sock[h]))

SetStreamTarget(h, t) == Reset(h, SocketSetTarget(sock[h], t))

\* ensure_dynamic_tcp_stream_connected has to connect: no stream in the table, a
\* phase that allows it and a target.  Every read and write goes through it.
NeedsConnect(h) ==
    /\ tcpIo[h] = None
    /\ sock[h].phase \in {"inactive", "bound", "configured", "connected"}
    /\ sock[h].target # NoTarget

Connect(h) ==
    /\ NeedsConnect(h)
    /\ sock' = [sock EXCEPT ![h] = SocketMarkConnected(@)]
    /\ tcpIo' = [tcpIo EXCEPT ![h] = Some(sock[h].target)]
    /\ UNCHANGED <<tlsFlow, tlsIo, udp, exchange>>

\* no address answers; a name that does not resolve leaves the handle as it was
ConnectFails(h) ==
    /\ NeedsConnect(h)
    /\ sock' = [sock EXCEPT ![h] = SocketMarkFailed(@)]
    /\ tcpIo' = [tcpIo EXCEPT ![h] = None]
    /\ UNCHANGED <<tlsFlow, tlsIo, udp, exchange>>

\* a read that ends at end of stream, a read of bytes or a write
ReadOrWrite(h) ==
    /\ tcpIo[h] # None
    /\ \E eof \in BOOLEAN : sock' = [sock EXCEPT ![h].eof = eof]
    /\ UNCHANGED <<tcpIo, tlsFlow, tlsIo, udp, exchange>>

\* Mutant: only the record is closed.
CloseRecordOnly(h) ==
    /\ sock' = [sock EXCEPT ![h] = SocketMarkClosed(@)]
    /\ UNCHANGED <<tcpIo, tlsFlow, tlsIo, udp, exchange>>

\* stream_close: the TCP stream goes, whatever the TLS table holds
CloseStream(h) == Reset(h, SocketMarkClosed(sock[h]))

-----------------------------------------------------------------------------
(* tls::session on a dynamic handle *)

FlowOf(h) == IF tlsFlow[h] = None THEN DynamicTlsFlow ELSE Get(tlsFlow[h])

SessionFromSocket(h) ==
    /\ tlsFlow' = [tlsFlow EXCEPT ![h] =
           Some(IF sock[h].target = NoTarget THEN FlowOf(h) ELSE TlsObserveTarget(FlowOf(h), TRUE))]
    /\ UNCHANGED <<sock, tcpIo, tlsIo, udp, exchange>>

SetPolicy(h, p) ==
    /\ ~FlowOf(h).complete /\ tlsIo[h] = None
    /\ tlsFlow' = [tlsFlow EXCEPT ![h] = Some(TlsSetPolicy(FlowOf(h), p))]
    /\ UNCHANGED <<sock, tcpIo, tlsIo, udp, exchange>>

\* session_handshake has something to do: a flow that is present, names a peer
\* and is not complete
CanHandshake(h) == FlowOf(h).present /\ ~FlowOf(h).complete /\ FlowOf(h).peer

\* no TCP stream to upgrade: only the flow has moved
HandshakeWithoutStream(h) ==
    /\ CanHandshake(h) /\ tcpIo[h] = None
    /\ tlsFlow' = [tlsFlow EXCEPT ![h] = Some(TlsNotePrepared(FlowOf(h)))]
    /\ UNCHANGED <<sock, tcpIo, tlsIo, udp, exchange>>

Handshake(h) ==
    /\ CanHandshake(h) /\ tcpIo[h] # None
    /\ \E verified \in BOOLEAN :
          tlsFlow' = [tlsFlow EXCEPT ![h] =
              Some(TlsMarkComplete(TlsNoteServerFlight(TlsNotePrepared(FlowOf(h)), FALSE, verified)))]
    /\ sock' = [sock EXCEPT ![h] = SocketMarkUpgradedTls(@)]
    /\ tlsIo' = [tlsIo EXCEPT ![h] = tcpIo[h]]
    /\ tcpIo' = [tcpIo EXCEPT ![h] = None]
    /\ UNCHANGED <<udp, exchange>>

\* the stream is dropped.  A client config that cannot be built marks nothing, an
\* ALPN mismatch only the flow
HandshakeFails(h) ==
    /\ CanHandshake(h) /\ tcpIo[h] # None
    /\ \E flow, socket \in BOOLEAN :
          /\ socket => flow
          /\ tlsFlow' = [tlsFlow EXCEPT ![h] =
                 Some(IF flow THEN TlsMarkFailed(TlsNotePrepared(FlowOf(h)))
                      ELSE TlsNotePrepared(FlowOf(h)))]
          /\ sock' = [sock EXCEPT ![h] = IF socket THEN SocketMarkFailed(@) ELSE @]
    /\ tcpIo' = [tcpIo EXCEPT ![h] = None]
    /\ UNCHANGED <<tlsIo, udp, exchange>>

-----------------------------------------------------------------------------
(* What takes the transport over *)

AttachTcp(h) ==
    /\ ~exchange.started /\ sock[h].phase = "connected"
    /\ exchange' = [exchange EXCEPT !.attached = [via |-> "tcp", handle |-> Some(h)]]
    /\ UNCHANGED <<sock, tcpIo, tlsFlow, tlsIo, udp>>

\* the flow takes the exchange's target, present when its scheme is https, before
\* an exchange that has its response is refused
AttachTls(h) ==
    /\ sock[h].phase \in {"connected", "upgraded-tls"}
    /\ exchange' = IF exchange.started THEN exchange
                    ELSE [exchange EXCEPT !.attached = [via |-> "tls", handle |-> Some(h)]]
    /\ \E https \in BOOLEAN :
          tlsFlow' = [tlsFlow EXCEPT ![h] =
              Some(IF FlowOf(h).complete THEN FlowOf(h) ELSE TlsObserveTarget(FlowOf(h), https))]
    /\ UNCHANGED <<sock, tcpIo, tlsIo, udp>>

\* the attached exchange starts: the record is marked first, then the stream is
\* looked up.  A missing stream, or a request that gets no response on the one
\* there was, is an error that leaves the mark and no response
StartAttached(h) ==
    /\ ~exchange.started /\ exchange.attached.handle = Some(h)
    /\ sock' = [sock EXCEPT ![h] = SocketMarkHttpAttached(@)]
    /\ LET stream == IF exchange.attached.via = "tcp" THEN tcpIo[h] ELSE tlsIo[h]
       IN  \/ UNCHANGED exchange
           \/ stream # None /\ exchange' = [exchange EXCEPT !.started = TRUE, !.runsOn = stream]
    /\ \/ exchange.attached.via = "tcp" /\ tcpIo' = [tcpIo EXCEPT ![h] = None] /\ UNCHANGED tlsIo
       \/ exchange.attached.via = "tls" /\ tlsIo' = [tlsIo EXCEPT ![h] = None] /\ UNCHANGED tcpIo
    /\ UNCHANGED <<tlsFlow, udp>>

\* a CONNECT tunnel over the handle, from_tcp or from_tls_plaintext
TunnelTakes(h, via) ==
    /\ sock' = [sock EXCEPT ![h] = SocketMarkProxyAttached(@)]
    /\ tcpIo' = IF via = "tcp" THEN [tcpIo EXCEPT ![h] = None] ELSE tcpIo
    /\ tlsIo' = IF via = "tls" THEN [tlsIo EXCEPT ![h] = None] ELSE tlsIo
    /\ UNCHANGED <<tlsFlow, udp, exchange>>

\* a proxy pipe over the handle fails
PipeFails(h, via) ==
    /\ sock' = [sock EXCEPT ![h] = SocketMarkFailed(@)]
    /\ \/ /\ via = "tcp" /\ tcpIo[h] # None
          /\ tcpIo' = [tcpIo EXCEPT ![h] = None]
          /\ UNCHANGED <<tlsIo, tlsFlow>>
       \/ /\ via = "tls" /\ tlsIo[h] # None
          /\ tlsIo' = [tlsIo EXCEPT ![h] = None]
          /\ tlsFlow' = [tlsFlow EXCEPT ![h] =
                            IF @ = None THEN @ ELSE Some(TlsMarkFailed(FlowOf(h)))]
          /\ UNCHANGED tcpIo
    /\ UNCHANGED <<udp, exchange>>

-----------------------------------------------------------------------------
(* The carrier of an MQTT connection: a handle the connection allocates,    *)
(* connects and keeps to itself until it closes it.                         *)

\* allocate_tcp_stream_handle
Unused(h) == sock[h] = NewSocket /\ tcpIo[h] = None /\ tlsIo[h] = None /\ tlsFlow[h] = None

CarrierHello == TlsNotePrepared(TlsObserveTarget(DynamicTlsFlow, TRUE))

\* attach_carrier, mqtt: or mqtts:
AttachMqtt(h, t) ==
    /\ Unused(h)
    /\ sock' = [sock EXCEPT ![h] =
           SocketMarkMqttAttached(SocketMarkConnected(SocketSetTarget(@, t)))]
    /\ \/ tcpIo' = [tcpIo EXCEPT ![h] = Some(t)] /\ UNCHANGED <<tlsIo, tlsFlow>>
       \/ /\ tlsIo' = [tlsIo EXCEPT ![h] = Some(t)]
          /\ \E verified \in BOOLEAN :
                tlsFlow' = [tlsFlow EXCEPT ![h] =
                    Some(TlsMarkComplete(TlsNoteServerFlight(CarrierHello, FALSE, verified)))]
          /\ UNCHANGED tcpIo
    /\ UNCHANGED <<udp, exchange>>

\* connect_tcp_carrier and upgrade_tcp_carrier_to_tls return early.  Nothing takes
\* such a handle back, and a peer name TLS rejects leaves it connected.
AttachMqttFails(h, t) ==
    /\ Unused(h)
    /\ LET s == SocketSetTarget(sock[h], t)
           to(record, stream, flow) ==
               /\ sock' = [sock EXCEPT ![h] = record]
               /\ tcpIo' = [tcpIo EXCEPT ![h] = stream]
               /\ tlsFlow' = [tlsFlow EXCEPT ![h] = flow]
       IN  \/ to(s, None, None)
           \/ to(SocketMarkFailed(s), None, None)
           \/ to(SocketMarkConnected(s), Some(t), Some(CarrierHello))
           \/ to(SocketMarkConnected(s), None, Some(CarrierHello))
           \/ to(SocketMarkFailed(SocketMarkConnected(s)), None, Some(TlsMarkFailed(CarrierHello)))
    /\ UNCHANGED <<tlsIo, udp, exchange>>

\* close_carrier, with the failure that closed it or without
CloseMqtt(h) ==
    /\ sock[h].phase = "attached-mqtt"
    /\ \E failed \in BOOLEAN :
          /\ sock' = [sock EXCEPT ![h] = IF failed THEN SocketMarkFailed(@) ELSE SocketMarkClosed(@)]
          /\ \/ /\ tlsIo[h] = None
                /\ tcpIo' = [tcpIo EXCEPT ![h] = None]
                /\ UNCHANGED <<tlsIo, tlsFlow>>
             \/ /\ tlsIo[h] # None
                /\ tlsIo' = [tlsIo EXCEPT ![h] = None]
                /\ tlsFlow' = [tlsFlow EXCEPT ![h] =
                       Some(IF failed THEN TlsMarkFailed(FlowOf(h)) ELSE TlsMarkClosed(FlowOf(h)))]
                /\ UNCHANGED tcpIo
    /\ UNCHANGED <<udp, exchange>>

-----------------------------------------------------------------------------
(* udp::socket *)

UdpBind ==
    /\ udp' = [state |-> SocketSetBind(udp.state), io |-> None]
    /\ UNCHANGED <<sock, tcpIo, tlsFlow, tlsIo, exchange>>

UdpSetTarget(t) ==
    /\ udp' = [state |-> SocketSetTarget(udp.state, t), io |-> None]
    /\ UNCHANGED <<sock, tcpIo, tlsFlow, tlsIo, exchange>>

\* ensure_udp_socket_connected opens a socket when none is open, in any phase: a
\* closed socket opens again
UdpEnsureConnected ==
    /\ udp.io = None /\ udp.state.target # NoTarget
    /\ udp' = [state |-> SocketMarkConnected(udp.state), io |-> Some(udp.state.target)]
    /\ UNCHANGED <<sock, tcpIo, tlsFlow, tlsIo, exchange>>

\* connect and every send and receive begin with it; the datagrams change nothing
UdpOpen == UdpEnsureConnected

\* connect and send_text mark the failure, the binary calls only report it
UdpFails ==
    /\ udp' = [state |-> SocketMarkFailed(udp.state), io |-> None]
    /\ UNCHANGED <<sock, tcpIo, tlsFlow, tlsIo, exchange>>

UdpClose ==
    /\ udp' = [state |-> SocketMarkClosed(udp.state), io |-> None]
    /\ UNCHANGED <<sock, tcpIo, tlsFlow, tlsIo, exchange>>

SocketNext ==
    \/ \E h \in {g \in Handles : sock[g].phase # "attached-mqtt"} :
          \/ Bind(h) \/ (\E t \in Targets : SetStreamTarget(h, t))
          \/ Connect(h) \/ ConnectFails(h) \/ ReadOrWrite(h) \/ CloseStream(h)
          \/ SessionFromSocket(h) \/ (\E p \in Policies : SetPolicy(h, p))
          \/ HandshakeWithoutStream(h) \/ Handshake(h) \/ HandshakeFails(h)
          \/ AttachTcp(h) \/ AttachTls(h) \/ StartAttached(h)
          \/ (\E via \in {"tcp", "tls"} : TunnelTakes(h, via) \/ PipeFails(h, via))
    \/ \E h \in Handles :
          (\E t \in Targets : AttachMqtt(h, t) \/ AttachMqttFails(h, t)) \/ CloseMqtt(h)
    \/ UdpBind \/ (\E t \in Targets : UdpSetTarget(t)) \/ UdpOpen \/ UdpFails \/ UdpClose

SocketSpec == SocketInit /\ [][SocketNext]_socketVars

-----------------------------------------------------------------------------
(* Properties *)

Sockets == [phase : SocketPhases, target : Targets \cup {NoTarget}, eof : BOOLEAN]

Exchanges ==
    [attached : [via : {"none", "tcp", "tls"}, handle : SUBSET Handles],
     started : BOOLEAN, runsOn : SUBSET Targets]

\* The records of the handles and the tables of their streams; a TLS flow is an
\* option whose record TransportFlows gives.
SocketTypeOK ==
    /\ sock \in [Handles -> Sockets]
    /\ tcpIo \in [Handles -> SUBSET Targets]
    /\ tlsIo \in [Handles -> SUBSET Targets]
    /\ DOMAIN tlsFlow = Handles
    /\ udp \in [state : Sockets, io : SUBSET Targets]
    /\ exchange \in Exchanges

\* A TCP stream or UDP socket in the tables is connected to the handle's
\* current target, through every retarget, rebind, failure and reconnect: bytes
\* written after set_target never reach the former peer (stream_set_target,
\* ensure_dynamic_tcp_stream_connected, socket_set_target).  And the phase a
\* program reads hides no open connection (stream_close, session_handshake,
\* socket_close): a handle that reports closed has no TCP stream left, one that
\* reports the TLS upgrade has its TLS stream and no TCP stream beside it, an MQTT
\* carrier has exactly one stream, the one close_carrier drops, and a UDP socket
\* that reports closed or failed has no socket.  "failed" promises less for TCP:
\* a handle retargeted after its TLS upgrade has both streams, and the failure of
\* one leaves the other.
StreamIsCurrent ==
    /\ \A h \in Handles :
          /\ tcpIo[h] \subseteq {sock[h].target}
          /\ sock[h].phase = "closed" => tcpIo[h] = None
          /\ sock[h].phase = "upgraded-tls" => tlsIo[h] # None /\ tcpIo[h] = None
          /\ sock[h].phase = "attached-mqtt" => (tlsIo[h] = None) # (tcpIo[h] = None)
    /\ udp.io \subseteq {udp.state.target}
    /\ udp.state.phase \in {"closed", "failed"} => udp.io = None
=============================================================================
