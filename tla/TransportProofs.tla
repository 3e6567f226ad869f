-------------------------- MODULE TransportProofs --------------------------
(***************************************************************************)
(* The transport plane, for any number of handles, connections and         *)
(* programs: a dynamic handle's stream is the stream of its current target *)
(* (SocketTransport), no TLS handshake of a downstream connection runs     *)
(* with a server config other than the one its session's policy describes  *)
(* and no byte of a connection is lost (DownstreamTransport).              *)
(***************************************************************************)
EXTENDS SocketTransport, DownstreamTransport, SequenceTheorems, TLAPS

-----------------------------------------------------------------------------
(* SocketTransport.  The invariant is inductive beside the types of the    *)
(* records.                                                                *)

SocketInv == SocketTypeOK /\ StreamIsCurrent

\* Every operation on a socket record keeps it a socket record: the mark_* and
\* set_* methods of TcpSocketState and UdpSocketState.
LEMMA SocketOperations ==
    ASSUME NEW s \in Sockets
    PROVE  /\ SocketSetBind(s) \in Sockets
           /\ \A t \in Targets : SocketSetTarget(s, t) \in Sockets
           /\ SocketMarkConnected(s) \in Sockets
           /\ SocketMarkUpgradedTls(s) \in Sockets
           /\ SocketMarkMqttAttached(s) \in Sockets
           /\ SocketMarkHttpAttached(s) \in Sockets
           /\ SocketMarkProxyAttached(s) \in Sockets
           /\ SocketMarkClosed(s) \in Sockets
           /\ SocketMarkFailed(s) \in Sockets
<1>1. SocketSetBind(s) \in Sockets
  BY Zenon DEF SocketSetBind, Sockets, SocketPhases
<1>2. \A t \in Targets : SocketSetTarget(s, t) \in Sockets
  BY Zenon DEF SocketSetTarget, Sockets, SocketPhases
<1>3. SocketMarkConnected(s) \in Sockets /\ SocketMarkUpgradedTls(s) \in Sockets
  BY Zenon DEF SocketMarkConnected, SocketMarkUpgradedTls, Sockets, SocketPhases
<1>4. SocketMarkHttpAttached(s) \in Sockets /\ SocketMarkProxyAttached(s) \in Sockets
  BY Zenon DEF SocketMarkHttpAttached, SocketMarkProxyAttached, Sockets, SocketPhases
<1>5. SocketMarkClosed(s) \in Sockets /\ SocketMarkFailed(s) \in Sockets
  BY Zenon DEF SocketMarkClosed, SocketMarkFailed, Sockets, SocketPhases
<1>6. SocketMarkMqttAttached(s) \in Sockets
  BY Zenon DEF SocketMarkMqttAttached, Sockets, SocketPhases
<1>7. QED
  BY <1>1, <1>2, <1>3, <1>4, <1>5, <1>6, Zenon

\* A fresh program's tables satisfy the invariant (DownstreamState::new,
\* TransportState::default).
LEMMA SocketInitInv == SocketInit => SocketInv
BY DEF SocketInit, SocketInv, SocketTypeOK, StreamIsCurrent, NewSocket, NewUdpSocket, Sockets, SocketPhases, Exchanges,
       None, NotAttached, NoTarget

\* What the invariant says of one handle's record and streams.
Current(s, tcp, tls) ==
    /\ tcp \subseteq {s.target}
    /\ s.phase = "closed" => tcp = None
    /\ s.phase = "upgraded-tls" => tls # None /\ tcp = None
    /\ s.phase = "attached-mqtt" => (tls = None) # (tcp = None)

\* An operation on one handle that leaves that handle's record and streams
\* consistent keeps the invariant: no other handle is touched.
LEMMA HandleStep ==
    ASSUME SocketInv, NEW h \in Handles, NEW s \in Sockets,
           NEW tcp \in SUBSET Targets, NEW tls \in SUBSET Targets,
           Current(s, tcp, tls),
           sock' = [sock EXCEPT ![h] = s],
           tcpIo' = [tcpIo EXCEPT ![h] = tcp],
           tlsIo' = [tlsIo EXCEPT ![h] = tls],
           DOMAIN tlsFlow' = Handles,
           UNCHANGED udp,
           exchange' \in Exchanges
    PROVE  SocketInv'
<1>1. SocketTypeOK'
  BY Zenon DEF SocketInv, SocketTypeOK
<1>2. ASSUME NEW g \in Handles PROVE Current(sock'[g], tcpIo'[g], tlsIo'[g])
  <2>1. CASE g = h
    BY <2>1, Zenon DEF SocketInv, SocketTypeOK
  <2>2. CASE g # h
    BY <2>2, Zenon DEF SocketInv, SocketTypeOK, StreamIsCurrent, Current
  <2>3. QED
    BY <2>1, <2>2, Zenon
<1>3. StreamIsCurrent'
  BY <1>2, Zenon DEF SocketInv, StreamIsCurrent, Current
<1>4. QED
  BY <1>1, <1>3, Zenon DEF SocketInv

\* An operation on the UDP socket that leaves it consistent keeps the invariant.
LEMMA UdpStep ==
    ASSUME SocketInv, NEW s \in Sockets, NEW io \in SUBSET Targets,
           io \subseteq {s.target}, s.phase \in {"closed", "failed"} => io = None,
           udp' = [state |-> s, io |-> io],
           UNCHANGED <<sock, tcpIo, tlsFlow, tlsIo, exchange>>
    PROVE  SocketInv'
BY Zenon DEF SocketInv, SocketTypeOK, StreamIsCurrent

\* The handle's part of the invariant, as the action proofs use it.
LEMMA HandleFacts ==
    ASSUME SocketInv, NEW h \in Handles
    PROVE  /\ sock[h] \in Sockets
           /\ tcpIo[h] \in SUBSET Targets /\ tlsIo[h] \in SUBSET Targets
           /\ Current(sock[h], tcpIo[h], tlsIo[h])
           /\ sock = [sock EXCEPT ![h] = sock[h]]
           /\ tcpIo = [tcpIo EXCEPT ![h] = tcpIo[h]]
           /\ tlsIo = [tlsIo EXCEPT ![h] = tlsIo[h]]
           /\ DOMAIN tlsFlow = Handles
           /\ exchange \in Exchanges
BY Zenon DEF SocketInv, SocketTypeOK, StreamIsCurrent, Current

\* tcp::stream::* on a dynamic handle keeps the invariant.
LEMMA SocketStreamStep ==
    ASSUME SocketInv, NEW h \in Handles, sock[h].phase # "attached-mqtt",
           \/ Bind(h) \/ (\E t \in Targets : SetStreamTarget(h, t))
           \/ Connect(h) \/ ConnectFails(h) \/ ReadOrWrite(h) \/ CloseStream(h)
    PROVE  SocketInv'
<1>h. /\ sock[h] \in Sockets
      /\ tcpIo[h] \in SUBSET Targets /\ tlsIo[h] \in SUBSET Targets
      /\ Current(sock[h], tcpIo[h], tlsIo[h])
      /\ tlsIo = [tlsIo EXCEPT ![h] = tlsIo[h]]
      /\ tcpIo = [tcpIo EXCEPT ![h] = tcpIo[h]]
      /\ DOMAIN tlsFlow = Handles
      /\ exchange \in Exchanges
  BY HandleFacts, Zenon
<1>r. ASSUME NEW s \in Sockets, s.phase # "upgraded-tls" \/ tlsIo[h] # None,
             s.phase # "attached-mqtt", Reset(h, s)
      PROVE  SocketInv'
  <2>1. Current(s, None, tlsIo[h]) /\ None \in SUBSET Targets
    BY <1>r, Zenon DEF Current, None
  <2>2. /\ sock' = [sock EXCEPT ![h] = s] /\ tcpIo' = [tcpIo EXCEPT ![h] = None]
        /\ tlsIo' = [tlsIo EXCEPT ![h] = tlsIo[h]] /\ UNCHANGED <<tlsFlow, udp, exchange>>
    BY <1>h, <1>r, Zenon DEF Reset
  <2>3. QED
    BY <1>h, <2>1, <2>2, HandleStep, Zenon
<1>1. CASE Bind(h)
  <2>1. /\ SocketSetBind(sock[h]) \in Sockets
        /\ SocketSetBind(sock[h]).phase # "upgraded-tls" \/ tlsIo[h] # None
        /\ SocketSetBind(sock[h]).phase # "attached-mqtt"
    BY <1>h, SocketOperations, Zenon DEF SocketSetBind, Current, Sockets
  <2>2. QED
    BY <1>1, <1>r, <2>1, Zenon DEF Bind
<1>2. ASSUME NEW t \in Targets, SetStreamTarget(h, t) PROVE SocketInv'
  <2>1. SocketSetTarget(sock[h], t) \in Sockets /\ SocketSetTarget(sock[h], t).phase = "configured"
    BY <1>h, SocketOperations, Zenon DEF SocketSetTarget, Sockets
  <2>2. QED
    BY <1>2, <1>r, <2>1, Zenon DEF SetStreamTarget
<1>3. CASE Connect(h)
  <2>1. /\ SocketMarkConnected(sock[h]) \in Sockets
        /\ SocketMarkConnected(sock[h]).phase = "connected"
        /\ SocketMarkConnected(sock[h]).target = sock[h].target
        /\ sock[h].target \in Targets
    BY <1>h, <1>3, SocketOperations, Zenon DEF SocketMarkConnected, Sockets, Connect, NeedsConnect
  <2>2. Some(sock[h].target) \in SUBSET Targets
    BY <2>1, Zenon DEF Some
  <2>3. Current(SocketMarkConnected(sock[h]), Some(sock[h].target), tlsIo[h])
    BY <2>1, Zenon DEF Current, Some
  <2>4. QED
    BY <1>h, <1>3, <2>1, <2>2, <2>3, HandleStep, Zenon DEF Connect
<1>4. CASE ConnectFails(h)
  <2>1. SocketMarkFailed(sock[h]) \in Sockets /\ SocketMarkFailed(sock[h]).phase = "failed"
    BY <1>h, SocketOperations, Zenon DEF SocketMarkFailed, Sockets
  <2>2. Reset(h, SocketMarkFailed(sock[h]))
    BY <1>h, <1>4, Zenon DEF ConnectFails, Reset, SocketInv, SocketTypeOK
  <2>3. QED
    BY <1>r, <2>1, <2>2, Zenon
<1>5. CASE ReadOrWrite(h)
  <2>1. PICK e \in BOOLEAN : sock' = [sock EXCEPT ![h] = [sock[h] EXCEPT !.eof = e]]
    BY <1>5, Zenon DEF ReadOrWrite
  <2>2. [sock[h] EXCEPT !.eof = e] \in Sockets
    BY <1>h, Zenon DEF Sockets
  <2>3. Current([sock[h] EXCEPT !.eof = e], tcpIo[h], tlsIo[h])
    BY <1>h, Zenon DEF Current, Sockets
  <2>4. QED
    BY <1>h, <1>5, <2>1, <2>2, <2>3, HandleStep, Zenon DEF ReadOrWrite
<1>6. CASE CloseStream(h)
  <2>1. SocketMarkClosed(sock[h]) \in Sockets /\ SocketMarkClosed(sock[h]).phase = "closed"
    BY <1>h, SocketOperations, Zenon DEF SocketMarkClosed, Sockets
  <2>2. QED
    BY <1>6, <1>r, <2>1, Zenon DEF CloseStream
<1>7. QED
  BY <1>1, <1>2, <1>3, <1>4, <1>5, <1>6, Zenon

\* tls::session::* on a dynamic handle keeps the invariant: the stream moves
\* from the TCP table to the TLS table together with the phase.
LEMMA SocketSessionStep ==
    ASSUME SocketInv, NEW h \in Handles, sock[h].phase # "attached-mqtt",
           \/ SessionFromSocket(h) \/ (\E p \in Policies : SetPolicy(h, p))
           \/ HandshakeWithoutStream(h) \/ Handshake(h) \/ HandshakeFails(h)
    PROVE  SocketInv'
<1>h. /\ sock[h] \in Sockets
      /\ tcpIo[h] \in SUBSET Targets /\ tlsIo[h] \in SUBSET Targets
      /\ Current(sock[h], tcpIo[h], tlsIo[h])
      /\ sock = [sock EXCEPT ![h] = sock[h]]
      /\ tlsIo = [tlsIo EXCEPT ![h] = tlsIo[h]]
      /\ DOMAIN tlsFlow = Handles
      /\ exchange \in Exchanges
  BY HandleFacts, Zenon
<1>1. ASSUME DOMAIN tlsFlow' = Handles, UNCHANGED <<sock, tcpIo, tlsIo, udp, exchange>>
      PROVE  SocketInv'
  BY <1>1, Zenon DEF SocketInv, SocketTypeOK, StreamIsCurrent
<1>2. CASE SessionFromSocket(h) \/ (\E p \in Policies : SetPolicy(h, p)) \/ HandshakeWithoutStream(h)
  BY <1>h, <1>1, <1>2, Zenon DEF SessionFromSocket, SetPolicy, HandshakeWithoutStream
<1>3. CASE Handshake(h)
  <2>1. /\ SocketMarkUpgradedTls(sock[h]) \in Sockets
        /\ None \in SUBSET Targets
        /\ SocketMarkUpgradedTls(sock[h]).phase = "upgraded-tls"
    BY <1>h, SocketOperations, Zenon DEF SocketMarkUpgradedTls, Sockets, None
  <2>4. Current(SocketMarkUpgradedTls(sock[h]), None, tcpIo[h])
    BY <1>3, <2>1, Zenon DEF Handshake, Current, None
  <2>2. DOMAIN tlsFlow' = Handles
    BY <1>h, <1>3, Zenon DEF Handshake
  <2>3. QED
    BY <1>h, <1>3, <2>1, <2>2, <2>4, HandleStep, Zenon DEF Handshake
<1>4. CASE HandshakeFails(h)
  <2>1. PICK s \in {sock[h], SocketMarkFailed(sock[h])} : sock' = [sock EXCEPT ![h] = s]
    BY <1>4, Zenon DEF HandshakeFails
  <2>2. s \in Sockets /\ (s.phase = sock[h].phase \/ s.phase = "failed")
    BY <1>h, <2>1, SocketOperations, Zenon DEF SocketMarkFailed, Sockets
  <2>3. Current(s, None, tlsIo[h]) /\ None \in SUBSET Targets
    BY <1>h, <2>2, Zenon DEF Current, None
  <2>4. DOMAIN tlsFlow' = Handles
    BY <1>h, <1>4, Zenon DEF HandshakeFails
  <2>5. QED
    BY <1>h, <1>4, <2>1, <2>2, <2>3, <2>4, HandleStep, Zenon DEF HandshakeFails
<1>5. QED
  BY <1>2, <1>3, <1>4, Zenon

\* An exchange, a tunnel or a failing pipe that takes a handle's transport over
\* keeps the invariant.
LEMMA TakeOverStep ==
    ASSUME SocketInv, NEW h \in Handles, sock[h].phase # "attached-mqtt",
           \/ AttachTcp(h) \/ AttachTls(h) \/ StartAttached(h)
           \/ (\E via \in {"tcp", "tls"} : TunnelTakes(h, via) \/ PipeFails(h, via))
    PROVE  SocketInv'
<1>h. /\ sock[h] \in Sockets
      /\ tcpIo[h] \in SUBSET Targets /\ tlsIo[h] \in SUBSET Targets
      /\ Current(sock[h], tcpIo[h], tlsIo[h])
      /\ tcpIo = [tcpIo EXCEPT ![h] = tcpIo[h]]
      /\ tlsIo = [tlsIo EXCEPT ![h] = tlsIo[h]]
      /\ DOMAIN tlsFlow = Handles
      /\ exchange \in Exchanges
  BY HandleFacts, Zenon
<1>s. ASSUME NEW s \in Sockets, s.target = sock[h].target,
             s.phase \notin {"closed", "upgraded-tls", "attached-mqtt"},
             NEW tcp \in {tcpIo[h], None}, NEW tls \in {tlsIo[h], None},
             sock' = [sock EXCEPT ![h] = s],
             tcpIo' = [tcpIo EXCEPT ![h] = tcp],
             tlsIo' = [tlsIo EXCEPT ![h] = tls],
             DOMAIN tlsFlow' = Handles, UNCHANGED udp,
             exchange' \in Exchanges
      PROVE  SocketInv'
  <2>1. tcp \in SUBSET Targets /\ tls \in SUBSET Targets /\ Current(s, tcp, tls)
    BY <1>h, <1>s, Zenon DEF Current, None
  <2>2. QED
    BY <1>s, <2>1, HandleStep, Zenon
<1>1. CASE AttachTcp(h) \/ AttachTls(h)
  <2>1. UNCHANGED <<sock, tcpIo, tlsIo, udp>> /\ DOMAIN tlsFlow' = Handles
    BY <1>h, <1>1, Zenon DEF AttachTcp, AttachTls
  <2>2. \/ UNCHANGED exchange
        \/ \E v \in {"tcp", "tls"} :
              exchange' = [exchange EXCEPT !.attached = [via |-> v, handle |-> Some(h)]]
    BY <1>1, Zenon DEF AttachTcp, AttachTls
  <2>3. ASSUME NEW v \in {"tcp", "tls"}
        PROVE  [exchange EXCEPT !.attached = [via |-> v, handle |-> Some(h)]] \in Exchanges
    BY <1>h, Zenon DEF Exchanges, Some
  <2>5. exchange' \in Exchanges
    BY <1>h, <2>2, <2>3, Zenon
  <2>4. QED
    BY <2>1, <2>5, Zenon DEF SocketInv, SocketTypeOK, StreamIsCurrent
<1>2. CASE StartAttached(h)
  <2>1. /\ SocketMarkHttpAttached(sock[h]) \in Sockets
        /\ SocketMarkHttpAttached(sock[h]).target = sock[h].target
        /\ SocketMarkHttpAttached(sock[h]).phase = "attached-http"
    BY <1>h, SocketOperations, Zenon DEF SocketMarkHttpAttached, Sockets
  <2>2. /\ sock' = [sock EXCEPT ![h] = SocketMarkHttpAttached(sock[h])]
        /\ \/ tcpIo' = [tcpIo EXCEPT ![h] = None] /\ tlsIo' = [tlsIo EXCEPT ![h] = tlsIo[h]]
           \/ tcpIo' = [tcpIo EXCEPT ![h] = tcpIo[h]] /\ tlsIo' = [tlsIo EXCEPT ![h] = None]
        /\ UNCHANGED <<tlsFlow, udp>> /\ exchange' \in Exchanges
    <3>1. ASSUME NEW io \in {tcpIo[h], tlsIo[h]}
          PROVE  [exchange EXCEPT !.started = TRUE, !.runsOn = io] \in Exchanges
      BY <1>h, Zenon DEF Exchanges
    <3>2. QED
      BY <1>h, <1>2, <3>1, Zenon DEF StartAttached
  <2>3. QED
    BY <1>h, <1>s, <2>1, <2>2, Zenon
<1>3. ASSUME NEW via \in {"tcp", "tls"}, TunnelTakes(h, via) PROVE SocketInv'
  <2>1. /\ SocketMarkProxyAttached(sock[h]) \in Sockets
        /\ SocketMarkProxyAttached(sock[h]).target = sock[h].target
        /\ SocketMarkProxyAttached(sock[h]).phase = "attached-proxy"
    BY <1>h, SocketOperations, Zenon DEF SocketMarkProxyAttached, Sockets
  <2>2. QED
    BY <1>h, <1>s, <1>3, <2>1, Zenon DEF TunnelTakes
<1>4. ASSUME NEW via \in {"tcp", "tls"}, PipeFails(h, via) PROVE SocketInv'
  <2>1. /\ SocketMarkFailed(sock[h]) \in Sockets
        /\ SocketMarkFailed(sock[h]).target = sock[h].target
        /\ SocketMarkFailed(sock[h]).phase = "failed"
    BY <1>h, SocketOperations, Zenon DEF SocketMarkFailed, Sockets
  <2>2. QED
    BY <1>h, <1>s, <1>4, <2>1, Zenon DEF PipeFails
<1>5. QED
  BY <1>1, <1>2, <1>3, <1>4, Zenon

\* The carrier an MQTT connection allocates, attaches and closes keeps the
\* invariant: it has one stream and close_carrier drops that one.
LEMMA CarrierStep ==
    ASSUME SocketInv, NEW h \in Handles,
           \/ \E t \in Targets : AttachMqtt(h, t) \/ AttachMqttFails(h, t)
           \/ CloseMqtt(h)
    PROVE  SocketInv'
<1>h. /\ sock[h] \in Sockets
      /\ tcpIo[h] \in SUBSET Targets /\ tlsIo[h] \in SUBSET Targets /\ None \in SUBSET Targets
      /\ Current(sock[h], tcpIo[h], tlsIo[h])
      /\ tcpIo = [tcpIo EXCEPT ![h] = tcpIo[h]]
      /\ tlsIo = [tlsIo EXCEPT ![h] = tlsIo[h]]
      /\ DOMAIN tlsFlow = Handles
      /\ exchange \in Exchanges
  BY HandleFacts, Zenon DEF None
<1>t. ASSUME NEW t \in Targets
      PROVE  /\ Some(t) \in SUBSET Targets /\ Some(t) # None /\ Some(t) = {t}
             /\ SocketSetTarget(sock[h], t) \in Sockets
             /\ SocketSetTarget(sock[h], t).target = t
             /\ SocketSetTarget(sock[h], t).phase = "configured"
  BY <1>h, SocketOperations, Zenon DEF Some, None, SocketSetTarget, Sockets
<1>m. ASSUME NEW s \in Sockets
      PROVE  /\ SocketMarkConnected(s).target = s.target
             /\ SocketMarkConnected(s).phase = "connected"
             /\ SocketMarkFailed(s).target = s.target
             /\ SocketMarkFailed(s).phase = "failed"
             /\ SocketMarkClosed(s).phase = "closed"
             /\ SocketMarkMqttAttached(s).target = s.target
             /\ SocketMarkMqttAttached(s).phase = "attached-mqtt"
  BY <1>m, Zenon DEF SocketMarkConnected, SocketMarkFailed, SocketMarkClosed,
                     SocketMarkMqttAttached, Sockets
<1>1. ASSUME NEW t \in Targets, AttachMqtt(h, t) PROVE SocketInv'
  <2> DEFINE s == SocketMarkMqttAttached(SocketMarkConnected(SocketSetTarget(sock[h], t)))
  <2>a. SocketSetTarget(sock[h], t) \in Sockets /\ SocketSetTarget(sock[h], t).target = t
    BY <1>t, Zenon
  <2>0. /\ SocketMarkConnected(SocketSetTarget(sock[h], t)) \in Sockets
        /\ SocketMarkConnected(SocketSetTarget(sock[h], t)).target = t
    BY <1>m, <2>a, SocketOperations, Zenon
  <2>1. s \in Sockets /\ s.target = t /\ s.phase = "attached-mqtt"
    BY <1>m, <2>0, SocketOperations, Zenon
  <2>2. tcpIo[h] = None /\ tlsIo[h] = None /\ sock' = [sock EXCEPT ![h] = s]
    BY <1>1, Zenon DEF AttachMqtt, Unused
  <2>3. DOMAIN tlsFlow' = Handles /\ UNCHANGED <<udp, exchange>>
    BY <1>h, <1>1, Zenon DEF AttachMqtt
  <2>4. \/ /\ tcpIo' = [tcpIo EXCEPT ![h] = Some(t)]
           /\ tlsIo' = [tlsIo EXCEPT ![h] = None]
        \/ /\ tcpIo' = [tcpIo EXCEPT ![h] = None]
           /\ tlsIo' = [tlsIo EXCEPT ![h] = Some(t)]
    BY <1>h, <1>1, <2>2, Zenon DEF AttachMqtt
  <2> HIDE DEF s
  <2>5. Current(s, Some(t), None) /\ Current(s, None, Some(t))
    BY <1>t, <2>1, Zenon DEF Current, None
  <2>6. QED
    BY <1>h, <1>t, <2>1, <2>2, <2>3, <2>4, <2>5, HandleStep, Zenon
<1>2. ASSUME NEW t \in Targets, AttachMqttFails(h, t) PROVE SocketInv'
  <2> DEFINE s == SocketSetTarget(sock[h], t)
  <2>1. /\ s \in Sockets
        /\ SocketMarkConnected(s) \in Sockets /\ SocketMarkFailed(s) \in Sockets
        /\ SocketMarkFailed(SocketMarkConnected(s)) \in Sockets
    BY <1>t, SocketOperations, Zenon
  <2>2. /\ s.phase = "configured" /\ SocketMarkFailed(s).phase = "failed"
        /\ SocketMarkConnected(s).phase = "connected" /\ SocketMarkConnected(s).target = t
        /\ SocketMarkFailed(SocketMarkConnected(s)).phase = "failed"
    BY <1>t, <1>m, <2>1, Zenon
  <2>3. tlsIo[h] = None /\ tlsIo' = [tlsIo EXCEPT ![h] = None]
    BY <1>h, <1>2, Zenon DEF AttachMqttFails, Unused
  <2>4. DOMAIN tlsFlow' = Handles /\ UNCHANGED <<udp, exchange>>
    BY <1>h, <1>2, Zenon DEF AttachMqttFails
  <2>5. \/ /\ sock' = [sock EXCEPT ![h] = SocketMarkConnected(s)]
           /\ tcpIo' = [tcpIo EXCEPT ![h] = Some(t)]
        \/ \E r \in {s, SocketMarkFailed(s), SocketMarkConnected(s),
                     SocketMarkFailed(SocketMarkConnected(s))} :
              /\ sock' = [sock EXCEPT ![h] = r]
              /\ tcpIo' = [tcpIo EXCEPT ![h] = None]
    BY <1>2, Zenon DEF AttachMqttFails
  <2> HIDE DEF s
  <2>6. Current(SocketMarkConnected(s), Some(t), None)
    BY <1>t, <2>2, Zenon DEF Current
  <2>7. \A r \in {s, SocketMarkFailed(s), SocketMarkConnected(s),
                 SocketMarkFailed(SocketMarkConnected(s))} : r \in Sockets /\ Current(r, None, None)
    BY <2>1, <2>2, Zenon DEF Current, None
  <2>8. CASE /\ sock' = [sock EXCEPT ![h] = SocketMarkConnected(s)]
             /\ tcpIo' = [tcpIo EXCEPT ![h] = Some(t)]
    BY <1>h, <1>t, <2>1, <2>3, <2>4, <2>6, <2>8, HandleStep, Zenon
  <2>9. ASSUME NEW r \in {s, SocketMarkFailed(s), SocketMarkConnected(s),
                          SocketMarkFailed(SocketMarkConnected(s))},
               sock' = [sock EXCEPT ![h] = r], tcpIo' = [tcpIo EXCEPT ![h] = None]
        PROVE  SocketInv'
    <3>1. r \in Sockets /\ Current(r, None, None)
      BY <2>7, <2>9, Zenon
    <3>2. QED
      BY <1>h, <2>3, <2>4, <2>9, <3>1, HandleStep, Zenon
  <2>10. QED
    BY <2>5, <2>8, <2>9, Zenon
<1>3. CASE CloseMqtt(h)
  <2>1. PICK s \in {SocketMarkFailed(sock[h]), SocketMarkClosed(sock[h])} :
            sock' = [sock EXCEPT ![h] = s]
    BY <1>3, Zenon DEF CloseMqtt
  <2>2. s \in Sockets /\ s.phase \in {"failed", "closed"}
    BY <1>h, <1>m, <2>1, SocketOperations, Zenon
  <2>3. DOMAIN tlsFlow' = Handles /\ UNCHANGED <<udp, exchange>>
    BY <1>h, <1>3, Zenon DEF CloseMqtt
  <2>4. (tlsIo[h] = None) # (tcpIo[h] = None)
    BY <1>h, <1>3, Zenon DEF CloseMqtt, Current
  <2>5. /\ tcpIo' = [tcpIo EXCEPT ![h] = None]
        /\ tlsIo' = [tlsIo EXCEPT ![h] = None]
    BY <1>h, <1>3, <2>4, Zenon DEF CloseMqtt
  <2>6. Current(s, None, None)
    BY <2>2, Zenon DEF Current, None
  <2>7. QED
    BY <1>h, <2>1, <2>2, <2>3, <2>5, <2>6, HandleStep, Zenon
<1>4. QED
  BY <1>1, <1>2, <1>3, Zenon

\* udp::socket::* keeps the invariant.
LEMMA UdpSocketStep ==
    ASSUME SocketInv,
           \/ UdpBind \/ (\E t \in Targets : UdpSetTarget(t))
           \/ UdpOpen \/ UdpFails \/ UdpClose
    PROVE  SocketInv'
<1>u. udp.state \in Sockets /\ None \in SUBSET Targets /\ udp.state.target \in Targets \cup {NoTarget}
  BY Zenon DEF SocketInv, SocketTypeOK, Sockets, None
<1>1. ASSUME NEW s \in Sockets, udp' = [state |-> s, io |-> None],
             UNCHANGED <<sock, tcpIo, tlsFlow, tlsIo, exchange>>
      PROVE  SocketInv'
  BY <1>u, <1>1, UdpStep, Zenon DEF None
<1>2. CASE UdpBind \/ UdpFails \/ UdpClose
  BY <1>u, <1>1, <1>2, SocketOperations, Zenon DEF UdpBind, UdpFails, UdpClose
<1>3. ASSUME NEW t \in Targets, UdpSetTarget(t) PROVE SocketInv'
  BY <1>u, <1>1, <1>3, SocketOperations, Zenon DEF UdpSetTarget
<1>4. CASE UdpOpen
  <2>1. /\ SocketMarkConnected(udp.state) \in Sockets
        /\ SocketMarkConnected(udp.state).phase = "connected"
        /\ SocketMarkConnected(udp.state).target = udp.state.target
    BY <1>u, SocketOperations, Zenon DEF SocketMarkConnected, Sockets
  <2>2. Some(udp.state.target) \in SUBSET Targets
    BY <1>u, <1>4, Zenon DEF UdpOpen, UdpEnsureConnected, Some
  <2>3. QED
    BY <1>4, <2>1, <2>2, UdpStep, Zenon DEF UdpOpen, UdpEnsureConnected, Some
<1>5. QED
  BY <1>2, <1>3, <1>4, Zenon

\* However a program binds, retargets, connects, upgrades, attaches, closes and
\* fails its sockets, and however many it has, a stream in the tables leads to
\* the handle's current target and the phase it reports hides no connection
\* (stream_set_target, ensure_dynamic_tcp_stream_connected, stream_close,
\* session_handshake, socket_set_target, socket_close).
THEOREM StreamsAreCurrent == SocketSpec => []StreamIsCurrent
<1>1. SocketInv /\ [SocketNext]_socketVars => SocketInv'
  <2>1. SocketInv /\ SocketNext => SocketInv'
    BY SocketStreamStep, SocketSessionStep, TakeOverStep, CarrierStep, UdpSocketStep, Zenon
       DEF SocketNext
  <2>2. SocketInv /\ UNCHANGED socketVars => SocketInv'
    BY Zenon DEF SocketInv, SocketTypeOK, StreamIsCurrent, socketVars
  <2>3. QED
    BY <2>1, <2>2, Zenon
<1>2. SocketInv => StreamIsCurrent
  BY Zenon DEF SocketInv
<1>3. QED
  BY SocketInitInv, <1>1, <1>2, PTL DEF SocketSpec

-----------------------------------------------------------------------------
(* DownstreamTransport: configurations.  The property is inductive beside  *)
(* the fields of the records it speaks of.                                 *)

ConnFields == {"state", "version", "goal", "script", "sent", "fin", "pos", "tcpIo",
               "start", "tlsIo", "prepared", "preread", "eof", "accessed", "carrier",
               "websocket", "flow", "tls", "op", "got"}
TlsFields == {"present", "complete", "ready", "peer", "path", "phase", "conf", "policy"}
OpFields == {"step", "policy", "config"}

\* What the property says of one connection, with the fields it needs.
Sound(k) ==
    /\ DOMAIN k = ConnFields
    /\ DOMAIN k.tls = TlsFields
    /\ DOMAIN k.op = OpFields
    /\ \A p \in k.prepared : p = k.tls.policy
    /\ k.op # NoOp => k.op.config = k.op.policy /\ k.op.policy = k.tls.policy

CacheSound == \A e \in cache : e.config = e.policy

ConfigInv ==
    /\ CacheSound
    /\ DOMAIN conn = Conns
    /\ \A c \in Conns : Sound(conn[c])

\* The operations of TlsFlowState that are no configuration keep the policy.
LEMMA PolicyKept ==
    ASSUME NEW f, DOMAIN f = TlsFields, NEW r, NEW v
    PROVE  \A g \in {TlsObserveClientHello(f), TlsNoteServerFlight(f, r, v),
                     TlsMarkComplete(f), TlsMarkClosed(f), TlsMarkFailed(f)} :
               DOMAIN g = TlsFields /\ g.policy = f.policy
BY Zenon DEF TlsFields, TlsObserveClientHello, TlsNoteServerFlight, TlsMarkComplete,
       TlsMarkClosed, TlsMarkFailed

\* A step that changes one connection, and leaves it sound, keeps the invariant.
LEMMA ConnStep ==
    ASSUME ConfigInv, NEW c \in Conns, NEW k, Sound(k),
           conn' = [conn EXCEPT ![c] = k], CacheSound'
    PROVE  ConfigInv'
BY Zenon DEF ConfigInv

\* A connection whose prepared config, policy and handshake are those of a sound
\* one is sound: the steps that move bytes and streams.
LEMMA Untouched ==
    ASSUME NEW k, Sound(k), NEW j, DOMAIN j = ConnFields, DOMAIN j.tls = TlsFields,
           j.prepared = k.prepared, j.op = k.op, j.tls.policy = k.tls.policy
    PROVE  Sound(j)
BY Zenon DEF Sound

\* Before a program runs there is no config and no handshake.
LEMMA ConfigInitInv == TransportInit => ConfigInv
<1> SUFFICES ASSUME TransportInit PROVE ConfigInv
  BY Zenon
<1>1. \A s, g : Sound(Fresh(s, g))
  BY DEF Sound, Fresh, ConnFields, TlsFields, OpFields, AbsentTlsFlow, NoOp, None
<1>2. QED
  BY <1>1 DEF TransportInit, ConfigInv, CacheSound, None

\* The record j can replace connection c: the property sees no difference.
SameConfig(c, j) ==
    /\ DOMAIN j = ConnFields
    /\ DOMAIN j.tls = TlsFields
    /\ j.prepared = conn[c].prepared
    /\ j.op = conn[c].op
    /\ j.tls.policy = conn[c].tls.policy

LEMMA SameConfigStep ==
    ASSUME ConfigInv, NEW c \in Conns, NEW j, SameConfig(c, j),
           conn' = [conn EXCEPT ![c] = j], cache' = cache
    PROVE  ConfigInv'
<1>1. Sound(j)
  BY Untouched, Zenon DEF ConfigInv, SameConfig
<1>2. QED
  BY <1>1, ConnStep, Zenon DEF ConfigInv, CacheSound

LEMMA SameConfigCall ==
    ASSUME ConfigInv, NEW c \in Conns, NEW j, SameConfig(c, j), HostCall(c, j)
    PROVE  ConfigInv'
<1>1. SameConfig(c, [j EXCEPT !.accessed = TRUE])
  BY Zenon DEF SameConfig, ConnFields
<1>2. QED
  BY <1>1, SameConfigStep, Zenon DEF HostCall

\* A connection is a record of its fields, and stands in for itself.
LEMMA Fields ==
    ASSUME ConfigInv, NEW c \in Conns
    PROVE  /\ Sound(conn[c]) /\ SameConfig(c, conn[c])
           /\ DOMAIN conn = Conns
BY Zenon DEF ConfigInv, Sound, SameConfig

\* The listener and the client.
LEMMA PeerStep ==
    ASSUME ConfigInv, NEW c \in Conns, Serve(c) \/ ClientSend(c) \/ ClientFin(c)
    PROVE  ConfigInv'
<1>1. CASE Serve(c)
  <2> DEFINE j == [conn[c] EXCEPT !.state = "running", !.version = program,
                                  !.tcpIo = TRUE, !.flow = DownstreamReady]
  <2>1. conn' = [conn EXCEPT ![c] = j] /\ cache' = cache
    BY <1>1, Fields, Zenon DEF Serve
  <2>2. SameConfig(c, j)
    BY Fields, Zenon DEF SameConfig, ConnFields
  <2>3. QED
    BY <2>1, <2>2, SameConfigStep, Zenon
<1>2. CASE ClientSend(c)
  <2> DEFINE j == [conn[c] EXCEPT !.sent = @ + 1]
  <2>1. conn' = [conn EXCEPT ![c] = j] /\ cache' = cache
    BY <1>2, Fields, Zenon DEF ClientSend
  <2>2. SameConfig(c, j)
    BY Fields, Zenon DEF SameConfig, ConnFields
  <2>3. QED
    BY <2>1, <2>2, SameConfigStep, Zenon
<1>3. CASE ClientFin(c)
  <2> DEFINE j == [conn[c] EXCEPT !.fin = TRUE]
  <2>1. conn' = [conn EXCEPT ![c] = j] /\ cache' = cache
    BY <1>3, Fields, Zenon DEF ClientFin
  <2>2. SameConfig(c, j)
    BY Fields, Zenon DEF SameConfig, ConnFields
  <2>3. QED
    BY <2>1, <2>2, SameConfigStep, Zenon
<1>4. QED
  BY <1>1, <1>2, <1>3, Zenon

\* tcp::stream::* on the downstream handle.
LEMMA StreamStep ==
    ASSUME ConfigInv, NEW c \in Conns,
           Read(c) \/ Peek(c) \/ Write(c) \/ IoFails(c) \/ Close(c)
    PROVE  ConfigInv'
<1>1. CASE Read(c)
  <2> DEFINE k == [conn[c] EXCEPT !.flow = FlowNoteRead(@)]
             p(max) == TakePreread(k, max)
             j(max) == [k EXCEPT !.preread = SubSeq(k.preread, p(max) + 1, Len(k.preread)),
                                 !.got = @ \o SubSeq(k.preread, 1, p(max))]
             r(max, n) == [ReadSocket(j(max), n) EXCEPT
                             !.got = @ \o SubSeq(Waiting(k), 1, n)]
  <2>1. \E max \in Chunks : \/ HostCall(c, j(max))
                            \/ \E n \in SocketReads(k, max - p(max)) : HostCall(c, r(max, n))
    BY <1>1, Zenon DEF Read
  <2>2. ASSUME NEW max PROVE SameConfig(c, j(max))
    BY Fields, Zenon DEF SameConfig, ConnFields
  <2>3. ASSUME NEW max, NEW n PROVE SameConfig(c, r(max, n))
    BY <2>2, Zenon DEF SameConfig, ConnFields, ReadSocket
  <2> HIDE DEF j, r
  <2>4. QED
    BY <2>1, <2>2, <2>3, SameConfigCall, Zenon
<1>2. CASE Peek(c)
  <2> DEFINE k == conn[c]
             r(n) == [ReadSocket(k, n) EXCEPT !.preread = @ \o SubSeq(Waiting(k), 1, n)]
  <2>1. HostCall(c, k) \/ \E n : HostCall(c, r(n))
    BY <1>2, Zenon DEF Peek
  <2>2. ASSUME NEW n PROVE SameConfig(c, r(n))
    BY Fields, Zenon DEF SameConfig, ConnFields, ReadSocket
  <2> HIDE DEF r
  <2>3. QED
    BY <2>1, <2>2, Fields, SameConfigCall, Zenon
<1>3. CASE Write(c)
  <2>1. SameConfig(c, [conn[c] EXCEPT !.flow = FlowNoteWrite(@)])
    BY Fields, Zenon DEF SameConfig, ConnFields
  <2>2. QED
    BY <1>3, <2>1, SameConfigCall, Zenon DEF Write
<1>4. CASE IoFails(c)
  <2>1. SameConfig(c, MarkAttachedFailed(conn[c]))
    BY Fields, PolicyKept, Zenon DEF SameConfig, ConnFields, MarkAttachedFailed
  <2>2. QED
    BY <1>4, <2>1, SameConfigCall, Zenon DEF IoFails
<1>5. CASE Close(c)
  <2> DEFINE j == [conn[c] EXCEPT !.tcpIo = FALSE, !.tlsIo = FALSE,
                      !.start = FALSE, !.preread = <<>>, !.eof = TRUE,
                      !.tls = TlsMarkClosed(@), !.flow = FlowMarkClosed(@)]
  <2>1. SameConfig(c, j)
    BY Fields, PolicyKept, Zenon DEF SameConfig, ConnFields
  <2>2. HostCall(c, j)
    BY <1>5, Zenon DEF Close
  <2> HIDE DEF j
  <2>3. QED
    BY <2>1, <2>2, SameConfigCall, Zenon
<1>6. QED
  BY <1>1, <1>2, <1>3, <1>4, <1>5, Zenon

\* A host call that replaces connection c by a sound record.
LEMMA SoundCall ==
    ASSUME ConfigInv, NEW c \in Conns, NEW j, Sound(j), HostCall(c, j)
    PROVE  ConfigInv'
<1>1. Sound([j EXCEPT !.accessed = TRUE])
  BY Zenon DEF Sound, ConnFields
<1>2. QED
  BY <1>1, ConnStep, Zenon DEF HostCall, ConfigInv, CacheSound

\* What Get returns of an option.
LEMMA GetSome == ASSUME NEW o, o # None PROVE Get(o) \in o
BY Zenon DEF Get, None

\* tls::session::from_socket restores policy and config from one cache entry.
LEMMA FromSocketStep ==
    ASSUME ConfigInv, NEW c \in Conns, FromSocket(c) \/ FromSocketRejects(c)
    PROVE  ConfigInv'
<1>1. CASE FromSocket(c)
  <2> DEFINE k == conn[c]
             j == [k EXCEPT !.tcpIo = FALSE, !.preread = <<>>, !.start = TRUE,
                            !.got = Append(@, Hello),
                            !.pos = @ + (1 - Len(k.preread)),
                            !.tls = TlsObserveClientHello(@)]
  <2>1. k.op = NoOp
    BY <1>1, Zenon DEF FromSocket, Running
  <2>2. SameConfig(c, j)
    BY Fields, PolicyKept, Zenon DEF SameConfig, ConnFields
  <2>3. HostCall(c, RestoreCached(j))
    BY <1>1, Zenon DEF FromSocket
  <2> HIDE DEF j
  <2>4. DOMAIN j.op = OpFields
    BY <2>2, Fields, Zenon DEF SameConfig, Sound
  <2>5. CASE cache = None
    <3>1. Sound(RestoreCached(j))
      BY <2>1, <2>2, <2>4, <2>5, Zenon DEF Sound, SameConfig, RestoreCached, ConnFields, None
    <3>2. QED
      BY <2>3, <3>1, SoundCall, Zenon
  <2>6. CASE cache # None
    <3>1. Get(cache).config = Get(cache).policy
      BY <2>6, GetSome, Zenon DEF ConfigInv, CacheSound
    <3>2. RestoreCached(j) = [j EXCEPT !.tls = TlsRestore(@, Get(cache).policy),
                                       !.prepared = Some(Get(cache).config)]
      BY <2>6, Zenon DEF RestoreCached
    <3> DEFINE t == TlsRestore(j.tls, Get(cache).policy)
               i == [j EXCEPT !.tls = t, !.prepared = Some(Get(cache).config)]
    <3>3. DOMAIN t = TlsFields /\ t.policy = Get(cache).policy
      BY <2>2, Zenon DEF SameConfig, TlsFields, TlsRestore
    <3> HIDE DEF t
    <3>4. i.op = NoOp /\ DOMAIN i = ConnFields /\ i.tls = t
            /\ i.prepared = Some(Get(cache).config)
      BY <2>1, <2>2, Zenon DEF SameConfig, ConnFields
    <3>5. Sound(i)
      BY <2>1, <2>2, <2>4, <3>1, <3>3, <3>4, Zenon DEF Sound, SameConfig, Some
    <3>6. QED
      BY <2>3, <3>2, <3>5, SoundCall, Zenon DEF t
  <2>7. QED
    BY <2>5, <2>6, Zenon
<1>2. CASE FromSocketRejects(c)
  <2> DEFINE k == conn[c]
             p == Len(k.preread)
             a(n) == [k EXCEPT !.preread = SubSeq(@, n + 1, p),
                               !.got = @ \o SubSeq(k.preread, 1, n)]
             b(n) == [k EXCEPT !.pos = @ + n,
                               !.got = @ \o SubSeq(Waiting(k), 1, n)]
  <2>1. (\E n : HostCall(c, a(n))) \/ (\E n : HostCall(c, b(n)))
    BY <1>2, Zenon DEF FromSocketRejects
  <2>2. ASSUME NEW n PROVE SameConfig(c, a(n)) /\ SameConfig(c, b(n))
    BY Fields, Zenon DEF SameConfig, ConnFields
  <2> HIDE DEF a, b
  <2>3. QED
    BY <2>1, <2>2, SameConfigCall, Zenon
<1>3. QED
  BY <1>1, <1>2, Zenon

\* tls::session::set_* and the start of tls::session::handshake.
LEMMA ConfigureStep ==
    ASSUME ConfigInv, NEW c \in Conns, Configure(c) \/ HandshakeBegin(c) \/ BuildConfigFails(c)
    PROVE  ConfigInv'
<1> DEFINE k == conn[c]
<1>1. CASE Configure(c)
  <2> DEFINE j == [k EXCEPT !.tls = TlsSetPolicy(@, k.version), !.prepared = None]
  <2>1. k.op = NoOp /\ HostCall(c, j)
    BY <1>1, Zenon DEF Configure, Running
  <2>2. Sound(j)
    BY <2>1, Fields, Zenon DEF Sound, ConnFields, TlsFields, TlsSetPolicy, None
  <2> HIDE DEF j
  <2>3. QED
    BY <2>1, <2>2, SoundCall, Zenon
<1>2. CASE HandshakeBegin(c)
  <2> DEFINE q == IF k.prepared # None THEN Get(k.prepared) ELSE k.tls.policy
             o == [step |-> "handshake", policy |-> k.tls.policy, config |-> q]
             j == [k EXCEPT !.start = FALSE, !.prepared = None, !.op = o]
  <2>1. HostCall(c, j)
    BY <1>2, Zenon DEF HandshakeBegin
  <2>2. q = k.tls.policy
    BY Fields, GetSome, Zenon DEF Sound
  <2> HIDE DEF q
  <2>3. Sound(j)
    BY <2>2, Fields, Zenon DEF Sound, ConnFields, OpFields, None
  <2> HIDE DEF j
  <2>4. QED
    BY <2>1, <2>3, SoundCall, Zenon
<1>3. CASE BuildConfigFails(c)
  <2>1. SameConfig(c, [k EXCEPT !.start = FALSE])
    BY Fields, Zenon DEF SameConfig, ConnFields
  <2>2. QED
    BY <1>3, <2>1, SameConfigCall, Zenon DEF BuildConfigFails
<1>4. QED
  BY <1>1, <1>2, <1>3, Zenon

\* The end of the handshake, and cache_downstream_server_config after it.
LEMMA HandshakeStep ==
    ASSUME ConfigInv, NEW c \in Conns, HandshakeEnd(c) \/ CacheConfig(c)
    PROVE  ConfigInv'
<1> DEFINE k == conn[c]
<1>1. CASE HandshakeEnd(c)
  <2> DEFINE f(r, v) == [k EXCEPT !.flow = FlowMarkConnected(@), !.eof = FALSE,
                                  !.tls = TlsNoteServerFlight(@, r, v)]
             done(r, v) == [f(r, v) EXCEPT !.tls = TlsMarkComplete(@),
                                           !.tlsIo = TRUE, !.op.step = "cache"]
             mismatch(r, v) == [f(r, v) EXCEPT !.tls = TlsMarkFailed(@), !.op = NoOp]
             failed == [k EXCEPT !.flow = FlowMarkFailed(@),
                                 !.tls = TlsMarkFailed(@), !.op = NoOp]
  <2>1. \/ \E r, v \in BOOLEAN : HostCall(c, done(r, v))
        \/ \E r, v \in BOOLEAN : HostCall(c, mismatch(r, v))
        \/ HostCall(c, failed)
    BY <1>1, Zenon DEF HandshakeEnd
  <2>2. k.op # NoOp
    <3>1. k.op.step = "handshake"
      BY <1>1, Zenon DEF HandshakeEnd
    <3>2. QED
      BY <3>1 DEF NoOp
  <2>3. ASSUME NEW r, NEW v PROVE SameConfig(c, f(r, v))
    <3>1. /\ DOMAIN TlsNoteServerFlight(k.tls, r, v) = TlsFields
          /\ TlsNoteServerFlight(k.tls, r, v).policy = k.tls.policy
      BY Fields, PolicyKept DEF Sound
    <3>2. QED
      BY <3>1, Fields, Zenon DEF SameConfig, ConnFields
  <2> HIDE DEF f
  <2>4. DOMAIN NoOp = OpFields
    BY Zenon DEF NoOp, OpFields
  <2>5. ASSUME NEW r, NEW v PROVE Sound(done(r, v))
    <3>1. /\ DOMAIN TlsMarkComplete(f(r, v).tls) = TlsFields
          /\ TlsMarkComplete(f(r, v).tls).policy = k.tls.policy
      BY <2>3, PolicyKept DEF SameConfig
    <3>2. QED
      BY <2>2, <2>3, <3>1, Fields DEF Sound, SameConfig, ConnFields, OpFields
  <2>6. ASSUME NEW r, NEW v PROVE Sound(mismatch(r, v))
    <3>1. /\ DOMAIN TlsMarkFailed(f(r, v).tls) = TlsFields
          /\ TlsMarkFailed(f(r, v).tls).policy = k.tls.policy
      BY <2>3, PolicyKept DEF SameConfig
    <3>2. QED
      BY <2>3, <2>4, <3>1, Fields DEF Sound, SameConfig, ConnFields
  <2>7. Sound(failed)
    <3>1. /\ DOMAIN TlsMarkFailed(k.tls) = TlsFields
          /\ TlsMarkFailed(k.tls).policy = k.tls.policy
      BY Fields, PolicyKept, Zenon DEF Sound
    <3>2. QED
      BY <2>4, <3>1, Fields, Zenon DEF Sound, ConnFields
  <2> HIDE DEF done, mismatch, failed
  <2>8. QED
    BY <2>1, <2>5, <2>6, <2>7, SoundCall, Zenon
<1>2. CASE CacheConfig(c)
  <2>1. k.op # NoOp
    BY <1>2 DEF CacheConfig, NoOp
  <2>2. CacheSound'
    BY <1>2, <2>1, Fields DEF CacheConfig, CacheSound, Sound, Some
  <2>3. conn' = [conn EXCEPT ![c] = [k EXCEPT !.op = NoOp]]
    BY <1>2, Fields, Zenon DEF CacheConfig
  <2>4. Sound([k EXCEPT !.op = NoOp])
    BY Fields, Zenon DEF Sound, ConnFields, OpFields, NoOp
  <2>5. QED
    BY <2>2, <2>3, <2>4, ConnStep, Zenon
<1>3. QED
  BY <1>1, <1>2, Zenon

\* The connection goes to HTTP or to a WebSocket session, by the program or by
\* the listener's goal.
LEMMA HttpStep ==
    ASSUME ConfigInv, NEW c \in Conns,
           Handoff(c) \/ WebSocketAccept(c) \/ AutoPromote(c) \/ HttpReads(c)
    PROVE  ConfigInv'
<1> DEFINE k == conn[c]
<1>1. CASE Handoff(c)
  <2> DEFINE j == [k EXCEPT !.tcpIo = FALSE, !.tlsIo = FALSE, !.carrier = TRUE,
                            !.preread = <<>>, !.got = @ \o k.preread]
  <2>1. conn' = [conn EXCEPT ![c] = j] /\ cache' = cache
    BY <1>1, Zenon DEF Handoff
  <2>2. SameConfig(c, j)
    BY Fields, Zenon DEF SameConfig, ConnFields
  <2>3. QED
    BY <2>1, <2>2, SameConfigStep, Zenon
<1>2. CASE WebSocketAccept(c)
  <2> DEFINE j == [k EXCEPT !.tcpIo = FALSE, !.tlsIo = FALSE, !.preread = <<>>,
                            !.got = IF k.tlsIo THEN @ \o k.preread ELSE @]
             accepted == [j EXCEPT !.websocket = TRUE, !.flow = FlowMarkConnected(@)]
             refused == [j EXCEPT !.flow = FlowMarkFailed(@),
                                  !.tls = IF k.tls.present THEN TlsMarkFailed(@) ELSE @]
  <2>1. cache' = cache /\ \E r \in {accepted, refused} : conn' = [conn EXCEPT ![c] = r]
    BY <1>2, Zenon DEF WebSocketAccept
  <2>2. SameConfig(c, j)
    BY Fields, Zenon DEF SameConfig, ConnFields
  <2> HIDE DEF j
  <2>3. SameConfig(c, accepted)
    BY <2>2, Zenon DEF SameConfig, ConnFields
  <2>4. SameConfig(c, refused)
    BY <2>2, PolicyKept, Zenon DEF SameConfig, ConnFields
  <2> HIDE DEF accepted, refused
  <2>5. QED
    BY <2>1, <2>3, <2>4, SameConfigStep, Zenon
<1>3. CASE AutoPromote(c)
  <2> DEFINE hello == [k EXCEPT !.tcpIo = FALSE, !.tls = TlsObserveClientHello(@)]
             plain == [k EXCEPT !.tcpIo = FALSE, !.carrier = TRUE]
             secured == [hello EXCEPT !.carrier = TRUE, !.eof = FALSE,
                           !.pos = @ + 1, !.got = Append(@, Hello),
                           !.flow = FlowMarkConnected(@),
                           !.tls = TlsMarkComplete(TlsNoteServerFlight(@, FALSE, FALSE))]
             failed == [hello EXCEPT !.pos = @ + 1, !.got = Append(@, Hello),
                           !.flow = FlowMarkFailed(@), !.tls = TlsMarkFailed(@)]
             rejected == [k EXCEPT !.tcpIo = FALSE, !.flow = FlowMarkFailed(@),
                                   !.tls = TlsMarkFailed(@)]
  <2>1. /\ cache' = cache
        /\ \E r \in {plain, secured, failed, rejected} : conn' = [conn EXCEPT ![c] = r]
    BY <1>3, Zenon DEF AutoPromote
  <2>2. SameConfig(c, hello)
    BY Fields, PolicyKept, Zenon DEF SameConfig, ConnFields
  <2> HIDE DEF hello
  <2>3. SameConfig(c, plain)
    BY Fields, Zenon DEF SameConfig, ConnFields
  <2>4. SameConfig(c, secured)
    <3> DEFINE t == TlsNoteServerFlight(hello.tls, FALSE, FALSE)
    <3>1. DOMAIN t = TlsFields /\ t.policy = hello.tls.policy
      BY <2>2, Zenon DEF SameConfig, TlsNoteServerFlight, TlsFields
    <3>2. DOMAIN TlsMarkComplete(t) = TlsFields /\ TlsMarkComplete(t).policy = t.policy
      BY <3>1, PolicyKept, Zenon
    <3> HIDE DEF t
    <3>3. secured.tls = TlsMarkComplete(t)
      BY <2>2, Zenon DEF SameConfig, ConnFields, t
    <3>4. /\ DOMAIN secured = ConnFields
          /\ secured.prepared = hello.prepared /\ secured.op = hello.op
      BY <2>2, Zenon DEF SameConfig, ConnFields
    <3> HIDE DEF secured
    <3>5. QED
      BY <2>2, <3>1, <3>2, <3>3, <3>4, Zenon DEF SameConfig
  <2>5. SameConfig(c, failed)
    BY <2>2, PolicyKept, Zenon DEF SameConfig, ConnFields
  <2>6. SameConfig(c, rejected)
    BY Fields, PolicyKept, Zenon DEF SameConfig, ConnFields
  <2> HIDE DEF plain, secured, failed, rejected
  <2>7. QED
    BY <2>1, <2>3, <2>4, <2>5, <2>6, SameConfigStep, Zenon
<1>4. CASE HttpReads(c)
  <2> DEFINE j == [k EXCEPT !.pos = @ + 1, !.got = Append(@, Waiting(k)[1])]
  <2>1. conn' = [conn EXCEPT ![c] = j] /\ cache' = cache
    BY <1>4, Fields, Zenon DEF HttpReads
  <2>2. SameConfig(c, j)
    BY Fields, Zenon DEF SameConfig, ConnFields
  <2>3. QED
    BY <2>1, <2>2, SameConfigStep, Zenon
<1>5. QED
  BY <1>1, <1>2, <1>3, <1>4, Zenon

LEMMA ConfigNextInv == ConfigInv /\ [TransportNext]_transportVars => ConfigInv'
<1> SUFFICES ASSUME ConfigInv, [TransportNext]_transportVars PROVE ConfigInv'
  BY Zenon
<1>1. CASE ClearConfigurations
  BY <1>1, Zenon DEF ClearConfigurations, ConfigInv, CacheSound, None
<1>2. CASE StoreProgram
  BY <1>2, Zenon DEF StoreProgram, ConfigInv, CacheSound
<1>3. CASE UNCHANGED transportVars
  BY <1>3, Zenon DEF transportVars, ConfigInv, CacheSound
<1>4. ASSUME NEW c \in Conns,
             \/ Serve(c) \/ ClientSend(c) \/ ClientFin(c)
             \/ Read(c) \/ Peek(c) \/ Write(c) \/ IoFails(c) \/ Close(c)
             \/ FromSocket(c) \/ FromSocketRejects(c) \/ Configure(c)
             \/ HandshakeBegin(c) \/ BuildConfigFails(c) \/ HandshakeEnd(c)
             \/ CacheConfig(c)
             \/ Handoff(c) \/ WebSocketAccept(c) \/ AutoPromote(c) \/ HttpReads(c)
      PROVE  ConfigInv'
  BY <1>4, PeerStep, StreamStep, FromSocketStep, ConfigureStep, HandshakeStep, HttpStep, Zenon
<1>5. QED
  BY <1>1, <1>2, <1>3, <1>4, Zenon DEF TransportNext, TransportStep

\* PreparedMatchesPolicy for any connections, client scripts, listener goals and
\* program versions: a server config that is restored, taken for a handshake
\* or cached was built from the policy the session shows.  Every
\* tls::session::set_* drops the prepared config, from_socket restores both from
\* one cache entry, and cache_downstream_server_config stores the pair that the
\* handshake took together before its await.
THEOREM ConfigsAreCurrent == TransportSpec => []PreparedMatchesPolicy
<1>1. ConfigInv => PreparedMatchesPolicy
  BY Zenon DEF ConfigInv, CacheSound, Sound, PreparedMatchesPolicy
<1>2. QED
  BY <1>1, ConfigInitInv, ConfigNextInv, PTL DEF TransportSpec

-----------------------------------------------------------------------------
(* DownstreamTransport: bytes.  The property is not inductive: a later     *)
(* read needs to know that the positions are in their order, that the      *)
(* stream is in one place (so that nobody reads while the acceptor or HTTP *)
(* has it), that only a raw or a TLS stream has preread bytes, and that a  *)
(* raw stream has at most one client hello, at its end.                    *)

\* A connection whose bytes are accounted for: the transport is not gone, or not
\* yet served.
Intact(k) == Attached(k) \/ k.state = "new"

\* Where the stream of a connection is: in at most one place, and only the raw
\* and the TLS stream have preread bytes.
OnePlace(k) ==
    /\ k.state = "new" \/ k.tcpIo =>
           ~k.tls.complete /\ ~k.tlsIo /\ ~k.start /\ k.op = NoOp
    /\ k.state = "new" \/ HasIo(k) \/ k.start \/ k.op # NoOp => ~k.carrier /\ ~k.websocket
    /\ k.start => ~k.tlsIo /\ k.op = NoOp
    /\ k.start \/ k.op # NoOp \/ k.carrier \/ k.websocket => k.preread = <<>>

\* What the client has sent, what was taken from the socket and who has it.
Accounted(k) ==
    /\ k.script \in Seq(Nat) /\ k.got \in Seq(Nat) /\ k.preread \in Seq(Nat)
    /\ k.sent \in 0 .. Len(k.script) /\ k.pos \in 0 .. k.sent
    /\ Intact(k) => k.got \o k.preread = SubSeq(k.script, 1, k.pos)
    /\ k.state = "new" \/ k.tcpIo => \A i \in 1 .. k.sent : i < k.sent => k.script[i] # Hello
    /\ (k.state = "new" \/ HasIo(k) \/ k.start) /\ k.eof => k.fin /\ k.pos = k.sent

BytesInv == \A c \in Conns : OnePlace(conn[c]) /\ Accounted(conn[c])

\* w is what s holds between p and m: taking n elements of it extends the
\* prefix of length p.
Between(s, p, m, w) ==
    /\ w \in Seq(Nat) /\ Len(w) = m - p
    /\ \A i \in 1 .. Len(w) : w[i] = s[p + i]
    /\ \A n \in 0 .. Len(w) :
          /\ SubSeq(w, 1, n) \in Seq(Nat)
          /\ SubSeq(s, 1, p) \o SubSeq(w, 1, n) = SubSeq(s, 1, p + n)

LEMMA PrefixExtends ==
    ASSUME NEW s \in Seq(Nat), NEW m \in 0 .. Len(s), NEW p \in 0 .. m,
           NEW w, w = SubSeq(s, p + 1, m)
    PROVE  Between(s, p, m, w)
<1>1. /\ w \in Seq(Nat) /\ Len(w) = m - p
      /\ \A i \in 1 .. Len(w) : w[i] = s[p + i]
  <2>1. \A i \in (p + 1) .. m : s[i] \in Nat
    BY ElementOfSeq, LenProperties
  <2>2. /\ w \in Seq(Nat) /\ Len(w) = IF p + 1 <= m THEN m - (p + 1) + 1 ELSE 0
        /\ \A i \in 1 .. m - (p + 1) + 1 : w[i] = s[(p + 1) + i - 1]
    BY <2>1, SubSeqProperties, LenProperties
  <2>3. QED
    BY <2>2, LenProperties
<1>2. ASSUME NEW n \in 0 .. Len(w)
      PROVE  /\ SubSeq(w, 1, n) \in Seq(Nat) /\ Len(SubSeq(w, 1, n)) = n
             /\ \A i \in 1 .. n : SubSeq(w, 1, n)[i] = w[i]
  <2> DEFINE v == SubSeq(w, 1, n)
  <2>1. \A i \in 1 .. n : w[i] \in Nat
    BY <1>1, ElementOfSeq, LenProperties
  <2>2. /\ v \in Seq(Nat) /\ Len(v) = IF 1 <= n THEN n - 1 + 1 ELSE 0
        /\ \A i \in 1 .. n - 1 + 1 : v[i] = w[1 + i - 1]
    BY <1>1, <2>1, SubSeqProperties, LenProperties
  <2> HIDE DEF v
  <2>3. n \in Nat
    BY <1>1, LenProperties
  <2>4. (IF 1 <= n THEN n - 1 + 1 ELSE 0) = n /\ \A i \in 1 .. n : i \in 1 .. n - 1 + 1 /\ 1 + i - 1 = i
    BY <2>3
  <2>5. QED
    BY <2>2, <2>4, Zenon DEF v
<1>3. ASSUME NEW n \in 0 .. Len(w)
      PROVE  SubSeq(s, 1, p) \o SubSeq(w, 1, n) = SubSeq(s, 1, p + n)
  <2> DEFINE v == SubSeq(s, p + 1, p + n)
  <2>1. \A i \in (p + 1) .. (p + n) : s[i] \in Nat
    BY <1>1, ElementOfSeq, LenProperties
  <2>2. /\ v \in Seq(Nat) /\ Len(v) = IF p + 1 <= p + n THEN (p + n) - (p + 1) + 1 ELSE 0
        /\ \A i \in 1 .. (p + n) - (p + 1) + 1 : v[i] = s[(p + 1) + i - 1]
    BY <1>1, <2>1, SubSeqProperties, LenProperties
  <2>3. Len(v) = n /\ \A i \in 1 .. n : v[i] = s[p + i]
    BY <2>2, <1>1, LenProperties
  <2>4. SubSeq(w, 1, n) = v
    <3> HIDE DEF v
    <3>1. \A i \in 1 .. n : SubSeq(w, 1, n)[i] = v[i]
      BY <1>1, <1>2, <2>3
    <3>2. QED
      BY <1>2, <2>2, <2>3, <3>1, SeqEqual, Zenon
  <2>5. SubSeq(s, 1, p) \o v = SubSeq(s, 1, p + n)
    <3> HIDE DEF v
    <3>1. /\ 1 \in 1 .. Len(s) + 1 /\ p \in 1 - 1 .. Len(s) /\ p + n \in p .. Len(s)
      BY <1>1, LenProperties
    <3>2. SubSeq(s, 1, p) \o SubSeq(s, p + 1, p + n) = SubSeq(s, 1, p + n)
      BY <3>1, ConcatAdjacentSubSeq, Zenon
    <3>3. QED
      BY <3>2, Zenon DEF v
  <2>6. QED
    BY <2>4, <2>5, Zenon
<1>4. QED
  BY <1>1, <1>2, <1>3, Zenon DEF Between

\* The waiting bytes.
LEMMA WaitingBytes ==
    ASSUME NEW k, k.script \in Seq(Nat), k.sent \in 0 .. Len(k.script), k.pos \in 0 .. k.sent
    PROVE  Between(k.script, k.pos, k.sent, Waiting(k))
BY PrefixExtends, Zenon DEF Waiting

\* The positions are numbers in their order.
LEMMA Positions ==
    ASSUME NEW k, Accounted(k)
    PROVE  /\ k.script \in Seq(Nat) /\ k.got \in Seq(Nat) /\ k.preread \in Seq(Nat)
           /\ Len(k.script) \in Nat /\ Len(k.got) \in Nat /\ Len(k.preread) \in Nat
           /\ k.sent \in Nat /\ k.sent <= Len(k.script)
           /\ k.pos \in Nat /\ k.pos <= k.sent
           /\ Between(k.script, k.pos, k.sent, Waiting(k))
<1>1. /\ k.script \in Seq(Nat) /\ k.got \in Seq(Nat) /\ k.preread \in Seq(Nat)
      /\ k.sent \in 0 .. Len(k.script) /\ k.pos \in 0 .. k.sent
  BY Zenon DEF Accounted
<1>2. Len(k.script) \in Nat /\ Len(k.got) \in Nat /\ Len(k.preread) \in Nat
  BY <1>1, LenProperties, Zenon
<1>3. k.sent \in Nat /\ k.sent <= Len(k.script)
  BY <1>1, <1>2
<1>4. k.pos \in Nat /\ k.pos <= k.sent
  BY <1>1, <1>3
<1>5. QED
  BY <1>1, <1>2, <1>3, <1>4, WaitingBytes, Zenon

\* Steps that neither read nor drop a byte, and steps after which nothing is
\* promised of the bytes any more.
SameBytes(k, j) ==
    /\ j.script = k.script /\ j.sent = k.sent /\ j.fin = k.fin /\ j.pos = k.pos
    /\ j.got = k.got /\ j.preread = k.preread

LEMMA Unread ==
    ASSUME NEW k, Accounted(k), NEW j, SameBytes(k, j), Intact(j) => Intact(k),
           j.state = "new" \/ j.tcpIo => k.state = "new" \/ k.tcpIo,
           (j.state = "new" \/ HasIo(j) \/ j.start) /\ j.eof
               => (k.state = "new" \/ HasIo(k) \/ k.start) /\ k.eof
    PROVE  Accounted(j)
BY Zenon DEF Accounted, SameBytes

LEMMA Gone ==
    ASSUME NEW k, Accounted(k), NEW j, ~Intact(j), j.script = k.script, j.sent = k.sent,
           j.pos = k.pos, j.got = k.got, j.preread \in Seq(Nat)
    PROVE  Accounted(j)
BY Zenon DEF Accounted, Intact, Attached, HasIo

\* A step that changes one connection and leaves it in order.
LEMMA BytesStep ==
    ASSUME ConfigInv, BytesInv, NEW c \in Conns, NEW j, OnePlace(j), Accounted(j),
           conn' = [conn EXCEPT ![c] = j]
    PROVE  BytesInv'
BY Zenon DEF ConfigInv, BytesInv

\* A host call notes the access, and nothing else, beside its own change.
LEMMA BytesCall ==
    ASSUME ConfigInv, BytesInv, NEW c \in Conns, NEW j, DOMAIN j = ConnFields,
           OnePlace(j), Accounted(j), HostCall(c, j)
    PROVE  BytesInv'
<1> DEFINE a == [j EXCEPT !.accessed = TRUE]
<1>1. OnePlace(a)
  BY Zenon DEF OnePlace, HasIo, ConnFields
<1>2. Accounted(a)
  BY Zenon DEF Accounted, Intact, Attached, HasIo, ConnFields
<1>3. QED
  BY <1>1, <1>2, BytesStep, Zenon DEF HostCall

\* One connection: its fields and what the invariant says of it.
LEMMA BytesFields ==
    ASSUME ConfigInv, BytesInv, NEW c \in Conns
    PROVE  /\ DOMAIN conn = Conns /\ DOMAIN conn[c] = ConnFields
           /\ DOMAIN conn[c].tls = TlsFields /\ DOMAIN conn[c].op = OpFields
           /\ OnePlace(conn[c]) /\ Accounted(conn[c])
BY Zenon DEF ConfigInv, BytesInv, Sound

\* Nothing was sent and nothing taken.
LEMMA BytesInit == TransportInit => BytesInv
<1> SUFFICES ASSUME TransportInit PROVE BytesInv
  BY Zenon
<1>1. ASSUME NEW s \in Seq(Nat), NEW g PROVE OnePlace(Fresh(s, g)) /\ Accounted(Fresh(s, g))
  BY DEF OnePlace, Accounted, Intact, Attached, HasIo, Fresh, AbsentTlsFlow, NoOp
<1>2. QED
  BY <1>1, TransportAssumption DEF TransportInit, BytesInv

\* The listener and the client.
LEMMA PeerBytes ==
    ASSUME ConfigInv, BytesInv, NEW c \in Conns, Serve(c) \/ ClientSend(c) \/ ClientFin(c)
    PROVE  BytesInv'
<1> DEFINE k == conn[c]
<1>1. CASE Serve(c)
  <2> DEFINE j == [k EXCEPT !.state = "running", !.version = program, !.tcpIo = TRUE,
                            !.flow = DownstreamReady]
  <2>1. conn' = [conn EXCEPT ![c] = j]
    BY <1>1, BytesFields, Zenon DEF Serve
  <2>2. OnePlace(j)
    BY <1>1, BytesFields, Zenon DEF Serve, OnePlace, HasIo, ConnFields
  <2>3. Accounted(j)
    BY <1>1, BytesFields, Zenon DEF Serve, OnePlace, Accounted, Intact, Attached, HasIo, ConnFields
  <2>4. QED
    BY <2>1, <2>2, <2>3, BytesStep, Zenon
<1>2. CASE ClientSend(c)
  <2> DEFINE j == [k EXCEPT !.sent = @ + 1]
  <2>1. conn' = [conn EXCEPT ![c] = j]
    BY <1>2, BytesFields, Zenon DEF ClientSend
  <2>2. OnePlace(j)
    BY <1>2, BytesFields, Zenon DEF OnePlace, HasIo, ConnFields
  <2>3. Accounted(j)
    <3>1. /\ k.sent < Len(k.script) /\ ~k.fin
          /\ \A i \in 1 .. k.sent : k.script[i] = Hello => k.tls.complete
      BY <1>2, Zenon DEF ClientSend
    <3>2. \A f \in ConnFields \ {"sent"} : j[f] = k[f]
      BY BytesFields, Zenon DEF ConnFields
    <3>a. j.sent = k.sent + 1
      BY BytesFields, Zenon DEF ConnFields
    <3> HIDE DEF j
    <3>3. k.sent \in Nat /\ k.pos \in Nat /\ Len(k.script) \in Nat /\ k.pos <= k.sent
      BY BytesFields, Positions, Zenon
    <3>4. j.sent \in 0 .. Len(k.script) /\ k.pos \in 0 .. j.sent
      BY <3>1, <3>a, <3>3
    <3>5. k.state = "new" \/ k.tcpIo => \A i \in 1 .. j.sent : i < j.sent => k.script[i] # Hello
      BY <3>1, <3>a, <3>3, BytesFields DEF OnePlace
    <3>6. Intact(j) <=> Intact(k)
      BY <3>2, Zenon DEF Intact, Attached, HasIo, ConnFields
    <3>7. QED
      BY <3>1, <3>2, <3>a, <3>4, <3>5, <3>6, BytesFields, Zenon DEF Accounted, HasIo, ConnFields
  <2>4. QED
    BY <2>1, <2>2, <2>3, BytesStep, Zenon
<1>3. CASE ClientFin(c)
  <2> DEFINE j == [k EXCEPT !.fin = TRUE]
  <2>1. conn' = [conn EXCEPT ![c] = j]
    BY <1>3, BytesFields, Zenon DEF ClientFin
  <2>2. OnePlace(j)
    BY BytesFields, Zenon DEF OnePlace, HasIo, ConnFields
  <2>3. Accounted(j)
    BY BytesFields, Zenon DEF Accounted, Intact, Attached, HasIo, ConnFields
  <2>4. QED
    BY <2>1, <2>2, <2>3, BytesStep, Zenon
<1>4. QED
  BY <1>1, <1>2, <1>3, Zenon

\* tcp::stream::write, close and the failure of any of them.
LEMMA StreamBytes ==
    ASSUME ConfigInv, BytesInv, NEW c \in Conns, Write(c) \/ IoFails(c) \/ Close(c)
    PROVE  BytesInv'
<1> DEFINE k == conn[c]
<1>1. CASE Write(c)
  <2> DEFINE j == [k EXCEPT !.flow = FlowNoteWrite(@)]
  <2>1. HostCall(c, j) /\ DOMAIN j = ConnFields
    BY <1>1, BytesFields, Zenon DEF Write
  <2>2. OnePlace(j)
    BY BytesFields, Zenon DEF OnePlace, HasIo, ConnFields
  <2>3. Accounted(j)
    BY BytesFields, Unread, Zenon DEF SameBytes, Intact, Attached, HasIo, ConnFields
  <2>4. QED
    BY <2>1, <2>2, <2>3, BytesCall, Zenon
<1>2. CASE IoFails(c)
  <2> DEFINE j == MarkAttachedFailed(k)
  <2>1. HostCall(c, j) /\ DOMAIN j = ConnFields
    BY <1>2, BytesFields, Zenon DEF IoFails, MarkAttachedFailed
  <2>2. OnePlace(j)
    BY <1>2, BytesFields DEF IoFails, OnePlace, HasIo, ConnFields, MarkAttachedFailed,
                             TlsMarkFailed, TlsFields, Running
  <2>3. Accounted(j)
    <3>1. ~Intact(j)
      BY <1>2, BytesFields, Zenon DEF IoFails, OnePlace, HasIo, ConnFields, MarkAttachedFailed,
                               Intact, Attached, Running
    <3>2. QED
      BY <3>1, BytesFields, Gone, EmptySeq, Zenon DEF MarkAttachedFailed, ConnFields
  <2>4. QED
    BY <2>1, <2>2, <2>3, BytesCall, Zenon
<1>3. CASE Close(c)
  <2> DEFINE j == [k EXCEPT !.tcpIo = FALSE, !.tlsIo = FALSE,
                      !.start = FALSE, !.preread = <<>>, !.eof = TRUE,
                      !.tls = TlsMarkClosed(@), !.flow = FlowMarkClosed(@)]
  <2>1. HostCall(c, j) /\ DOMAIN j = ConnFields
    BY <1>3, BytesFields, Zenon DEF Close
  <2>2. OnePlace(j)
    BY <1>3, BytesFields DEF Close, OnePlace, HasIo, ConnFields, TlsMarkClosed, TlsFields, Running
  <2>3. Accounted(j)
    <3>1. CASE Intact(j)
      <4>1. k.carrier \/ k.websocket
        BY <1>3, <3>1, BytesFields, Zenon DEF Close, HasIo, ConnFields, Intact, Attached, Running
      <4>2. SameBytes(k, j)
        BY <4>1, BytesFields, Zenon DEF OnePlace, SameBytes, ConnFields
      <4>3. Intact(k)
        BY <1>3, <3>1, BytesFields DEF Close, HasIo, ConnFields, Intact, Attached, Running,
                                       TlsMarkClosed, TlsFields
      <4>4. ~HasIo(j) /\ ~j.start /\ ~j.tcpIo /\ j.state # "new"
        BY <1>3, BytesFields, Zenon DEF Close, HasIo, ConnFields, Running
      <4> HIDE DEF j
      <4>5. QED
        BY <4>2, <4>3, <4>4, BytesFields, Unread, Zenon
    <3>2. CASE ~Intact(j)
      BY <3>2, BytesFields, Gone, EmptySeq, Zenon DEF ConnFields
    <3>3. QED
      BY <3>1, <3>2, Zenon
  <2>4. QED
    BY <2>1, <2>2, <2>3, BytesCall, Zenon
<1>4. QED
  BY <1>1, <1>2, <1>3, Zenon

\* n bytes leave the socket, and come after all that left it before.
LEMMA Moved ==
    ASSUME NEW k, Accounted(k), Intact(k), NEW n \in 0 .. Len(Waiting(k)), NEW j,
           j.script = k.script, j.sent = k.sent, j.pos = k.pos + n,
           j.got \in Seq(Nat), j.preread \in Seq(Nat),
           j.got \o j.preread = (k.got \o k.preread) \o SubSeq(Waiting(k), 1, n),
           j.state = "new" \/ j.tcpIo => k.state = "new" \/ k.tcpIo,
           (j.state = "new" \/ HasIo(j) \/ j.start) /\ j.eof => j.fin /\ j.pos = j.sent
    PROVE  Accounted(j)
<1>1. /\ k.pos + n \in 0 .. k.sent
      /\ SubSeq(k.script, 1, k.pos) \o SubSeq(Waiting(k), 1, n) = SubSeq(k.script, 1, k.pos + n)
  <2>1. Len(Waiting(k)) = k.sent - k.pos
    BY Positions, Zenon DEF Between
  <2>2. k.pos + n \in 0 .. k.sent
    BY <2>1, Positions
  <2>3. SubSeq(k.script, 1, k.pos) \o SubSeq(Waiting(k), 1, n) = SubSeq(k.script, 1, k.pos + n)
    BY Positions, Zenon DEF Between
  <2>4. QED
    BY <2>2, <2>3, Zenon
<1>2. k.got \o k.preread = SubSeq(k.script, 1, k.pos)
  BY Zenon DEF Accounted
<1>3. j.got \o j.preread = SubSeq(j.script, 1, j.pos)
  BY <1>1, <1>2, Zenon
<1>4. /\ j.script \in Seq(Nat) /\ j.sent \in 0 .. Len(j.script) /\ j.pos \in 0 .. j.sent
      /\ j.state = "new" \/ j.tcpIo => \A i \in 1 .. j.sent : i < j.sent => j.script[i] # Hello
  BY <1>1, Zenon DEF Accounted
<1>5. QED
  BY <1>3, <1>4, Zenon DEF Accounted

\* What one read of the socket returns.
LEMMA SocketReadsBytes ==
    ASSUME NEW k, Accounted(k), NEW max \in Nat, NEW n \in SocketReads(k, max)
    PROVE  /\ n \in 0 .. Len(Waiting(k)) /\ SubSeq(Waiting(k), 1, n) \in Seq(Nat)
           /\ n = 0 => k.fin /\ k.pos = k.sent /\ SubSeq(Waiting(k), 1, n) = <<>>
           /\ k.pos = k.sent => n = 0
<1>1. Len(Waiting(k)) = k.sent - k.pos /\ Len(Waiting(k)) \in Nat
  BY Positions, LenProperties, Zenon DEF Between
<1>2. /\ n \in 0 .. Len(Waiting(k))
      /\ n = 0 => k.fin /\ k.pos = k.sent
      /\ k.pos = k.sent => n = 0
  BY <1>1, Positions DEF SocketReads
<1>3. SubSeq(Waiting(k), 1, n) \in Seq(Nat)
  BY <1>2, Positions, Zenon DEF Between
<1>4. n = 0 => SubSeq(Waiting(k), 1, n) = <<>>
  BY SubSeqEmpty
<1>5. QED
  BY <1>2, <1>3, <1>4, Zenon

\* The preread bytes in front of what is handed out and the rest of them.
LEMMA Halves ==
    ASSUME NEW q \in Seq(Nat), NEW p \in 0 .. Len(q)
    PROVE  /\ SubSeq(q, 1, p) \in Seq(Nat) /\ SubSeq(q, p + 1, Len(q)) \in Seq(Nat)
           /\ SubSeq(q, 1, p) \o SubSeq(q, p + 1, Len(q)) = q
           /\ p = Len(q) => SubSeq(q, 1, p) = q /\ SubSeq(q, p + 1, Len(q)) = <<>>
<1>1. Len(q) \in Nat
  BY LenProperties, Zenon
<1>2. Between(q, 0, Len(q), SubSeq(q, 1, Len(q))) /\ SubSeq(q, 1, Len(q)) = q
  <2>1. /\ Len(q) \in 0 .. Len(q) /\ 0 \in 0 .. Len(q)
        /\ SubSeq(q, 1, Len(q)) = SubSeq(q, 0 + 1, Len(q))
    BY <1>1
  <2>2. Between(q, 0, Len(q), SubSeq(q, 1, Len(q)))
    BY <2>1, PrefixExtends, Zenon
  <2>3. QED
    BY <2>2, SubSeqFull, Zenon
<1>3. SubSeq(q, 1, p) \in Seq(Nat)
  BY <1>1, <1>2, Zenon DEF Between
<1>4. Between(q, p, Len(q), SubSeq(q, p + 1, Len(q)))
  <2>1. Len(q) \in 0 .. Len(q)
    BY <1>1
  <2>2. QED
    BY <2>1, PrefixExtends, Zenon
<1>5. SubSeq(q, p + 1, Len(q)) \in Seq(Nat)
  BY <1>4, Zenon DEF Between
<1>6. SubSeq(q, 1, p) \o SubSeq(q, p + 1, Len(q)) = SubSeq(q, 1, Len(q))
  <2>1. 1 \in 1 .. Len(q) + 1 /\ p \in 1 - 1 .. Len(q) /\ Len(q) \in p .. Len(q)
    BY <1>1
  <2>2. QED
    BY <2>1, ConcatAdjacentSubSeq, Zenon
<1>7. p = Len(q) => SubSeq(q, p + 1, Len(q)) = <<>>
  BY <1>1, SubSeqEmpty
<1>8. QED
  BY <1>2, <1>3, <1>5, <1>6, <1>7, Zenon

\* Concatenation is associative.
LEMMA Regroup ==
    ASSUME NEW x \in Seq(Nat), NEW y \in Seq(Nat), NEW z \in Seq(Nat)
    PROVE  (x \o y) \o z = x \o (y \o z)
OBVIOUS

\* tcp::stream::read hands out the preread bytes and then the socket.
LEMMA ReadStepBytes ==
    ASSUME ConfigInv, BytesInv, NEW c \in Conns, Read(c)
    PROVE  BytesInv'
<1> DEFINE k == conn[c]
           i == [k EXCEPT !.flow = FlowNoteRead(@)]
           p(max) == TakePreread(i, max)
           j(max) == [i EXCEPT !.preread = SubSeq(i.preread, p(max) + 1, Len(i.preread)),
                               !.got = @ \o SubSeq(i.preread, 1, p(max))]
           r(max, n) == [ReadSocket(j(max), n) EXCEPT !.got = @ \o SubSeq(Waiting(i), 1, n)]
<1>1. PICK max \in Chunks :
         \/ HostCall(c, j(max))
         \/ /\ p(max) < max
            /\ \E n \in SocketReads(i, max - p(max)) : HostCall(c, r(max, n))
  BY Zenon DEF Read
<1>2. DOMAIN i = ConnFields /\ \A x \in ConnFields \ {"flow"} : i[x] = k[x]
  BY BytesFields, Zenon DEF ConnFields
<1>3. /\ OnePlace(i) /\ Accounted(i) /\ i.op = NoOp /\ i.state = "running" /\ HasIo(i)
      /\ ~i.start /\ ~i.carrier /\ ~i.websocket
  <2>1. OnePlace(i)
    BY BytesFields, Zenon DEF OnePlace, HasIo, ConnFields
  <2>2. Accounted(i)
    BY BytesFields, Unread, Zenon DEF SameBytes, Intact, Attached, HasIo, ConnFields
  <2>3. Running(c) /\ HasIo(k)
    BY Zenon DEF Read
  <2>4. QED
    BY <2>1, <2>2, <2>3, <1>2, Zenon DEF OnePlace, Running, HasIo, ConnFields
<1> HIDE DEF i
<1> DEFINE m == p(max)
<1>4. max \in Nat /\ m \in 0 .. Len(i.preread) /\ (m < max => m = Len(i.preread))
  <2>1. max \in Nat
    BY TransportAssumption, Zenon
  <2>2. QED
    BY <2>1, <1>3, Positions DEF TakePreread
<1> DEFINE a == SubSeq(i.preread, 1, m)
           b == SubSeq(i.preread, m + 1, Len(i.preread))
<1>5. /\ a \in Seq(Nat) /\ b \in Seq(Nat) /\ a \o b = i.preread
      /\ m = Len(i.preread) => a = i.preread /\ b = <<>>
  BY <1>3, <1>4, Positions, Halves, Zenon
<1>6. /\ i.got \o a \in Seq(Nat) /\ (i.got \o a) \o b = i.got \o i.preread
  <2> HIDE DEF a, b
  <2>1. i.got \in Seq(Nat)
    BY <1>3, Positions, Zenon
  <2>2. i.got \o a \in Seq(Nat)
    BY <2>1, <1>5, ConcatProperties, Zenon
  <2>3. (i.got \o a) \o b = i.got \o (a \o b)
    BY <2>1, <1>5, Regroup, Zenon
  <2>4. QED
    BY <2>2, <2>3, <1>5, Zenon
<1>7. DOMAIN j(max) = ConnFields /\ j(max).preread = b /\ j(max).got = i.got \o a
  BY <1>2, Zenon DEF ConnFields
<1>8. \A x \in ConnFields \ {"preread", "got"} : j(max)[x] = i[x]
  BY <1>2, Zenon DEF ConnFields
<1>9. CASE HostCall(c, j(max))
  <2> HIDE DEF j, a, b, m, p
  <2>1. OnePlace(j(max))
    BY <1>3, <1>8, Zenon DEF OnePlace, HasIo, ConnFields
  <2>2. Intact(i) /\ Intact(j(max))
    BY <1>3, <1>8, Zenon DEF Intact, Attached, HasIo, ConnFields
  <2>3. Accounted(j(max))
    BY <1>3, <1>5, <1>6, <1>7, <1>8, <2>2, Zenon DEF Accounted, HasIo, ConnFields
  <2>4. QED
    BY <1>7, <1>9, <2>1, <2>3, BytesCall, Zenon
<1>10. ASSUME m < max, NEW n \in SocketReads(i, max - m), HostCall(c, r(max, n))
       PROVE  BytesInv'
  <2> DEFINE w == SubSeq(Waiting(i), 1, n)
  <2>1. max - m \in Nat /\ a = i.preread /\ b = <<>>
    BY <1>3, <1>4, <1>5, <1>10, Positions
  <2>2. /\ n \in 0 .. Len(Waiting(i)) /\ w \in Seq(Nat)
        /\ n = 0 => i.fin /\ i.pos = i.sent /\ w = <<>>
    BY <1>3, <2>1, <1>10, SocketReadsBytes, Zenon
  <2> HIDE DEF j, a, b, m, p, w
  <2>3. /\ DOMAIN r(max, n) = ConnFields /\ r(max, n).preread = <<>>
        /\ r(max, n).got = (i.got \o i.preread) \o w
        /\ r(max, n).pos = i.pos + n /\ r(max, n).eof = (n = 0)
    BY <1>7, <1>8, <2>1, Zenon DEF ReadSocket, ConnFields, w
  <2>4. \A x \in ConnFields \ {"preread", "got", "pos", "eof"} : r(max, n)[x] = i[x]
    BY <1>7, <1>8, Zenon DEF ReadSocket, ConnFields
  <2> HIDE DEF r
  <2>5. OnePlace(r(max, n))
    BY <1>3, <2>3, <2>4 DEF OnePlace, HasIo, ConnFields
  <2>6. Intact(i)
    BY <1>3, Zenon DEF Intact, Attached
  <2>7. /\ r(max, n).got \in Seq(Nat) /\ r(max, n).preread \in Seq(Nat)
        /\ r(max, n).got \o r(max, n).preread = (i.got \o i.preread) \o w
    BY <1>3, <2>2, <2>3, Positions, ConcatProperties, ConcatEmptySeq, EmptySeq
  <2>8. r(max, n).eof => r(max, n).fin /\ r(max, n).pos = r(max, n).sent
    <3>1. r(max, n).fin = i.fin /\ r(max, n).sent = i.sent /\ i.pos + 0 = i.pos
      BY <2>4, <1>3, Positions DEF ConnFields
    <3>2. r(max, n).eof => n = 0
      BY <2>3, Zenon
    <3>3. QED
      BY <2>2, <2>3, <3>1, <3>2, Zenon
  <2>9. Accounted(r(max, n))
    <3>1. /\ r(max, n).script = i.script /\ r(max, n).sent = i.sent
          /\ r(max, n).state = i.state /\ r(max, n).tcpIo = i.tcpIo
      BY <2>4, Zenon DEF ConnFields
    <3>2. r(max, n).got \o r(max, n).preread = (i.got \o i.preread) \o SubSeq(Waiting(i), 1, n)
      BY <2>7, Zenon DEF w
    <3>3. QED
      BY <1>3, <2>2, <2>3, <2>6, <2>7, <2>8, <3>1, <3>2, Moved, Zenon
  <2>10. QED
    BY <1>10, <2>3, <2>5, <2>9, BytesCall, Zenon
<1>11. QED
  BY <1>1, <1>9, <1>10, Zenon

\* tcp::stream::peek moves bytes from the socket to the preread buffer.
LEMMA PeekStepBytes ==
    ASSUME ConfigInv, BytesInv, NEW c \in Conns, Peek(c)
    PROVE  BytesInv'
<1> DEFINE k == conn[c]
           p(max) == TakePreread(k, max)
           r(n) == [ReadSocket(k, n) EXCEPT !.preread = @ \o SubSeq(Waiting(k), 1, n)]
<1>1. PICK max \in Chunks :
         \/ HostCall(c, k)
         \/ /\ p(max) < max
            /\ \E n \in SocketReads(k, max - p(max)) : HostCall(c, r(n))
  BY Zenon DEF Peek
<1>2. /\ OnePlace(k) /\ Accounted(k) /\ k.op = NoOp /\ k.state = "running" /\ HasIo(k)
      /\ ~k.start /\ ~k.carrier /\ ~k.websocket /\ DOMAIN k = ConnFields
  BY BytesFields, Zenon DEF Peek, OnePlace, Running, HasIo
<1>3. CASE HostCall(c, k)
  BY <1>2, <1>3, BytesCall, Zenon
<1>4. ASSUME p(max) < max, NEW n \in SocketReads(k, max - p(max)), HostCall(c, r(n))
      PROVE  BytesInv'
  <2> DEFINE w == SubSeq(Waiting(k), 1, n)
  <2>1. max - p(max) \in Nat
    <3>1. max \in Nat
      BY TransportAssumption, Zenon
    <3>2. QED
      BY <3>1, <1>2, <1>4, Positions DEF TakePreread
  <2>2. /\ n \in 0 .. Len(Waiting(k)) /\ w \in Seq(Nat)
        /\ n = 0 => k.fin /\ k.pos = k.sent /\ w = <<>>
    BY <1>2, <2>1, <1>4, SocketReadsBytes, Zenon
  <2>3. /\ DOMAIN r(n) = ConnFields /\ r(n).preread = k.preread \o w
        /\ r(n).pos = k.pos + n /\ r(n).eof = (n = 0)
    BY <1>2, Zenon DEF ReadSocket, ConnFields
  <2>4. \A x \in ConnFields \ {"preread", "pos", "eof"} : r(n)[x] = k[x]
    BY <1>2, Zenon DEF ReadSocket, ConnFields
  <2> HIDE DEF r, w
  <2>5. OnePlace(r(n))
    BY <1>2, <2>3, <2>4, Zenon DEF OnePlace, HasIo, ConnFields
  <2>6. Intact(k)
    BY <1>2, Zenon DEF Intact, Attached
  <2>7. /\ r(n).got = k.got /\ k.got \in Seq(Nat) /\ k.preread \in Seq(Nat)
    BY <1>2, <2>4, Positions, Zenon DEF ConnFields
  <2>8. /\ r(n).preread \in Seq(Nat)
        /\ r(n).got \o r(n).preread = (k.got \o k.preread) \o w
    <3>1. k.preread \o w \in Seq(Nat)
      BY <2>2, <2>7, ConcatProperties, Zenon
    <3>2. (k.got \o k.preread) \o w = k.got \o (k.preread \o w)
      BY <2>2, <2>7, Regroup, Zenon
    <3>3. QED
      BY <2>3, <2>7, <3>1, <3>2, Zenon
  <2>9. r(n).eof => r(n).fin /\ r(n).pos = r(n).sent
    <3>1. r(n).fin = k.fin /\ r(n).sent = k.sent /\ k.pos + 0 = k.pos
      BY <2>4, <1>2, Positions DEF ConnFields
    <3>2. r(n).eof => n = 0
      BY <2>3, Zenon
    <3>3. QED
      BY <2>2, <2>3, <3>1, <3>2, Zenon
  <2>10. Accounted(r(n))
    <3>1. /\ r(n).script = k.script /\ r(n).sent = k.sent /\ r(n).state = k.state
          /\ r(n).tcpIo = k.tcpIo
      BY <2>4, Zenon DEF ConnFields
    <3>2. QED
      BY <1>2, <2>2, <2>3, <2>6, <2>7, <2>8, <2>9, <3>1, Moved, Zenon DEF w
  <2>11. QED
    BY <1>4, <2>3, <2>5, <2>10, BytesCall, Zenon
<1>5. QED
  BY <1>1, <1>3, <1>4, Zenon

\* A rejected hello: what the acceptor consumed counts as handed out.
LEMMA RejectBytes ==
    ASSUME ConfigInv, BytesInv, NEW c \in Conns, FromSocketRejects(c)
    PROVE  BytesInv'
<1> DEFINE k == conn[c]
           p == Len(k.preread)
           a(n) == SubSeq(k.preread, 1, n)
           b(n) == SubSeq(k.preread, n + 1, p)
           i(n) == [k EXCEPT !.preread = b(n), !.got = @ \o a(n)]
           w(n) == SubSeq(Waiting(k), 1, n)
           r(n) == [k EXCEPT !.pos = @ + n, !.got = @ \o w(n)]
<1>1. \/ \E n \in 1 .. p : HostCall(c, i(n))
      \/ p = 0 /\ \E n \in SocketReads(k, Len(k.script)) : HostCall(c, r(n))
  BY Zenon DEF FromSocketRejects
<1>2. /\ OnePlace(k) /\ Accounted(k) /\ k.op = NoOp /\ k.state = "running" /\ k.tcpIo
      /\ ~k.tlsIo /\ ~k.start /\ ~k.carrier /\ ~k.websocket /\ DOMAIN k = ConnFields
  BY BytesFields, Zenon DEF FromSocketRejects, OnePlace, Running, HasIo
<1>3. /\ k.got \in Seq(Nat) /\ k.preread \in Seq(Nat) /\ p \in Nat /\ Intact(k)
  BY <1>2, Positions, Zenon DEF Intact, Attached, HasIo
<1>4. ASSUME NEW n \in 1 .. p, HostCall(c, i(n)) PROVE BytesInv'
  <2>1. a(n) \in Seq(Nat) /\ b(n) \in Seq(Nat) /\ a(n) \o b(n) = k.preread
    <3>1. n \in 0 .. Len(k.preread)
      BY <1>3
    <3>2. QED
      BY <1>3, <3>1, Halves, Zenon
  <2>2. DOMAIN i(n) = ConnFields /\ i(n).preread = b(n) /\ i(n).got = k.got \o a(n)
    BY <1>2, Zenon DEF ConnFields
  <2>3. \A x \in ConnFields \ {"preread", "got"} : i(n)[x] = k[x]
    BY <1>2, Zenon DEF ConnFields
  <2> HIDE DEF i, a, b
  <2>4. k.got \o a(n) \in Seq(Nat) /\ (k.got \o a(n)) \o b(n) = k.got \o k.preread
    <3>1. k.got \o a(n) \in Seq(Nat)
      BY <1>3, <2>1, ConcatProperties, Zenon
    <3>2. (k.got \o a(n)) \o b(n) = k.got \o (a(n) \o b(n))
      BY <1>3, <2>1, Regroup, Zenon
    <3>3. QED
      BY <2>1, <3>1, <3>2, Zenon
  <2>5. OnePlace(i(n))
    BY <1>2, <2>3, Zenon DEF OnePlace, HasIo, ConnFields
  <2>6. Accounted(i(n))
    BY <1>2, <1>3, <2>1, <2>2, <2>3, <2>4, Zenon DEF Accounted, HasIo, ConnFields
  <2>7. QED
    BY <1>4, <2>2, <2>5, <2>6, BytesCall, Zenon
<1>5. ASSUME p = 0, NEW n \in SocketReads(k, Len(k.script)), HostCall(c, r(n))
      PROVE  BytesInv'
  <2>1. k.preread = <<>>
    BY <1>3, <1>5, EmptySeq, Zenon
  <2>2. /\ n \in 0 .. Len(Waiting(k)) /\ w(n) \in Seq(Nat)
        /\ k.pos = k.sent => n = 0
    BY <1>2, <1>5, Positions, SocketReadsBytes
  <2>3. DOMAIN r(n) = ConnFields /\ r(n).pos = k.pos + n /\ r(n).got = k.got \o w(n)
    BY <1>2, Zenon DEF ConnFields
  <2>4. \A x \in ConnFields \ {"pos", "got"} : r(n)[x] = k[x]
    BY <1>2, Zenon DEF ConnFields
  <2> HIDE DEF r, w
  <2>5. OnePlace(r(n))
    BY <1>2, <2>4, Zenon DEF OnePlace, HasIo, ConnFields
  <2>6. /\ r(n).got \in Seq(Nat) /\ r(n).preread = <<>> /\ <<>> \in Seq(Nat)
        /\ r(n).got \o r(n).preread = (k.got \o k.preread) \o w(n)
    <3>1. r(n).preread = <<>> /\ <<>> \in Seq(Nat)
      BY <2>1, <2>4 DEF ConnFields
    <3>2. k.got \o w(n) \in Seq(Nat) /\ k.got \o <<>> = k.got
      BY <1>3, <2>2, ConcatProperties, ConcatEmptySeq, Zenon
    <3>3. (k.got \o w(n)) \o <<>> = k.got \o w(n)
      BY <3>2, ConcatEmptySeq, Zenon
    <3>4. QED
      BY <3>1, <3>2, <3>3, <2>1, <2>3, Zenon
  <2>7. r(n).eof => r(n).fin /\ r(n).pos = r(n).sent
    <3>1. k.eof => k.fin /\ k.pos = k.sent
      BY <1>2, Zenon DEF Accounted, HasIo
    <3>2. r(n).fin = k.fin /\ r(n).sent = k.sent /\ k.pos + 0 = k.pos /\ r(n).eof = k.eof
      BY <2>4, <1>2, Positions DEF ConnFields
    <3>3. QED
      BY <2>2, <2>3, <3>1, <3>2, Zenon
  <2>8. Accounted(r(n))
    <3>1. /\ r(n).script = k.script /\ r(n).sent = k.sent /\ r(n).state = k.state
          /\ r(n).tcpIo = k.tcpIo
      BY <2>4, Zenon DEF ConnFields
    <3>2. QED
      BY <1>2, <1>3, <2>2, <2>3, <2>6, <2>7, <3>1, Moved, Zenon DEF w
  <2>9. QED
    BY <1>5, <2>3, <2>5, <2>8, BytesCall, Zenon
<1>6. QED
  BY <1>1, <1>4, <1>5, Zenon

\* A prefix grows by one element.
LEMMA OneMore ==
    ASSUME NEW s \in Seq(Nat), NEW p \in Nat, p < Len(s)
    PROVE  SubSeq(s, 1, p + 1) = Append(SubSeq(s, 1, p), s[p + 1])
OBVIOUS

\* Adding a sequence of one element appends it.
LEMMA AddSingle ==
    ASSUME NEW g \in Seq(Nat), NEW q \in Seq(Nat), Len(q) = 1
    PROVE  g \o q = Append(g, q[1])
<1>1. q[1] \in Nat
  <2>1. 1 \in 1 .. Len(q)
    OBVIOUS
  <2>2. QED
    BY <2>1, ElementOfSeq, Zenon
<1>2. q = <<q[1]>>
  <2> DEFINE t == <<q[1]>>
  <2>1. t \in Seq(Nat) /\ Len(t) = 1 /\ t[1] = q[1]
    BY <1>1
  <2> HIDE DEF t
  <2>2. \A i \in 1 .. Len(q) : q[i] = t[i]
    BY <2>1
  <2>3. q = t
    BY <2>1, <2>2, SeqEqual, Zenon
  <2>4. QED
    BY <2>3, Zenon DEF t
<1>3. Append(g, q[1]) = g \o <<q[1]>>
  BY <1>1, AppendIsConcat, Zenon
<1>4. QED
  BY <1>2, <1>3, Zenon

\* The elements of a prefix.
LEMMA PrefixElements ==
    ASSUME NEW s \in Seq(Nat), NEW p \in 0 .. Len(s)
    PROVE  /\ Len(SubSeq(s, 1, p)) = p
           /\ \A i \in 1 .. p : SubSeq(s, 1, p)[i] = s[i]
OBVIOUS

\* Where the first element of a part of a concatenation is.
LEMMA ConcatFirst ==
    ASSUME NEW g \in Seq(Nat), NEW q \in Seq(Nat), Len(q) > 0
    PROVE  (g \o q)[Len(g) + 1] = q[1] /\ (q \o g)[1] = q[1]
OBVIOUS

\* The client hello is the first byte that was not handed out, and the last one
\* sent: the acceptor takes it and nothing else.
LEMMA HelloIsNext ==
    ASSUME NEW k, Accounted(k), Intact(k), k.tcpIo,
           k.preread \o Waiting(k) # <<>>, (k.preread \o Waiting(k))[1] = Hello
    PROVE  /\ k.pos + (1 - Len(k.preread)) \in 0 .. k.sent
           /\ Append(k.got, Hello) = SubSeq(k.script, 1, k.pos + (1 - Len(k.preread)))
           /\ k.eof => k.pos + (1 - Len(k.preread)) = k.sent
<1> DEFINE q == k.preread
           g == k.got
           s == k.script
           w == Waiting(k)
<1>1. /\ q \in Seq(Nat) /\ g \in Seq(Nat) /\ s \in Seq(Nat) /\ Len(s) \in Nat
      /\ Len(q) \in Nat /\ Len(g) \in Nat /\ k.pos \in Nat /\ k.sent \in Nat
      /\ k.pos <= k.sent /\ k.sent <= Len(s)
  BY Positions, Zenon
<1>2. w \in Seq(Nat) /\ Len(w) = k.sent - k.pos /\ \A i \in 1 .. Len(w) : w[i] = s[k.pos + i]
  BY Positions, Zenon DEF Between
<1>3. /\ \A i \in 1 .. k.sent : i < k.sent => s[i] # Hello
      /\ k.eof => k.pos = k.sent
      /\ g \o q = SubSeq(s, 1, k.pos)
  BY Zenon DEF Accounted, HasIo
<1>4. /\ Len(g) + Len(q) = k.pos
      /\ \A i \in 1 .. k.pos : (g \o q)[i] = s[i]
  <2>1. k.pos \in 0 .. Len(s)
    BY <1>1
  <2>2. /\ Len(SubSeq(s, 1, k.pos)) = k.pos
        /\ \A i \in 1 .. k.pos : SubSeq(s, 1, k.pos)[i] = s[i]
    BY <1>1, <2>1, PrefixElements, Zenon
  <2>3. Len(g \o q) = Len(g) + Len(q)
    BY <1>1
  <2>4. QED
    BY <1>3, <2>2, <2>3, Zenon
<1> HIDE DEF q, g, s, w
<1>5. CASE q # <<>>
  <2>1. Len(q) > 0 /\ (q \o w)[1] = q[1]
    BY <1>1, <1>2, <1>5, EmptySeq, ConcatFirst
  <2>2. q[1] = Hello
    BY <2>1, Zenon DEF q, w
  <2>3. (g \o q)[Len(g) + 1] = q[1]
    BY <1>1, <2>1, ConcatFirst, Zenon
  <2>4. Len(g) + 1 \in 1 .. k.pos
    BY <1>1, <1>4, <2>1, SMTT(30)
  <2>5. s[Len(g) + 1] = Hello
    BY <1>4, <2>2, <2>3, <2>4, Zenon
  <2>6. k.sent <= Len(g) + 1
    <3>1. Len(g) + 1 \in 1 .. k.sent
      BY <1>1, <2>4
    <3>2. ~(Len(g) + 1 < k.sent)
      BY <1>3, <2>5, <3>1, Zenon
    <3>3. QED
      BY <1>1, <3>2
  <2>7. Len(q) = 1 /\ k.pos = k.sent
    <3>1. Len(g) + Len(q) = k.pos
      BY <1>4, Zenon
    <3>2. \A a, b, p, m \in Nat : a + b = p /\ b > 0 /\ m <= a + 1 /\ p <= m => b = 1 /\ p = m
      OBVIOUS
    <3>3. QED
      BY <1>1, <2>1, <2>6, <3>1, <3>2, Zenon
  <2>8. g \o q = Append(g, Hello)
    BY <1>1, <2>2, <2>7, AddSingle
  <2>9. k.pos + (1 - 1) = k.pos /\ k.pos \in 0 .. k.sent
    BY <1>1
  <2>10. QED
    BY <1>3, <2>7, <2>8, <2>9, Zenon DEF q, g, s
<1>6. CASE q = <<>>
  <2>1. Len(q) = 0 /\ q \o w = w /\ g \o q = g
    BY <1>1, <1>2, <1>6
  <2>2. w # <<>> /\ w[1] = Hello
    BY <2>1, Zenon DEF q, w
  <2>3. Len(w) > 0
    BY <1>2, <2>2
  <2>4. k.pos < k.sent /\ s[k.pos + 1] = Hello
    BY <1>1, <1>2, <2>2, <2>3, SMTT(30)
  <2>5. SubSeq(s, 1, k.pos + 1) = Append(SubSeq(s, 1, k.pos), s[k.pos + 1])
    <3>1. k.pos < Len(s)
      BY <1>1, <2>4
    <3>2. QED
      BY <1>1, <3>1, OneMore, Zenon
  <2>6. k.pos + (1 - 0) = k.pos + 1 /\ k.pos + 1 \in 0 .. k.sent
    BY <1>1, <2>4, SMTT(30)
  <2>7. ~k.eof
    BY <1>1, <1>3, <2>4, SMTT(30)
  <2>8. QED
    BY <1>3, <2>1, <2>4, <2>5, <2>6, <2>7, Zenon DEF q, g, s
<1>7. QED
  BY <1>5, <1>6, Zenon

\* tls::session::from_socket.
LEMMA FromSocketBytes ==
    ASSUME ConfigInv, BytesInv, NEW c \in Conns, FromSocket(c)
    PROVE  BytesInv'
<1> DEFINE k == conn[c]
           j == [k EXCEPT !.tcpIo = FALSE, !.preread = <<>>, !.start = TRUE,
                          !.got = Append(@, Hello),
                          !.pos = @ + (1 - Len(k.preread)),
                          !.tls = TlsObserveClientHello(@)]
           r == RestoreCached(j)
<1>1. HostCall(c, r)
  BY Zenon DEF FromSocket
<1>2. /\ OnePlace(k) /\ Accounted(k) /\ k.op = NoOp /\ k.state = "running" /\ k.tcpIo
      /\ ~k.tlsIo /\ ~k.start /\ ~k.carrier /\ ~k.websocket /\ DOMAIN k = ConnFields
      /\ Intact(k)
  BY BytesFields, Zenon DEF FromSocket, OnePlace, Running, HasIo, Intact, Attached
<1>3. k.preread \o Waiting(k) # <<>> /\ (k.preread \o Waiting(k))[1] = Hello
  BY Zenon DEF FromSocket
<1>4. /\ DOMAIN j = ConnFields /\ ~j.tcpIo /\ j.start /\ j.preread = <<>>
      /\ j.got = Append(k.got, Hello) /\ j.pos = k.pos + (1 - Len(k.preread))
  BY <1>2, Zenon DEF ConnFields
<1>5. \A x \in ConnFields \ {"tcpIo", "preread", "start", "got", "pos", "tls"} : j[x] = k[x]
  BY <1>2, Zenon DEF ConnFields
<1> HIDE DEF j
<1>6. DOMAIN r = ConnFields /\ \A x \in ConnFields \ {"tls", "prepared"} : r[x] = j[x]
  BY <1>4, Zenon DEF RestoreCached, ConnFields
<1> HIDE DEF r
<1>7. /\ r.op = NoOp /\ r.state = "running" /\ ~r.tcpIo /\ ~r.tlsIo /\ r.start /\ ~r.carrier
      /\ ~r.websocket /\ r.preread = <<>> /\ r.eof = k.eof /\ r.fin = k.fin
      /\ r.sent = k.sent /\ r.script = k.script
      /\ r.got = Append(k.got, Hello) /\ r.pos = k.pos + (1 - Len(k.preread))
  BY <1>2, <1>4, <1>5, <1>6 DEF ConnFields
<1>8. OnePlace(r)
  BY <1>7, Zenon DEF OnePlace, HasIo
<1>9. Accounted(r)
  <2>1. /\ r.pos \in 0 .. k.sent /\ r.got = SubSeq(k.script, 1, r.pos)
        /\ k.eof => r.pos = k.sent
    BY <1>2, <1>3, <1>7, HelloIsNext, Zenon
  <2>2. r.got \in Seq(Nat) /\ r.got \o <<>> = r.got /\ <<>> \in Seq(Nat)
    BY <1>2, <1>7, Positions DEF Hello
  <2>3. k.script \in Seq(Nat) /\ k.sent \in 0 .. Len(k.script) /\ (k.eof => k.fin)
    BY <1>2, Zenon DEF Accounted, HasIo
  <2>4. QED
    BY <1>7, <2>1, <2>2, <2>3, Zenon DEF Accounted
<1>10. QED
  BY <1>1, <1>6, <1>8, <1>9, BytesCall, Zenon DEF RestoreCached

\* The other steps of a TLS session read and drop nothing.
LEMMA SessionBytes ==
    ASSUME ConfigInv, BytesInv, NEW c \in Conns,
           \/ Configure(c) \/ HandshakeBegin(c) \/ BuildConfigFails(c) \/ HandshakeEnd(c)
           \/ CacheConfig(c)
    PROVE  BytesInv'
<1> DEFINE k == conn[c]
<1>1. CASE Configure(c)
  <2> DEFINE j == [k EXCEPT !.tls = TlsSetPolicy(@, k.version), !.prepared = None]
  <2>1. HostCall(c, j) /\ DOMAIN j = ConnFields
    BY <1>1, BytesFields, Zenon DEF Configure
  <2>2. j.tls.complete = k.tls.complete
    BY BytesFields, Zenon DEF ConnFields, TlsSetPolicy, TlsFields
  <2>3. \A x \in ConnFields \ {"tls", "prepared"} : j[x] = k[x]
    BY BytesFields, Zenon DEF ConnFields
  <2> HIDE DEF j
  <2>4. OnePlace(j)
    BY BytesFields, <2>2, <2>3, Zenon DEF OnePlace, HasIo, ConnFields
  <2>5. Accounted(j)
    BY BytesFields, <2>2, <2>3, Unread, Zenon DEF SameBytes, Intact, Attached, HasIo, ConnFields
  <2>6. QED
    BY <2>1, <2>4, <2>5, BytesCall, Zenon
<1>2. CASE HandshakeBegin(c)
  <2> DEFINE o == [step |-> "handshake", policy |-> k.tls.policy,
                   config |-> IF k.prepared # None THEN Get(k.prepared) ELSE k.tls.policy]
             j == [k EXCEPT !.start = FALSE, !.prepared = None, !.op = o]
  <2>1. HostCall(c, j) /\ DOMAIN j = ConnFields
    BY <1>2, BytesFields, Zenon DEF HandshakeBegin
  <2>2. k.start /\ k.state = "running" /\ k.op = NoOp
    BY <1>2, Zenon DEF HandshakeBegin, Running
  <2>3. ~j.start /\ j.op = o /\ \A x \in ConnFields \ {"start", "prepared", "op"} : j[x] = k[x]
    BY BytesFields, Zenon DEF ConnFields
  <2> HIDE DEF j, o
  <2>4. OnePlace(j)
    BY BytesFields, <2>2, <2>3, Zenon DEF OnePlace, HasIo, ConnFields
  <2>5. Intact(k)
    BY <2>2, Zenon DEF Intact, Attached
  <2>6. Accounted(j)
    <3>1. SameBytes(k, j)
      BY <2>3, Zenon DEF SameBytes, ConnFields
    <3>2. ~j.tcpIo /\ ~HasIo(j) /\ ~j.start /\ j.state # "new"
      BY BytesFields, <2>2, <2>3, Zenon DEF OnePlace, HasIo, ConnFields
    <3>3. QED
      BY BytesFields, <2>5, <3>1, <3>2, Unread, Zenon
  <2>7. QED
    BY <2>1, <2>4, <2>6, BytesCall, Zenon
<1>3. CASE BuildConfigFails(c)
  <2> DEFINE j == [k EXCEPT !.start = FALSE]
  <2>1. HostCall(c, j) /\ DOMAIN j = ConnFields
    BY <1>3, BytesFields, Zenon DEF BuildConfigFails
  <2>2. OnePlace(j)
    BY BytesFields, Zenon DEF OnePlace, HasIo, ConnFields
  <2>3. Accounted(j)
    BY BytesFields, Unread, Zenon DEF SameBytes, Intact, Attached, HasIo, ConnFields
  <2>4. QED
    BY <2>1, <2>2, <2>3, BytesCall, Zenon
<1>4. CASE HandshakeEnd(c)
  <2> DEFINE f(r, v) == [k EXCEPT !.flow = FlowMarkConnected(@), !.eof = FALSE,
                                  !.tls = TlsNoteServerFlight(@, r, v)]
             done(r, v) == [f(r, v) EXCEPT !.tls = TlsMarkComplete(@),
                                           !.tlsIo = TRUE, !.op.step = "cache"]
             mismatch(r, v) == [f(r, v) EXCEPT !.tls = TlsMarkFailed(@), !.op = NoOp]
             failed == [k EXCEPT !.flow = FlowMarkFailed(@),
                                 !.tls = TlsMarkFailed(@), !.op = NoOp]
  <2>1. \/ \E r, v \in BOOLEAN : HostCall(c, done(r, v))
        \/ \E r, v \in BOOLEAN : HostCall(c, mismatch(r, v))
        \/ HostCall(c, failed)
    BY <1>4, Zenon DEF HandshakeEnd
  <2>2. /\ k.op # NoOp /\ ~k.carrier /\ ~k.websocket /\ ~k.start /\ ~k.tcpIo
        /\ k.state # "new" /\ k.preread = <<>> /\ Intact(k)
    <3>1. k.op.step = "handshake"
      BY <1>4, Zenon DEF HandshakeEnd
    <3>2. k.op # NoOp
      BY <3>1 DEF NoOp
    <3>3. QED
      BY <3>2, BytesFields, Zenon DEF OnePlace, Intact, Attached
  <2>3. ASSUME NEW r, NEW v
        PROVE  /\ DOMAIN f(r, v) = ConnFields /\ ~f(r, v).eof
               /\ \A x \in ConnFields \ {"flow", "eof", "tls"} : f(r, v)[x] = k[x]
    BY BytesFields, Zenon DEF ConnFields
  <2> HIDE DEF f
  <2>4. ASSUME NEW r, NEW v PROVE HostCall(c, done(r, v)) => BytesInv'
    <3> DEFINE g == f(r, v)
               j == done(r, v)
    <3>1. /\ DOMAIN j = ConnFields /\ ~j.eof
          /\ \A x \in ConnFields \ {"flow", "eof", "tls", "tlsIo", "op"} : j[x] = k[x]
      <4>1. DOMAIN g = ConnFields
        BY <2>3, Zenon
      <4>2. /\ DOMAIN j = ConnFields /\ j.eof = g.eof
            /\ \A x \in ConnFields \ {"flow", "eof", "tls", "tlsIo", "op"} : j[x] = g[x]
        BY <4>1, Zenon DEF ConnFields
      <4> HIDE DEF done, g
      <4>3. ~g.eof /\ \A x \in ConnFields \ {"flow", "eof", "tls"} : g[x] = k[x]
        BY <2>3, Zenon DEF g
      <4>4. QED
        BY <4>2, <4>3, Zenon
    <3> HIDE DEF done
    <3>2. OnePlace(j)
      BY <2>2, <3>1, Zenon DEF OnePlace, HasIo, ConnFields
    <3>3. SameBytes(k, j) /\ ~j.tcpIo /\ ~j.eof /\ j.state # "new"
      BY <2>2, <3>1, Zenon DEF SameBytes, ConnFields
    <3>4. Accounted(j)
      BY BytesFields, <2>2, <3>3, Unread, Zenon
    <3>5. QED
      BY <3>1, <3>2, <3>4, BytesCall, Zenon
  <2>5. ASSUME NEW r, NEW v PROVE HostCall(c, mismatch(r, v)) => BytesInv'
    <3> DEFINE g == f(r, v)
               j == mismatch(r, v)
    <3>1. /\ DOMAIN j = ConnFields /\ ~j.eof /\ j.op = NoOp
          /\ \A x \in ConnFields \ {"flow", "eof", "tls", "op"} : j[x] = k[x]
      <4>1. DOMAIN g = ConnFields
        BY <2>3, Zenon
      <4>2. /\ DOMAIN j = ConnFields /\ j.eof = g.eof /\ j.op = NoOp
            /\ \A x \in ConnFields \ {"flow", "eof", "tls", "op"} : j[x] = g[x]
        BY <4>1, Zenon DEF ConnFields
      <4> HIDE DEF mismatch, g
      <4>3. ~g.eof /\ \A x \in ConnFields \ {"flow", "eof", "tls"} : g[x] = k[x]
        BY <2>3, Zenon DEF g
      <4>4. QED
        BY <4>2, <4>3, Zenon
    <3> HIDE DEF mismatch
    <3>2. OnePlace(j)
      BY <2>2, <3>1, BytesFields, Zenon DEF OnePlace, HasIo, ConnFields
    <3>3. SameBytes(k, j) /\ ~j.tcpIo /\ ~j.eof /\ j.state # "new"
      BY <2>2, <3>1, Zenon DEF SameBytes, ConnFields
    <3>4. Accounted(j)
      BY BytesFields, <2>2, <3>3, Unread, Zenon
    <3>5. QED
      BY <3>1, <3>2, <3>4, BytesCall, Zenon
  <2>6. HostCall(c, failed) => BytesInv'
    <3> DEFINE j == failed
    <3>1. /\ DOMAIN j = ConnFields /\ j.op = NoOp
          /\ \A x \in ConnFields \ {"flow", "tls", "op"} : j[x] = k[x]
      BY BytesFields, Zenon DEF ConnFields
    <3> HIDE DEF failed
    <3>2. OnePlace(j)
      BY <2>2, <3>1, BytesFields, Zenon DEF OnePlace, HasIo, ConnFields
    <3>3. /\ SameBytes(k, j) /\ ~j.tcpIo /\ j.eof = k.eof /\ j.state # "new"
          /\ j.tlsIo = k.tlsIo /\ ~j.start
      BY <2>2, <3>1, Zenon DEF SameBytes, ConnFields
    <3>4. Accounted(j)
      BY BytesFields, <2>2, <3>3, Unread, Zenon DEF HasIo
    <3>5. QED
      BY <3>1, <3>2, <3>4, BytesCall, Zenon
  <2>7. QED
    BY <2>1, <2>4, <2>5, <2>6, Zenon
<1>5. CASE CacheConfig(c)
  <2> DEFINE j == [k EXCEPT !.op = NoOp]
  <2>1. conn' = [conn EXCEPT ![c] = j]
    BY <1>5, BytesFields, Zenon DEF CacheConfig
  <2>2. OnePlace(j)
    BY BytesFields, Zenon DEF OnePlace, HasIo, ConnFields
  <2>3. Accounted(j)
    BY BytesFields, Unread, Zenon DEF SameBytes, Intact, Attached, HasIo, ConnFields
  <2>4. QED
    BY <2>1, <2>2, <2>3, BytesStep, Zenon
<1>6. QED
  BY <1>1, <1>2, <1>3, <1>4, <1>5, Zenon

\* The bytes that were peeked at go in front of what the next reader reads.
LEMMA HandedOver ==
    ASSUME NEW k, Accounted(k), Intact(k), NEW j, j.script = k.script, j.sent = k.sent,
           j.pos = k.pos, j.got = k.got \o k.preread, j.preread = <<>>,
           j.state # "new", ~HasIo(j), ~j.start
    PROVE  Accounted(j)
<1>1. k.got \in Seq(Nat) /\ k.preread \in Seq(Nat)
  BY Positions, Zenon
<1>2. j.got \in Seq(Nat) /\ <<>> \in Seq(Nat) /\ j.got \o <<>> = j.got
  BY <1>1, ConcatProperties, ConcatEmptySeq
<1>3. QED
  BY <1>2, Zenon DEF Accounted, HasIo

\* The hand-overs to HTTP and to a WebSocket session.
LEMMA HandoffBytes ==
    ASSUME ConfigInv, BytesInv, NEW c \in Conns, Handoff(c) \/ WebSocketAccept(c)
    PROVE  BytesInv'
<1> DEFINE k == conn[c]
<1>1. /\ OnePlace(k) /\ Accounted(k) /\ DOMAIN k = ConnFields /\ HasIo(k)
      /\ k.op = NoOp /\ k.state = "running" /\ ~k.start /\ ~k.carrier /\ ~k.websocket
      /\ Intact(k)
  BY BytesFields, Zenon DEF Handoff, WebSocketAccept, OnePlace, Running, HasIo, Intact, Attached
<1>2. CASE Handoff(c)
  <2> DEFINE j == [k EXCEPT !.tcpIo = FALSE, !.tlsIo = FALSE, !.carrier = TRUE,
                            !.preread = <<>>, !.got = @ \o k.preread]
  <2>1. conn' = [conn EXCEPT ![c] = j]
    BY <1>2, Zenon DEF Handoff
  <2>2. /\ DOMAIN j = ConnFields /\ ~HasIo(j) /\ ~j.tcpIo /\ ~j.tlsIo
        /\ j.got = k.got \o k.preread /\ j.preread = <<>>
    BY <1>1, Zenon DEF HasIo, ConnFields
  <2>3. \A x \in ConnFields \ {"tcpIo", "tlsIo", "carrier", "preread", "got"} : j[x] = k[x]
    BY <1>1, Zenon DEF ConnFields
  <2> HIDE DEF j
  <2>4. OnePlace(j)
    BY <1>1, <2>2, <2>3, Zenon DEF OnePlace, HasIo, ConnFields
  <2>5. /\ j.script = k.script /\ j.sent = k.sent /\ j.pos = k.pos
        /\ j.state # "new" /\ ~j.start
    BY <1>1, <2>3, Zenon DEF ConnFields
  <2>6. Accounted(j)
    BY <1>1, <2>2, <2>5, HandedOver, Zenon
  <2>7. QED
    BY <2>1, <2>4, <2>6, BytesStep, Zenon
<1>3. CASE WebSocketAccept(c)
  <2> DEFINE j == [k EXCEPT !.tcpIo = FALSE, !.tlsIo = FALSE, !.preread = <<>>,
                            !.got = IF k.tlsIo THEN @ \o k.preread ELSE @]
             a == [j EXCEPT !.websocket = TRUE, !.flow = FlowMarkConnected(@)]
             b == [j EXCEPT !.flow = FlowMarkFailed(@),
                            !.tls = IF k.tls.present THEN TlsMarkFailed(@) ELSE @]
  <2>1. conn' = [conn EXCEPT ![c] = a] \/ conn' = [conn EXCEPT ![c] = b]
    BY <1>3, Zenon DEF WebSocketAccept
  <2>2. /\ DOMAIN j = ConnFields /\ ~HasIo(j) /\ ~j.tcpIo /\ ~j.tlsIo /\ j.preread = <<>>
        /\ j.got = IF k.tlsIo THEN k.got \o k.preread ELSE k.got
    BY <1>1, Zenon DEF HasIo, ConnFields
  <2>3. \A x \in ConnFields \ {"tcpIo", "tlsIo", "preread", "got"} : j[x] = k[x]
    BY <1>1, Zenon DEF ConnFields
  <2> HIDE DEF j
  <2>4. /\ DOMAIN a = ConnFields
        /\ \A x \in ConnFields \ {"websocket", "flow"} : a[x] = j[x]
    BY <2>2, Zenon DEF ConnFields
  <2>5. /\ DOMAIN b = ConnFields
        /\ \A x \in ConnFields \ {"tls", "flow"} : b[x] = j[x]
    BY <2>2, Zenon DEF ConnFields
  <2> HIDE DEF a, b
  <2>6. j.got \in Seq(Nat) /\ <<>> \in Seq(Nat)
    <3>1. k.got \in Seq(Nat) /\ k.preread \in Seq(Nat)
      BY <1>1, Positions, Zenon
    <3>2. k.got \o k.preread \in Seq(Nat)
      BY <3>1, ConcatProperties, Zenon
    <3>3. QED
      BY <3>1, <3>2, <2>2
  <2>7. OnePlace(a) /\ Accounted(a)
    <3>1. OnePlace(a)
      BY <1>1, <2>2, <2>3, <2>4, Zenon DEF OnePlace, HasIo, ConnFields
    <3>2. /\ ~HasIo(a) /\ ~a.tcpIo /\ ~a.start /\ a.state # "new" /\ a.got = j.got
          /\ a.preread = <<>> /\ a.script = k.script /\ a.sent = k.sent /\ a.pos = k.pos
          /\ a.fin = k.fin /\ ~a.carrier /\ a.op = NoOp /\ a.tls = k.tls
      BY <1>1, <2>2, <2>3, <2>4, Zenon DEF HasIo, ConnFields
    <3>3. CASE k.tlsIo
      <4>1. a.got = k.got \o k.preread
        BY <2>2, <3>2, <3>3, Zenon
      <4>2. Accounted(a)
        BY <1>1, <3>2, <4>1, HandedOver, Zenon
      <4>3. QED
        BY <3>1, <4>2, Zenon
    <3>4. CASE ~k.tlsIo
      <4>1. ~Intact(a)
        BY <1>1, <3>2, <3>4, Zenon DEF Intact, Attached, OnePlace, HasIo
      <4>2. a.got = k.got
        BY <2>2, <3>2, <3>4, Zenon
      <4>3. Accounted(a)
        BY <1>1, <2>6, <3>2, <4>1, <4>2, Gone, Zenon
      <4>4. QED
        BY <3>1, <4>3, Zenon
    <3>5. QED
      BY <3>3, <3>4, Zenon
  <2>8. OnePlace(b) /\ Accounted(b)
    <3>1. OnePlace(b)
      BY <1>1, <2>2, <2>3, <2>5 DEF OnePlace, HasIo, ConnFields
    <3>2. /\ ~Intact(b) /\ b.got \in Seq(Nat) /\ b.preread \in Seq(Nat)
          /\ b.script = k.script /\ b.sent = k.sent /\ b.pos = k.pos
      BY <1>1, <2>2, <2>3, <2>5, <2>6, Zenon DEF Intact, Attached, HasIo, ConnFields
    <3>3. Accounted(b)
      BY <1>1, <3>2, Zenon DEF Accounted, Intact, Attached, HasIo
    <3>4. QED
      BY <3>1, <3>3, Zenon
  <2>9. QED
    BY <2>1, <2>7, <2>8, BytesStep, Zenon
<1>4. QED
  BY <1>2, <1>3, Zenon

\* One more byte from the socket when none was peeked at.
LEMMA NextByte ==
    ASSUME NEW k, Accounted(k), k.preread = <<>>, Waiting(k) # <<>>
    PROVE  /\ k.pos + 1 \in 0 .. k.sent
           /\ Append(k.got, Waiting(k)[1]) \in Seq(Nat) /\ <<>> \in Seq(Nat)
           /\ Intact(k) => Append(k.got, Waiting(k)[1]) \o <<>> = SubSeq(k.script, 1, k.pos + 1)
<1> DEFINE g == k.got
           s == k.script
           w == Waiting(k)
           p == k.pos
<1>1. /\ g \in Seq(Nat) /\ s \in Seq(Nat) /\ Len(s) \in Nat /\ p \in Nat /\ k.sent \in Nat
      /\ p <= k.sent /\ k.sent <= Len(s)
  BY Positions, Zenon
<1>2. w \in Seq(Nat) /\ Len(w) = k.sent - p /\ \A i \in 1 .. Len(w) : w[i] = s[p + i]
  BY Positions, Zenon DEF Between
<1>3. Intact(k) => g = SubSeq(s, 1, p)
  BY <1>1, ConcatEmptySeq, Zenon DEF Accounted
<1>4. Len(w) > 0
  BY <1>2, EmptySeq
<1> HIDE DEF g, s, w, p
<1>5. p + 1 \in 0 .. k.sent /\ p < Len(s) /\ w[1] = s[p + 1] /\ w[1] \in Nat
  <2>1. 1 \in 1 .. Len(w)
    BY <1>1, <1>2, <1>4
  <2>2. w[1] \in Nat
    BY <1>2, <2>1, ElementOfSeq, Zenon
  <2>3. QED
    BY <1>1, <1>2, <1>4, <2>1, <2>2, SMTT(30)
<1>6. Append(g, w[1]) \in Seq(Nat) /\ Append(g, w[1]) \o <<>> = Append(g, w[1])
  BY <1>1, <1>5, AppendProperties, ConcatEmptySeq
<1>7. SubSeq(s, 1, p + 1) = Append(SubSeq(s, 1, p), s[p + 1])
  BY <1>1, <1>5, OneMore, Zenon
<1>8. Intact(k) => Append(g, w[1]) \o <<>> = SubSeq(s, 1, p + 1)
  BY <1>3, <1>5, <1>6, <1>7, Zenon
<1>9. <<>> \in Seq(Nat)
  OBVIOUS
<1>10. QED
  BY <1>5, <1>6, <1>8, <1>9, Zenon DEF g, s, w, p

\* HTTP or the WebSocket session reads on.
LEMMA HttpReadsBytes ==
    ASSUME ConfigInv, BytesInv, NEW c \in Conns, HttpReads(c)
    PROVE  BytesInv'
<1> DEFINE k == conn[c]
           j == [k EXCEPT !.pos = @ + 1, !.got = Append(@, Waiting(k)[1])]
<1>1. conn' = [conn EXCEPT ![c] = j]
  BY BytesFields, Zenon DEF HttpReads
<1>2. /\ OnePlace(k) /\ Accounted(k) /\ DOMAIN k = ConnFields
      /\ ~HasIo(k) /\ ~k.tcpIo /\ ~k.start /\ k.state # "new" /\ k.preread = <<>>
      /\ Waiting(k) # <<>>
  BY BytesFields, Zenon DEF HttpReads, OnePlace, HasIo
<1>3. /\ k.pos + 1 \in 0 .. k.sent
      /\ Append(k.got, Waiting(k)[1]) \in Seq(Nat) /\ <<>> \in Seq(Nat)
      /\ Intact(k) => Append(k.got, Waiting(k)[1]) \o <<>> = SubSeq(k.script, 1, k.pos + 1)
  BY <1>2, NextByte, Zenon
<1>4. /\ j.pos = k.pos + 1 /\ j.got = Append(k.got, Waiting(k)[1])
      /\ \A x \in ConnFields \ {"pos", "got"} : j[x] = k[x]
  BY <1>2, Zenon DEF ConnFields
<1> HIDE DEF j
<1>5. OnePlace(j)
  BY <1>2, <1>4, Zenon DEF OnePlace, HasIo, ConnFields
<1>6. /\ Intact(j) => Intact(k)
      /\ ~HasIo(j) /\ ~j.tcpIo /\ ~j.start /\ j.state # "new" /\ j.preread = <<>>
      /\ j.script = k.script /\ j.sent = k.sent
  BY <1>2, <1>4, Zenon DEF Intact, Attached, HasIo, ConnFields
<1>7. Accounted(j)
  BY <1>2, <1>3, <1>4, <1>6, Zenon DEF Accounted
<1>8. QED
  BY <1>1, <1>5, <1>7, BytesStep, Zenon

\* A listener goal promotes the connection by itself.
LEMMA AutoPromoteBytes ==
    ASSUME ConfigInv, BytesInv, NEW c \in Conns, AutoPromote(c)
    PROVE  BytesInv'
<1> DEFINE k == conn[c]
           w == Waiting(k)
           hello == [k EXCEPT !.tcpIo = FALSE, !.tls = TlsObserveClientHello(@)]
           http == [k EXCEPT !.tcpIo = FALSE, !.carrier = TRUE]
           done == [hello EXCEPT !.carrier = TRUE, !.eof = FALSE,
                     !.pos = @ + 1, !.got = Append(@, Hello),
                     !.flow = FlowMarkConnected(@),
                     !.tls = TlsMarkComplete(TlsNoteServerFlight(@, FALSE, FALSE))]
           failed == [hello EXCEPT !.pos = @ + 1, !.got = Append(@, Hello),
                     !.flow = FlowMarkFailed(@), !.tls = TlsMarkFailed(@)]
           refused == [k EXCEPT !.tcpIo = FALSE, !.flow = FlowMarkFailed(@),
                           !.tls = TlsMarkFailed(@)]
<1>1. \/ conn' = [conn EXCEPT ![c] = http]
      \/ w # <<>> /\ w[1] = Hello /\ conn' = [conn EXCEPT ![c] = done]
      \/ w # <<>> /\ w[1] = Hello /\ conn' = [conn EXCEPT ![c] = failed]
      \/ conn' = [conn EXCEPT ![c] = refused]
  <2> HIDE DEF hello, http, done, failed, refused, w
  <2>1. conn' \in {[conn EXCEPT ![c] = r] : r \in
           IF k.goal = "http" THEN {http}
           ELSE IF w # <<>> /\ w[1] = Hello THEN {done, failed}
           ELSE IF w # <<>> \/ k.fin THEN {refused} ELSE {}}
    BY Zenon DEF AutoPromote, hello, http, done, failed, refused, w
  <2>2. QED
    BY <2>1, Zenon
<1>2. /\ OnePlace(k) /\ Accounted(k) /\ DOMAIN k = ConnFields /\ k.tcpIo
      /\ k.op = NoOp /\ k.state = "running" /\ ~k.start /\ ~k.carrier /\ ~k.websocket
      /\ ~k.tlsIo /\ Intact(k) /\ k.preread = <<>>
  BY BytesFields, Zenon DEF AutoPromote, AutoPromotion, OnePlace, Running, HasIo, Intact, Attached
<1>3. OnePlace(http) /\ Accounted(http)
  <2>1. OnePlace(http)
    BY <1>2, Zenon DEF OnePlace, HasIo, ConnFields
  <2>2. Accounted(http)
    BY <1>2, Unread, Zenon DEF SameBytes, Intact, Attached, HasIo, ConnFields
  <2>3. QED
    BY <2>1, <2>2, Zenon
<1>4. OnePlace(refused) /\ Accounted(refused)
  <2>1. OnePlace(refused)
    BY <1>2, Zenon DEF OnePlace, HasIo, ConnFields
  <2>2. Accounted(refused)
    BY <1>2, Unread, Zenon DEF SameBytes, Intact, Attached, HasIo, ConnFields
  <2>3. QED
    BY <2>1, <2>2, Zenon
<1>5. ASSUME w # <<>>, w[1] = Hello, NEW j, j \in {done, failed}
      PROVE  OnePlace(j) /\ Accounted(j)
  <2>1. /\ DOMAIN hello = ConnFields /\ ~hello.tcpIo
        /\ \A x \in ConnFields \ {"tcpIo", "tls"} : hello[x] = k[x]
    BY <1>2, Zenon DEF ConnFields
  <2> HIDE DEF hello
  <2>2. /\ j.pos = hello.pos + 1 /\ j.got = Append(hello.got, Hello)
        /\ \A x \in ConnFields \ {"carrier", "eof", "pos", "got", "flow", "tls"} : j[x] = hello[x]
    BY <1>5, <2>1, Zenon DEF ConnFields
  <2> HIDE DEF done, failed
  <2>3. /\ j.op = NoOp /\ j.state = "running" /\ ~j.tcpIo /\ ~j.tlsIo /\ ~j.start
        /\ ~j.websocket /\ j.preread = <<>> /\ j.script = k.script /\ j.sent = k.sent
        /\ j.got = Append(k.got, w[1]) /\ j.pos = k.pos + 1
    BY <1>2, <1>5, <2>1, <2>2, Zenon DEF ConnFields
  <2>4. /\ k.pos + 1 \in 0 .. k.sent
        /\ Append(k.got, w[1]) \in Seq(Nat) /\ <<>> \in Seq(Nat)
        /\ Append(k.got, w[1]) \o <<>> = SubSeq(k.script, 1, k.pos + 1)
    BY <1>2, <1>5, NextByte, Zenon
  <2>5. OnePlace(j)
    BY <2>3, Zenon DEF OnePlace, HasIo
  <2>6. Accounted(j)
    BY <1>2, <2>3, <2>4, Zenon DEF Accounted, HasIo
  <2>7. QED
    BY <2>5, <2>6, Zenon
<1> HIDE DEF http, refused, done, failed
<1>6. QED
  BY <1>1, <1>3, <1>4, <1>5, BytesStep, Zenon

\* Every step keeps every connection in order.
LEMMA BytesNext == ConfigInv /\ BytesInv /\ [TransportNext]_transportVars => BytesInv'
<1> SUFFICES ASSUME ConfigInv, BytesInv, [TransportNext]_transportVars PROVE BytesInv'
  BY Zenon
<1>1. CASE UNCHANGED conn
  BY <1>1, Zenon DEF BytesInv
<1>2. ASSUME NEW c \in Conns, TransportStep(c) PROVE BytesInv'
  BY <1>2, PeerBytes, ReadStepBytes, PeekStepBytes, StreamBytes, FromSocketBytes, RejectBytes,
     SessionBytes, HandoffBytes, AutoPromoteBytes, HttpReadsBytes, Zenon DEF TransportStep
<1>3. QED
  BY <1>1, <1>2, Zenon DEF TransportNext, ClearConfigurations, StoreProgram, transportVars

\* BytesInOrder for any connections, client scripts, listener goals, read sizes and
\* programs: between tcp::stream::peek, read and eof, the TLS acceptor, a
\* hand-over to HTTP and a WebSocket session over TLS, no byte of the client is
\* lost, repeated or reordered.
THEOREM NoByteIsLost == TransportSpec => []BytesInOrder
<1>1. BytesInv => BytesInOrder
  <2> SUFFICES ASSUME BytesInv, NEW c \in Conns
               PROVE  LET k == conn[c] IN
                      /\ Attached(k) => k.got \o k.preread = SubSeq(k.script, 1, k.pos)
                      /\ (HasIo(k) \/ k.start) /\ StreamEof(k)
                           => k.fin /\ k.pos = k.sent /\ k.got = SubSeq(k.script, 1, k.sent)
    BY Zenon DEF BytesInOrder
  <2> DEFINE k == conn[c]
  <2>1. Accounted(k) /\ k.got \in Seq(Nat)
    BY Positions, Zenon DEF BytesInv
  <2>2. Attached(k) => k.got \o k.preread = SubSeq(k.script, 1, k.pos)
    BY <2>1, Zenon DEF Accounted, Intact
  <2>3. k.got \o <<>> = k.got
    BY <2>1, ConcatEmptySeq, Zenon
  <2>4. ASSUME HasIo(k) \/ k.start, StreamEof(k)
        PROVE  k.fin /\ k.pos = k.sent /\ k.got = SubSeq(k.script, 1, k.sent)
    <3>1. k.eof /\ k.preread = <<>> /\ Attached(k)
      BY <2>4, Zenon DEF StreamEof, Attached
    <3>2. k.fin /\ k.pos = k.sent
      BY <2>1, <2>4, <3>1, Zenon DEF Accounted
    <3>3. QED
      BY <2>2, <2>3, <3>1, <3>2, Zenon
  <2>5. QED
    BY <2>2, <2>4, Zenon
<1>2. QED
  BY <1>1, ConfigInitInv, ConfigNextInv, BytesInit, BytesNext, PTL DEF TransportSpec
=============================================================================
