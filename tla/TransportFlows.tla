--------------------------- MODULE TransportFlows ---------------------------
(***************************************************************************)
(* The lifecycle records of the transport plane (abi_impl/transport/       *)
(* state.rs): a TCP flow, a dynamic TCP or UDP socket and a TLS flow, each *)
(* with the operations that the host functions of tcp.rs, tls.rs, udp.rs   *)
(* and the HTTP, MQTT and proxy code perform on it.                        *)
(*                                                                         *)
(* Addresses, names and certificates are abstracted: a target is a value   *)
(* of the caller or NoTarget, and everything a tls::session::set_* call    *)
(* stores in a TLS flow (ALPN list, verification, certificates, versions)  *)
(* is one value, the flow's policy; `peer' says whether the flow has a     *)
(* peer name.  A failure message is set exactly in the Failed phase and is *)
(* not kept apart.                                                         *)
(***************************************************************************)
EXTENDS Naturals

\* An optional value is a set with at most one element.
None == {}
Some(x) == {x}
Get(o) == CHOOSE x \in o : TRUE

NoTarget == "no-target"
DefaultPolicy == 0

-----------------------------------------------------------------------------
(* TcpFlowState: the downstream connection and the default upstream.       *)

IdleTcpFlow == [phase |-> "inactive", rx |-> FALSE, tx |-> FALSE]

DownstreamReady == [IdleTcpFlow EXCEPT !.phase = "connected"]

FlowNoteRead(f) == [f EXCEPT !.rx = TRUE]

FlowNoteWrite(f) == [f EXCEPT !.tx = TRUE]

FlowObservedIo(f) == f.rx \/ f.tx

FlowMarkConnected(f) == [f EXCEPT !.phase = "connected"]

FlowMarkClosed(f) ==
    IF f.phase = "failed" THEN f ELSE [f EXCEPT !.phase = "closed"]

FlowMarkFailed(f) == [f EXCEPT !.phase = "failed"]

-----------------------------------------------------------------------------
(* TcpSocketState and UdpSocketState: the sockets a program allocates.     *)

SocketPhases == {"inactive", "bound", "configured", "connected",
                 "upgraded-tls", "attached-mqtt", "attached-http", "attached-proxy",
                 "closed", "failed"}

NewSocket == [phase |-> "inactive", target |-> NoTarget, eof |-> FALSE]

\* A UdpSocketState has the phases up to "connected" and the two last ones, and
\* its methods change it as those of a TcpSocketState do.
NewUdpSocket == NewSocket

SocketSetBind(s) ==
    [s EXCEPT !.eof = FALSE,
              !.phase = IF @ = "inactive" THEN "bound" ELSE @]

SocketSetTarget(s, t) ==
    [s EXCEPT !.target = t, !.eof = FALSE, !.phase = "configured"]

SocketMarkConnected(s) == [s EXCEPT !.phase = "connected", !.eof = FALSE]

SocketMarkUpgradedTls(s) == [s EXCEPT !.phase = "upgraded-tls", !.eof = FALSE]

SocketMarkMqttAttached(s) == [s EXCEPT !.phase = "attached-mqtt", !.eof = FALSE]

SocketMarkHttpAttached(s) == [s EXCEPT !.phase = "attached-http", !.eof = FALSE]

SocketMarkProxyAttached(s) == [s EXCEPT !.phase = "attached-proxy", !.eof = FALSE]

SocketMarkClosed(s) == [s EXCEPT !.phase = "closed"]

SocketMarkFailed(s) == [s EXCEPT !.phase = "failed"]

-----------------------------------------------------------------------------
(* TlsFlowState: one TLS session as the program sees it.                   *)

AbsentTlsFlow ==
    [present |-> FALSE, complete |-> FALSE, ready |-> FALSE, peer |-> FALSE, path |-> "none",
     phase |-> "none", conf |-> "none", policy |-> DefaultPolicy]

DynamicTlsFlow ==
    [AbsentTlsFlow EXCEPT !.present = TRUE, !.phase = "configured",
                          !.conf = "explicit"]

TlsObserveTarget(f, present) ==
    [f EXCEPT !.present = present, !.complete = FALSE, !.ready = FALSE,
              !.peer = TRUE, !.path = "none", !.conf = "explicit",
              !.phase = IF present THEN "configured" ELSE "none"]

TlsObserveClientHello(f) ==
    [f EXCEPT !.present = TRUE, !.complete = FALSE, !.ready = FALSE,
              !.peer = FALSE, !.path = "none", !.conf = "needs",
              !.phase = "client-hello-received"]

TlsSetPolicy(f, p) == [f EXCEPT !.policy = p, !.conf = "explicit"]

TlsRestore(f, p) == [f EXCEPT !.policy = p, !.conf = "restored"]

TlsNotePrepared(f) ==
    IF ~f.present THEN f
    ELSE [f EXCEPT !.phase = "client-hello-sent", !.complete = FALSE,
                   !.ready = FALSE]

\* The notes between the server hello and the end of the handshake: a
\* resumed session, the certificate, and whether it was verified.
TlsNoteServerFlight(f, resumed, verified) ==
    IF ~f.present THEN f
    ELSE [f EXCEPT !.path = IF resumed THEN "session-reuse" ELSE @,
                   !.phase = IF verified THEN "server-certificate-verified"
                             ELSE "verification-skipped"]

TlsMarkComplete(f) ==
    IF ~f.present THEN f
    ELSE [f EXCEPT !.complete = TRUE, !.ready = TRUE,
                   !.phase = "plaintext-ready",
                   !.path = IF @ = "none" THEN "full-handshake" ELSE @]

TlsMarkClosed(f) ==
    IF ~f.present \/ f.phase = "failed" THEN f
    ELSE [f EXCEPT !.ready = FALSE, !.phase = "closed"]

TlsMarkFailed(f) ==
    IF ~f.present THEN f
    ELSE [f EXCEPT !.complete = FALSE, !.ready = FALSE, !.phase = "failed"]

=============================================================================
