------------------------------ MODULE WebSocket ------------------------------
(***************************************************************************)
(* An outbound WebSocket connection of a program (websocket/connection.rs, *)
(* websocket/state.rs) and the tunnel that proxy::forward schedules        *)
(* between it and the downstream one (proxy.rs, http/state.rs).            *)
(*                                                                         *)
(* The record of a connection outlives its sessions: an operation on a     *)
(* record that is not open connects again.  The phase a program sees       *)
(* follows the session only when a read or a close refreshes it.           *)
(***************************************************************************)
EXTENDS Integers, Sequences, Lists

CONSTANTS
    Codes,         \* close codes
    MaxSessions,   \* bound: sessions opened
    MaxFrames      \* bound: frames a peer sends in a session

NoCode == {}
SomeCode(x) == {x}
NoSession == [inbox |-> <<>>, sent |-> <<>>, ended |-> FALSE,
              eof |-> FALSE, code |-> NoCode, got |-> <<>>]

VARIABLES
    ws,        \* WebSocketConnectionState of the outbound connection
    session,   \* the session behind its io: OutboundWebSocketIoState, peer
    wsCall,      \* the host call under way: "none", or its name and stage
    http,      \* the exchange has started an HTTP response
    dws,       \* WebSocketConnectionState of the downstream connection
    client,    \* the downstream client's frames
    tunnel,    \* the tunnel: its stage, and where it took the session over
    opened     \* sessions opened

downstream == <<dws, client, tunnel>>
wsVars == <<ws, session, wsCall, http, dws, client, tunnel, opened>>

Record(phase) ==
    [phase |-> phase, present |-> phase # "inactive", target |-> FALSE,
     tls |-> FALSE, custom |-> FALSE, io |-> FALSE, code |-> NoCode]

NoCall == [name |-> "none", stage |-> "ensure"]

WsInit ==
    /\ ws = Record("inactive")
    /\ session = NoSession
    /\ wsCall = NoCall
    /\ http = FALSE
    /\ dws = Record("observed")
    /\ client = [inbox |-> <<>>, sent |-> <<>>, ended |-> FALSE, out |-> <<>>]
    /\ tunnel = [stage |-> "none", from |-> 0]
    /\ opened = 0

-----------------------------------------------------------------------------
(* WebSocketConnectionState *)

PrepareOutbound(w) ==
    [w EXCEPT !.present = TRUE,
              !.phase = IF @ \in {"inactive", "observed"} THEN "prepared" ELSE @]

NoteHandshakeStarted(w) ==
    [w EXCEPT !.present = TRUE, !.phase = "handshake", !.code = NoCode, !.io = FALSE]

MarkOpen(w) == [w EXCEPT !.present = TRUE, !.phase = "open", !.io = TRUE]

NoteClosing(w) == [w EXCEPT !.phase = IF @ = "open" THEN "closing" ELSE @]

MarkClosed(w, code) == [w EXCEPT !.phase = "closed", !.code = code]

MarkFailed(w) == [w EXCEPT !.phase = "failed", !.present = TRUE, !.io = FALSE]

\* refresh_close_state
Refresh(w, s) == IF w.io /\ s.eof THEN MarkClosed(w, s.code) ELSE w

IsOpen(w) == w.phase = "open" /\ w.io

-----------------------------------------------------------------------------
(* Configuration *)

\* set_target; set_path, set_query, set_header and set_subprotocols prepare
\* the record in the same way.
WsSetTarget ==
    /\ wsCall = NoCall
    /\ ws' = [PrepareOutbound(ws) EXCEPT !.target = TRUE]
    /\ UNCHANGED <<session, wsCall, http, downstream, opened>>

WsConfigure ==
    /\ wsCall = NoCall
    /\ ws' = PrepareOutbound(ws)
    /\ UNCHANGED <<session, wsCall, http, downstream, opened>>

\* set_scheme: ws, or wss and the exchange's TLS flow with it.
WsSetScheme ==
    /\ wsCall = NoCall
    /\ \E tls \in BOOLEAN : ws' = [PrepareOutbound(ws) EXCEPT !.tls = tls]
    /\ UNCHANGED <<session, wsCall, http, downstream, opened>>

\* A tls::session setting on the same exchange, and the exchange itself.
CustomTls ==
    /\ wsCall = NoCall
    /\ ws' = [ws EXCEPT !.custom = TRUE]
    /\ UNCHANGED <<session, wsCall, http, downstream, opened>>

StartHttp ==
    /\ wsCall = NoCall /\ ~ws.present
    /\ http' = TRUE
    /\ UNCHANGED <<ws, session, wsCall, downstream, opened>>

-----------------------------------------------------------------------------
(* The host calls: each first makes sure the connection is open *)

Calls == {"connect", "send", "read_text", "read_binary", "close", "forward"}

Begin(name) ==
    /\ wsCall = NoCall
    /\ tunnel.stage \in {"none", "scheduled"}
    /\ name = "forward" => tunnel.stage = "none"
    /\ wsCall' = [name |-> name, stage |-> "ensure"]
    /\ UNCHANGED <<ws, session, http, downstream, opened>>

\* The call ends.
End(w, s) ==
    /\ ws' = w /\ session' = s
    /\ wsCall' = NoCall
    /\ UNCHANGED <<http, downstream, opened>>

Ensuring == wsCall.name \in Calls /\ wsCall.stage = "ensure"

\* ensure_outbound_websocket_connection_open
AlreadyOpen ==
    /\ Ensuring /\ ~http /\ IsOpen(ws)
    /\ wsCall' = [wsCall EXCEPT !.stage = "io"]
    /\ UNCHANGED <<ws, session, http, downstream, opened>>

\* prepared_outbound_websocket: a request can be made of the record.
Prepared == ws.target

\* A custom client configuration does not go with TLS.
Refused == ws.tls /\ ws.custom

\* What a failure leaves of the record: marked failed, or, when a header value or
\* the list of subprotocols is not valid, in its handshake for good.
OpenFailures ==
    IF Refused THEN {MarkFailed(ws)}
    ELSE {NoteHandshakeStarted(ws), MarkFailed(NoteHandshakeStarted(ws))}

\* An HTTP exchange, no target, no URL of it, or a failure.
OpenFails ==
    /\ Ensuring
    /\ \/ (http \/ ~IsOpen(ws)) /\ End(ws, session)
       \/ ~http /\ ~IsOpen(ws) /\ Prepared /\ \E w \in OpenFailures : End(w, NoSession)

\* store_connected_websocket: the record gets the new session.
StoreConnected ==
    /\ opened < MaxSessions
    /\ opened' = opened + 1
    /\ ws' = MarkOpen(NoteHandshakeStarted(ws))
    /\ session' = NoSession

Connects ==
    /\ Ensuring /\ ~http /\ ~IsOpen(ws) /\ Prepared /\ ~Refused
    /\ StoreConnected
    /\ wsCall' = [wsCall EXCEPT !.stage = "io"]
    /\ UNCHANGED <<http, downstream>>

Doing(name) == wsCall.name = name /\ wsCall.stage = "io"

ConnectDone ==
    /\ Doing("connect") /\ End(ws, session)

\* send_text, send_binary, send_binary_base64.
WsSend ==
    /\ Doing("send")
    /\ End(ws, session)                          \* sent, or refused by the session

\* read_next_frame: pings are answered (or the answer fails) and read past.
ReadPing ==
    /\ wsCall.name \in {"read_text", "read_binary"} /\ wsCall.stage = "io"
    /\ session.inbox # <<>> /\ Head(session.inbox).kind = "ping"
    /\ \/ session' = [session EXCEPT !.inbox = Tail(@)]
          /\ UNCHANGED <<ws, wsCall, http, downstream, opened>>
       \/ End(ws, [session EXCEPT !.inbox = Tail(@)])

Wanted == IF wsCall.name = "read_text" THEN "text" ELSE "binary"

\* A frame of the kind asked for, or of the other one: an error, and the
\* frame has been taken from the session.
ReadFrame ==
    LET f == Head(session.inbox)
        s == [session EXCEPT !.inbox = Tail(@)]
    IN
    /\ wsCall.name \in {"read_text", "read_binary"} /\ wsCall.stage = "io"
    /\ session.inbox # <<>> /\ f.kind \in {"text", "binary"}
    /\ \/ f.kind = Wanted /\ End(Refresh(ws, session), s)
       \/ f.kind # Wanted /\ End(ws, s)

\* A close frame, or the end of the transport.
ReadEnd ==
    LET s == [session EXCEPT !.eof = TRUE] IN
    /\ wsCall.name \in {"read_text", "read_binary"} /\ wsCall.stage = "io"
    /\ \/ /\ session.inbox # <<>> /\ Head(session.inbox).kind = "close"
          /\ LET t == [s EXCEPT !.inbox = Tail(@),
                                !.code = SomeCode(Head(session.inbox).n)]
             IN End(Refresh(ws, t), t)
       \/ /\ session.inbox = <<>> /\ (session.ended \/ session.eof)
          /\ End(Refresh(ws, s), s) \/ End(ws, s)         \* None, or an error

\* websocket::connection::close.
WsClose ==
    /\ Doing("close")
    /\ \/ \E c \in Codes :
            LET s == [session EXCEPT !.eof = TRUE, !.code = SomeCode(c)]
            IN End(MarkClosed(NoteClosing(ws), SomeCode(c)), s)
       \/ End(NoteClosing(ws), session)                   \* close fails
       \/ End(ws, session)                                \* not a close code

-----------------------------------------------------------------------------
(* The peers *)

\* The frame a peer sends next: the numbers of its frames count up; a close
\* frame carries a code and is its last.
NextFrames(sent) ==
    {[kind |-> k, n |-> Len(sent) + 1] : k \in {"text", "binary", "ping"}}
        \cup {[kind |-> "close", n |-> c] : c \in Codes}

PeerSends ==
    /\ ws.io /\ ~session.ended /\ ~session.eof
    /\ Len(session.sent) < MaxFrames
    /\ \E f \in NextFrames(session.sent) :
         session' = [session EXCEPT !.sent = Append(@, f), !.inbox = Append(@, f),
                                    !.ended = f.kind = "close"]
    /\ UNCHANGED <<ws, wsCall, http, downstream, opened>>

PeerGone ==
    /\ ws.io /\ ~session.ended
    /\ session' = [session EXCEPT !.ended = TRUE]
    /\ UNCHANGED <<ws, wsCall, http, downstream, opened>>

ClientSends ==
    /\ tunnel.stage = "running" /\ ~client.ended
    /\ Len(client.sent) < MaxFrames
    /\ \E f \in NextFrames(client.sent) :
         client' = [client EXCEPT !.sent = Append(@, f), !.inbox = Append(@, f),
                                  !.ended = f.kind = "close"]
    /\ UNCHANGED <<ws, session, wsCall, http, dws, tunnel, opened>>

ClientGone ==
    /\ tunnel.stage = "running" /\ ~client.ended
    /\ client' = [client EXCEPT !.ended = TRUE]
    /\ UNCHANGED <<ws, session, wsCall, http, dws, tunnel, opened>>

-----------------------------------------------------------------------------
(* The tunnel between the downstream WebSocket and this connection *)

BinaryFrames == [kind : {"binary"}, n : Nat]

Binaries(frames) == Kept(frames, BinaryFrames)

\* schedule_downstream_websocket_tunnel; without an upgrade the record has
\* already changed.
WsForward ==
    /\ Doing("forward")
    /\ wsCall' = NoCall
    /\ dws' = NoteHandshakeStarted(dws)
    /\ \/ tunnel' = [tunnel EXCEPT !.stage = "scheduled"]
       \/ tunnel' = [tunnel EXCEPT !.stage = "over"]
    /\ UNCHANGED <<ws, session, http, client, opened>>

\* The program is done, the response went out and the upgrade came through,
\* or did not.
TunnelRuns ==
    /\ tunnel.stage = "scheduled" /\ wsCall = NoCall
    /\ tunnel' = [stage |-> "running",
                  from |-> Len(Binaries(session.sent)) - Len(Binaries(session.inbox))]
    /\ UNCHANGED <<ws, session, wsCall, http, dws, client, opened>>

\* An upgrade that another plan took leaves the record as it is.
UpgradeFails ==
    /\ tunnel.stage = "scheduled" /\ wsCall = NoCall
    /\ tunnel' = [tunnel EXCEPT !.stage = "over"]
    /\ dws' \in {dws, MarkFailed(dws)}
    /\ UNCHANGED <<ws, session, wsCall, http, client, opened>>

Tunnelling == tunnel.stage = "running"

\* A step of the select! loop, and its last one.
TunnelGoesOn(w, s, c) ==
    /\ ws' = w /\ session' = s /\ client' = c
    /\ UNCHANGED <<wsCall, http, dws, tunnel, opened>>

TunnelEnds(w, s, c, d) ==
    /\ ws' = w /\ session' = s /\ client' = c /\ dws' = d
    /\ tunnel' = [tunnel EXCEPT !.stage = "over"]
    /\ UNCHANGED <<wsCall, http, opened>>

\* The connection was closed before the tunnel ran: its first read or write
\* connects again.  A client's frame that is there first drops a read that is
\* connecting.
TunnelConnecting ==
    /\ Tunnelling /\ ~IsOpen(ws) /\ ~Refused
    /\ ws' = NoteHandshakeStarted(ws) /\ session' = NoSession
    /\ tunnel' = [tunnel EXCEPT !.from = 0]
    /\ UNCHANGED <<wsCall, http, dws, client, opened>>

TunnelReopens ==
    /\ Tunnelling /\ ~IsOpen(ws) /\ ~Refused
    /\ StoreConnected
    /\ tunnel' = [tunnel EXCEPT !.from = 0]
    /\ UNCHANGED <<wsCall, http, dws, client>>

TunnelReopenFails ==
    /\ Tunnelling /\ ~IsOpen(ws)
    /\ \/ \E w \in OpenFailures : TunnelEnds(w, NoSession, client, dws)
       \/ TunnelEnds(ws, session, client, dws)

\* Mutant: the read that is dropped had already taken its frame.
ClientFrameCancelsRead ==
    LET f == Head(client.inbox)
        c == [client EXCEPT !.inbox = Tail(@)]
    IN
    /\ Tunnelling /\ IsOpen(ws) /\ client.inbox # <<>>
    /\ f.kind = "binary" /\ ~session.eof
    /\ TunnelGoesOn(ws, [session EXCEPT !.got = Append(@, f.n),
                            !.inbox = IF @ = <<>> THEN @ ELSE Tail(@)], c)

\* A downstream frame is ready: the pending read of the other side is dropped.
ClientFrame ==
    LET f == Head(client.inbox)
        c == [client EXCEPT !.inbox = Tail(@)]
    IN
    /\ Tunnelling /\ client.inbox # <<>>
    /\ \/ /\ f.kind = "binary" /\ IsOpen(ws)
          /\ \/ ~session.eof /\ TunnelGoesOn(ws, [session EXCEPT !.got = Append(@, f.n)], c)
             \/ TunnelEnds(ws, session, c, dws)             \* the write fails
       \/ /\ f.kind = "ping"
          /\ TunnelGoesOn(ws, session, c) \/ TunnelEnds(ws, session, c, MarkFailed(dws))
       \/ f.kind = "text" /\ TunnelEnds(ws, session, c, MarkFailed(dws))

\* Mutant: the other side is left open.
CloseNothing == [w |-> ws, s |-> session]

\* close_websocket_binary_stream: nothing to do at the end of the session
\* (websocket_binary_eof).
SessionOver == ws.phase \in {"closed", "failed"} \/ (ws.io /\ session.eof)

CloseSession ==
    IF SessionOver
    THEN [w |-> ws, s |-> session]
    ELSE [w |-> MarkClosed(NoteClosing(ws), SomeCode(1000)),
          s |-> [session EXCEPT !.eof = TRUE, !.code = SomeCode(1000)]]

\* The client's close frame, or the end of its stream.
ClientEnds ==
    /\ Tunnelling
    /\ \/ /\ client.inbox # <<>> /\ Head(client.inbox).kind = "close"
          /\ IsOpen(ws) \/ SessionOver
          /\ TunnelEnds(CloseSession.w, CloseSession.s, [client EXCEPT !.inbox = Tail(@)],
                        MarkClosed(dws, SomeCode(Head(client.inbox).n)))
       \/ /\ client.inbox = <<>> /\ client.ended
          /\ \/ /\ IsOpen(ws) \/ SessionOver
                /\ TunnelEnds(CloseSession.w, CloseSession.s, client, MarkClosed(dws, SomeCode(1000)))
             \/ TunnelEnds(ws, session, client, MarkFailed(dws))   \* a read error
       \/ /\ client.ended /\ IsOpen(ws)                            \* the close fails
          /\ client.inbox # <<>> => Head(client.inbox).kind = "close"
          /\ ~session.eof
          /\ TunnelEnds(NoteClosing(ws), session, client, dws)

\* read_websocket_binary_bytes returned: a frame, an error, the end.
SessionFrame ==
    LET f == Head(session.inbox)
        s == [session EXCEPT !.inbox = Tail(@)]
        end == [session EXCEPT !.eof = TRUE]
    IN
    /\ Tunnelling /\ IsOpen(ws)
    /\ \/ /\ session.inbox # <<>> /\ f.kind = "binary"
          /\ \/ TunnelGoesOn(Refresh(ws, s), s, [client EXCEPT !.out = Append(@, f)])
             \/ TunnelEnds(ws, s, client, MarkFailed(dws))  \* the client is gone
       \/ /\ session.inbox # <<>> /\ f.kind = "ping"
          /\ TunnelGoesOn(ws, s, client) \/ TunnelEnds(ws, s, client, dws)
       \/ session.inbox # <<>> /\ f.kind = "text" /\ TunnelEnds(ws, s, client, dws)
       \/ /\ session.inbox # <<>> /\ f.kind = "close"
          /\ LET t == [s EXCEPT !.eof = TRUE, !.code = SomeCode(f.n)]
             IN TunnelEnds(Refresh(ws, t), t, client, MarkClosed(dws, SomeCode(1000)))
       \/ /\ session.inbox = <<>> /\ (session.ended \/ session.eof)
          /\ \/ TunnelEnds(Refresh(ws, end), end, client, MarkClosed(dws, SomeCode(1000)))
             \/ TunnelEnds(ws, end, client, dws)

WsNext ==
    \/ WsSetTarget \/ WsSetScheme \/ WsConfigure \/ CustomTls \/ StartHttp
    \/ \E name \in Calls : Begin(name)
    \/ AlreadyOpen \/ OpenFails \/ Connects \/ ConnectDone
    \/ WsSend \/ ReadPing \/ ReadFrame \/ ReadEnd \/ WsClose
    \/ PeerSends \/ PeerGone \/ ClientSends \/ ClientGone
    \/ WsForward \/ TunnelRuns \/ UpgradeFails
    \/ TunnelConnecting \/ TunnelReopens \/ TunnelReopenFails
    \/ ClientFrame \/ ClientEnds \/ SessionFrame

WsSpec == WsInit /\ [][WsNext]_wsVars

-----------------------------------------------------------------------------
(* Properties *)

\* While the tunnel runs, each side has been sent exactly the binary frames
\* taken from the other, in order: dropping the pending read of one side when
\* a frame of the other is ready (select!) loses nothing, and neither does
\* connecting again before the first of them.
TunnelFaithful ==
    Tunnelling =>
      /\ client.out \o Binaries(session.inbox)
           = SubSeq(Binaries(session.sent), tunnel.from + 1, Len(Binaries(session.sent)))
      /\ LET frames == Binaries(client.sent)
             n == Len(frames) - Len(Binaries(client.inbox))
         IN session.got = [i \in 1 .. n |-> frames[i].n]

\* When the tunnel leaves the downstream connection closed, the session behind
\* the other one has ended too: nobody keeps a half-open tunnel.  A connection a
\* program sees as closed shows the close code of the session that ended, the
\* peer's or its own, whichever call noticed it.
TunnelEndsBoth ==
    /\ dws.phase = "closed" => session.eof \/ ~ws.io
    /\ ws.phase = "closed" => session.eof /\ ws.code = session.code
=============================================================================
