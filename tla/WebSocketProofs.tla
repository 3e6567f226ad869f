-------------------------- MODULE WebSocketProofs --------------------------
(***************************************************************************)
(* What the WebSocket host calls and the tunnel keep for every number of   *)
(* calls, sessions and frames.                                             *)
(***************************************************************************)
EXTENDS WebSocket, DataProofs

-----------------------------------------------------------------------------
(* WebSocket.  What a side has sent is what the tunnel did not see, what   *)
(* it passed on and what waits; a session that an open record has read to  *)
(* its end holds nothing more.                                             *)

Frames == [kind : {"text", "binary", "ping"}, n : Nat] \cup [kind : {"close"}, n : Codes]
CodeSets == SUBSET (Codes \cup {1000})

WsRecords ==
    [phase : {"inactive", "observed", "prepared", "handshake", "open", "closing", "closed",
              "failed"},
     present : BOOLEAN, target : BOOLEAN, tls : BOOLEAN, custom : BOOLEAN, io : BOOLEAN,
     code : CodeSets]
SessionRecords ==
    [inbox : Seq(Frames), sent : Seq(Frames), ended : BOOLEAN, eof : BOOLEAN,
     code : CodeSets, got : Seq(Nat)]
ClientRecords ==
    [inbox : Seq(Frames), sent : Seq(Frames), ended : BOOLEAN, out : Seq(Frames)]
TunnelRecords == [stage : {"none", "scheduled", "running", "over"}, from : Nat]

WsTypes ==
    /\ ws \in WsRecords /\ dws \in WsRecords
    /\ session \in SessionRecords /\ client \in ClientRecords /\ tunnel \in TunnelRecords
    /\ wsCall \in [name : Calls \cup {"none"}, stage : {"ensure", "io"}]
    /\ opened \in Nat

\* q is what is left of the frames s.
Left(s, q) == \E p \in Seq(Frames) : s = p \o q

\* A record that is closed shows how its session ended and one that failed has
\* none; one that is open has read the session to its end before it knows of it.
SessionOK(w, s) ==
    /\ w.phase = "closed" => s.eof /\ w.code = s.code
    /\ w.phase = "failed" => ~w.io
    /\ IsOpen(w) /\ s.eof => s.inbox = <<>>
    /\ Left(s.sent, s.inbox)

FrameNumbers(q) == [i \in 1 .. Len(q) |-> q[i].n]

\* The binary frames of each side are those it passed on to the other side and those
\* that wait; the program may have read some of the session's before.
Outward(s, c, from) ==
    \E a \in Seq(Frames) :
        /\ Len(a) = from
        /\ Binaries(s.sent) = (a \o c.out) \o Binaries(s.inbox)
Passed(got, all, inbox) ==
    \E b \in Seq(Frames) : Binaries(all) = b \o Binaries(inbox) /\ got = FrameNumbers(b)
Inward(s, c) == Passed(s.got, c.sent, c.inbox)

WsInv ==
    /\ WsTypes
    /\ SessionOK(ws, session)
    /\ Left(client.sent, client.inbox)
    /\ wsCall.stage = "io" => IsOpen(ws)
    /\ tunnel.stage \in {"running", "over"} => wsCall = NoCall
    /\ dws.phase = "closed" => tunnel.stage = "over" /\ (session.eof \/ ~ws.io)
    /\ tunnel.stage \in {"none", "scheduled"} =>
         client.sent = <<>> /\ client.out = <<>> /\ session.got = <<>>
    /\ Tunnelling => /\ IsOpen(ws) \/ (client.out = <<>> /\ session.got = <<>>)
                     /\ Outward(session, client, tunnel.from) /\ Inward(session, client)

-----------------------------------------------------------------------------
LEMMA FrameIs ==
    ASSUME NEW f \in Frames
    PROVE  /\ f.kind \in {"text", "binary", "ping", "close"}
           /\ f.kind = "binary" <=> f \in BinaryFrames
           /\ f.kind = "binary" => f.n \in Nat
           /\ f.kind = "close" => f.n \in Codes
  BY Zenon DEF Frames, BinaryFrames

LEMMA CodeTypes ==
    /\ NoCode \in CodeSets /\ SomeCode(1000) \in CodeSets
    /\ \A c \in Codes : SomeCode(c) \in CodeSets
  BY DEF NoCode, SomeCode, CodeSets

\* The operations of a record.
LEMMA RecordOps ==
    ASSUME NEW w \in WsRecords
    PROVE  /\ PrepareOutbound(w) \in WsRecords
           /\ PrepareOutbound(w).io = w.io /\ PrepareOutbound(w).code = w.code
           /\ PrepareOutbound(w).phase
                = IF w.phase \in {"inactive", "observed"} THEN "prepared" ELSE w.phase
           /\ NoteHandshakeStarted(w) \in WsRecords
           /\ NoteHandshakeStarted(w).phase = "handshake"
           /\ MarkFailed(NoteHandshakeStarted(w)) \in WsRecords
           /\ MarkFailed(NoteHandshakeStarted(w)).phase = "failed"
           /\ MarkFailed(NoteHandshakeStarted(w)).io = FALSE
           /\ MarkOpen(w) \in WsRecords /\ MarkOpen(w).phase = "open" /\ MarkOpen(w).io = TRUE
           /\ NoteClosing(w) \in WsRecords /\ NoteClosing(w).io = w.io
           /\ NoteClosing(w).code = w.code
           /\ NoteClosing(w).phase = IF w.phase = "open" THEN "closing" ELSE w.phase
           /\ MarkFailed(w) \in WsRecords /\ MarkFailed(w).phase = "failed"
           /\ MarkFailed(w).io = FALSE
<1> USE DEF WsRecords
<1>1. /\ PrepareOutbound(w) \in WsRecords
      /\ PrepareOutbound(w).io = w.io /\ PrepareOutbound(w).code = w.code
      /\ PrepareOutbound(w).phase
           = IF w.phase \in {"inactive", "observed"} THEN "prepared" ELSE w.phase
  BY Zenon DEF PrepareOutbound
<1>2. /\ NoteHandshakeStarted(w) \in WsRecords
      /\ NoteHandshakeStarted(w).phase = "handshake"
  BY CodeTypes, Zenon DEF NoteHandshakeStarted
<1>3. MarkOpen(w) \in WsRecords /\ MarkOpen(w).phase = "open" /\ MarkOpen(w).io = TRUE
  BY Zenon DEF MarkOpen
<1>4. /\ NoteClosing(w) \in WsRecords /\ NoteClosing(w).io = w.io
      /\ NoteClosing(w).code = w.code
      /\ NoteClosing(w).phase = IF w.phase = "open" THEN "closing" ELSE w.phase
  BY Zenon DEF NoteClosing
<1>5. /\ MarkFailed(w) \in WsRecords /\ MarkFailed(w).phase = "failed"
      /\ MarkFailed(w).io = FALSE
  BY Zenon DEF MarkFailed
<1>6. /\ MarkFailed(NoteHandshakeStarted(w)) \in WsRecords
      /\ MarkFailed(NoteHandshakeStarted(w)).phase = "failed"
      /\ MarkFailed(NoteHandshakeStarted(w)).io = FALSE
  BY <1>2, Zenon DEF MarkFailed
<1> QED BY <1>1, <1>2, <1>3, <1>4, <1>5, <1>6, Zenon

\* No session, or a new one.
LEMMA NewSession ==
    /\ NoSession \in SessionRecords /\ NoSession.sent = <<>> /\ NoSession.inbox = <<>>
    /\ NoSession.got = <<>> /\ NoSession.eof = FALSE
    /\ Left(NoSession.sent, NoSession.inbox)
<1>1. <<>> \in Seq(Frames) /\ <<>> \in Seq(Nat) /\ NoCode \in CodeSets
  BY CodeTypes
<1>2. Left(<<>>, <<>>)
  <2>1. <<>> = <<>> \o <<>>
    OBVIOUS
  <2> QED BY <1>1, <2>1, Zenon DEF Left
<1> QED BY <1>1, <1>2, Zenon DEF NoSession, SessionRecords

\* What is left of a record that could not be opened.
LEMMA FailedOpening ==
    ASSUME ws \in WsRecords, NEW w \in OpenFailures
    PROVE  /\ w \in WsRecords /\ w.phase \in {"handshake", "failed"}
           /\ w.phase = "failed" => ~w.io
           /\ NoSession \in SessionRecords /\ NoSession.got = <<>>
           /\ Left(NoSession.sent, NoSession.inbox) /\ SessionOK(w, NoSession)
<1>1. /\ w \in WsRecords /\ w.phase \in {"handshake", "failed"}
      /\ w.phase = "failed" => ~w.io
  <2>1. CASE w = MarkFailed(ws)
    BY <2>1, RecordOps, Zenon
  <2>2. CASE w = NoteHandshakeStarted(ws)
    BY <2>2, RecordOps, Zenon
  <2>3. CASE w = MarkFailed(NoteHandshakeStarted(ws))
    BY <2>3, RecordOps, Zenon
  <2>4. w \in {MarkFailed(ws), NoteHandshakeStarted(ws), MarkFailed(NoteHandshakeStarted(ws))}
    BY Zenon DEF OpenFailures
  <2> QED BY <2>1, <2>2, <2>3, <2>4, Zenon
<1>2. /\ NoSession \in SessionRecords /\ NoSession.got = <<>>
      /\ Left(NoSession.sent, NoSession.inbox)
  BY NewSession, Zenon
<1>3. SessionOK(w, NoSession)
  BY <1>1, <1>2, Zenon DEF SessionOK, IsOpen
<1> QED BY <1>1, <1>2, <1>3, Zenon

LEMMA ClosedRecord ==
    \A w \in WsRecords, k \in CodeSets :
        /\ MarkClosed(w, k) \in WsRecords
        /\ MarkClosed(w, k).phase = "closed" /\ MarkClosed(w, k).code = k
  BY Zenon DEF MarkClosed, WsRecords

\* A session without its first frame.
LEMMA SessionTail ==
    ASSUME NEW s \in SessionRecords, s.inbox # <<>>, Left(s.sent, s.inbox)
    PROVE  LET t == [s EXCEPT !.inbox = Tail(@)]
           IN /\ t \in SessionRecords /\ t.eof = s.eof /\ t.code = s.code /\ t.got = s.got
              /\ t.sent = s.sent /\ t.inbox = Tail(s.inbox)
              /\ Left(t.sent, t.inbox)
              /\ Head(s.inbox) \in Frames
<1> DEFINE t == [s EXCEPT !.inbox = Tail(@)]
<1>0. s.inbox \in Seq(Frames) /\ s.sent \in Seq(Frames)
  BY Zenon DEF SessionRecords
<1>1. Tail(s.inbox) \in Seq(Frames) /\ Head(s.inbox) \in Frames
  BY <1>0
<1>2. /\ t \in SessionRecords /\ t.eof = s.eof /\ t.code = s.code /\ t.got = s.got
      /\ t.sent = s.sent /\ t.inbox = Tail(s.inbox)
  BY <1>1, Zenon DEF SessionRecords
<1>3. PICK p \in Seq(Frames) : s.sent = p \o s.inbox
  BY Zenon DEF Left
<1>4. Append(p, Head(s.inbox)) \in Seq(Frames)
      /\ s.sent = Append(p, Head(s.inbox)) \o Tail(s.inbox)
  <2>1. \A q \in Seq(Frames) : q # <<>> => p \o q = Append(p, Head(q)) \o Tail(q)
    OBVIOUS
  <2>2. p \o s.inbox = Append(p, Head(s.inbox)) \o Tail(s.inbox)
    BY <1>0, <2>1, Zenon
  <2>3. \A x \in Frames : Append(p, x) \in Seq(Frames)
    OBVIOUS
  <2> QED BY <1>1, <1>3, <2>2, <2>3, Zenon
<1>5. Left(s.sent, Tail(s.inbox))
  BY <1>4, Zenon DEF Left
<1> QED BY <1>1, <1>2, <1>5, Zenon

\* A session that has ended.
LEMMA SessionEnd ==
    ASSUME NEW s \in SessionRecords, NEW code \in CodeSets
    PROVE  LET t == [s EXCEPT !.eof = TRUE]
               u == [s EXCEPT !.eof = TRUE, !.code = code]
           IN /\ t \in SessionRecords /\ t.eof = TRUE /\ t.code = s.code /\ t.got = s.got
              /\ t.sent = s.sent /\ t.inbox = s.inbox
              /\ u \in SessionRecords /\ u.eof = TRUE /\ u.code = code /\ u.got = s.got
              /\ u.sent = s.sent /\ u.inbox = s.inbox
  BY Zenon DEF SessionRecords

-----------------------------------------------------------------------------
\* The fields of the state.
LEMMA WsFields ==
    ASSUME WsTypes
    PROVE  /\ tunnel.stage \in {"none", "scheduled", "running", "over"}
           /\ tunnel.from \in Nat
           /\ session.inbox \in Seq(Frames) /\ session.sent \in Seq(Frames)
           /\ session.code \in CodeSets /\ session.eof \in BOOLEAN
           /\ client.inbox \in Seq(Frames) /\ client.sent \in Seq(Frames)
           /\ client.out \in Seq(Frames)
           /\ NoCall.stage = "ensure" /\ NoCall.name = "none"
           /\ NoCall \in [name : Calls \cup {"none"}, stage : {"ensure", "io"}]
           /\ "none" \notin Calls
  BY Zenon DEF WsTypes, TunnelRecords, SessionRecords, ClientRecords, NoCall, Calls

\* While a call runs, no tunnel has passed anything on.
LEMMA Busy ==
    ASSUME WsInv, wsCall # NoCall
    PROVE  /\ tunnel.stage \in {"none", "scheduled"} /\ session.got = <<>>
           /\ client.sent = <<>> /\ client.out = <<>>
           /\ dws.phase # "closed"
<1>1. WsTypes
  BY Zenon DEF WsInv
<1>2. tunnel.stage \in {"none", "scheduled"}
  BY <1>1, WsFields, Zenon DEF WsInv
<1> QED BY <1>2, Zenon DEF WsInv

LEMMA EndKeeps ==
    ASSUME WsInv, wsCall # NoCall, NEW w \in WsRecords, NEW s \in SessionRecords,
           SessionOK(w, s), s.got = <<>>, End(w, s)
    PROVE  WsInv'
<1>1. WsTypes /\ Left(client.sent, client.inbox)
  BY Zenon DEF WsInv
<1>2. /\ ws' = w /\ session' = s /\ wsCall' = NoCall
      /\ UNCHANGED <<http, dws, client, tunnel, opened>>
  BY Zenon DEF End, downstream
<1>3. WsTypes'
  BY <1>1, <1>2, WsFields, Zenon DEF WsTypes
<1>4. SessionOK(ws, session)' /\ Left(client.sent, client.inbox)'
  BY <1>1, <1>2, Zenon DEF SessionOK, IsOpen
<1>5. wsCall'.stage = "ensure" /\ wsCall' = NoCall'
  BY <1>1, <1>2, WsFields, Zenon DEF NoCall
<1>6. tunnel'.stage \in {"none", "scheduled"} /\ dws'.phase # "closed"
      /\ client'.sent = <<>> /\ client'.out = <<>> /\ session'.got = <<>>
  BY <1>2, Busy, Zenon
<1> QED BY <1>3, <1>4, <1>5, <1>6, Zenon DEF WsInv, Tunnelling

\* What configuring does to the record.
LEMMA ConfigureKeeps ==
    ASSUME WsInv, NEW w \in WsRecords, w.io = ws.io, w.code = ws.code,
           w.phase = ws.phase \/ (ws.phase \in {"inactive", "observed"} /\ w.phase = "prepared"),
           ws' = w, UNCHANGED <<session, wsCall, http, downstream, opened>>
    PROVE  WsInv'
<1>1. UNCHANGED <<session, wsCall, http, dws, client, tunnel, opened>>
  BY Zenon DEF downstream
<1>2. WsTypes'
  BY <1>1, Zenon DEF WsInv, WsTypes
<1>3. IsOpen(w) = IsOpen(ws) /\ (w.phase = "closed" <=> ws.phase = "closed")
  BY Zenon DEF IsOpen
<1>4. SessionOK(ws, session)'
  BY <1>1, <1>3, Zenon DEF WsInv, SessionOK, IsOpen
<1>5. IsOpen(ws)' = IsOpen(ws) /\ ws'.io = ws.io
  BY <1>3, Zenon DEF IsOpen
<1> QED BY <1>1, <1>2, <1>4, <1>5, Zenon DEF WsInv, Tunnelling, NoCall, Outward, Inward, Left

LEMMA ConfiguringKeeps ==
    ASSUME WsInv, WsSetTarget \/ WsSetScheme \/ WsConfigure \/ CustomTls \/ StartHttp
    PROVE  WsInv'
<1>1. ws \in WsRecords /\ NoCode \in CodeSets
  BY CodeTypes, Zenon DEF WsInv, WsTypes
<1>2. CASE WsSetTarget
  <2> DEFINE v == PrepareOutbound(ws)
             w == [v EXCEPT !.target = TRUE]
  <2>1. v \in WsRecords /\ v.io = ws.io /\ v.code = ws.code
        /\ v.phase = IF ws.phase \in {"inactive", "observed"} THEN "prepared" ELSE ws.phase
    BY <1>1, RecordOps, Zenon
  <2> HIDE DEF v
  <2>2. w \in WsRecords /\ w.io = v.io /\ w.code = v.code /\ w.phase = v.phase
    BY <2>1, Zenon DEF WsRecords
  <2>3. ws' = w /\ UNCHANGED <<session, wsCall, http, downstream, opened>>
    BY <1>2, Zenon DEF WsSetTarget, v
  <2> HIDE DEF w
  <2> QED BY <2>1, <2>2, <2>3, ConfigureKeeps, Zenon
<1>3. CASE WsConfigure
  <2> DEFINE v == PrepareOutbound(ws)
  <2>1. v \in WsRecords /\ v.io = ws.io /\ v.code = ws.code
        /\ v.phase = IF ws.phase \in {"inactive", "observed"} THEN "prepared" ELSE ws.phase
    BY <1>1, RecordOps, Zenon
  <2>2. ws' = v /\ UNCHANGED <<session, wsCall, http, downstream, opened>>
    BY <1>3, Zenon DEF WsConfigure
  <2> HIDE DEF v
  <2> QED BY <2>1, <2>2, ConfigureKeeps, Zenon
<1>4. CASE CustomTls
  <2> DEFINE v == [ws EXCEPT !.custom = TRUE]
  <2>1. v \in WsRecords /\ v.io = ws.io /\ v.code = ws.code /\ v.phase = ws.phase
    BY <1>1, Zenon DEF WsRecords
  <2>2. ws' = v /\ UNCHANGED <<session, wsCall, http, downstream, opened>>
    BY <1>4, Zenon DEF CustomTls
  <2> HIDE DEF v
  <2> QED BY <2>1, <2>2, ConfigureKeeps, Zenon
<1>5. CASE StartHttp
  <2>1. UNCHANGED <<ws, session, wsCall, dws, client, tunnel, opened>>
    BY <1>5, Zenon DEF StartHttp, downstream
  <2>2. WsTypes'
    BY <2>1, Zenon DEF WsInv, WsTypes
  <2> QED BY <2>1, <2>2, Zenon
             DEF WsInv, SessionOK, IsOpen, Left, NoCall, Tunnelling, Outward, Inward
<1>6. CASE WsSetScheme
  <2>1. PICK tls \in BOOLEAN : ws' = [PrepareOutbound(ws) EXCEPT !.tls = tls]
    BY <1>6, Zenon DEF WsSetScheme
  <2> DEFINE v == PrepareOutbound(ws)
             w == [v EXCEPT !.tls = tls]
  <2>2. v \in WsRecords /\ v.io = ws.io /\ v.code = ws.code
        /\ v.phase = IF ws.phase \in {"inactive", "observed"} THEN "prepared" ELSE ws.phase
    BY <1>1, RecordOps, Zenon
  <2>3. ws' = w /\ UNCHANGED <<session, wsCall, http, downstream, opened>>
    BY <1>6, <2>1, Zenon DEF WsSetScheme
  <2> HIDE DEF v
  <2>4. w \in WsRecords /\ w.io = v.io /\ w.code = v.code /\ w.phase = v.phase
    BY <2>1, <2>2, Zenon DEF WsRecords
  <2> HIDE DEF w
  <2> QED BY <2>2, <2>3, <2>4, ConfigureKeeps, Zenon
<1> QED BY <1>2, <1>3, <1>4, <1>5, <1>6, Zenon

-----------------------------------------------------------------------------
\* The calls that start, and those that find or make an open connection.
LEMMA OpeningKeeps ==
    ASSUME WsInv, (\E name \in Calls : Begin(name)) \/ AlreadyOpen \/ OpenFails \/ Connects
    PROVE  WsInv'
<1>0. WsTypes /\ SessionOK(ws, session) /\ ws \in WsRecords /\ session \in SessionRecords
  BY Zenon DEF WsInv, WsTypes
<1>1. CASE \E name \in Calls : Begin(name)
  <2>1. PICK name \in Calls : Begin(name)
    BY <1>1, Zenon
  <2>2. /\ wsCall' = [name |-> name, stage |-> "ensure"]
        /\ tunnel.stage \in {"none", "scheduled"}
        /\ UNCHANGED <<ws, session, dws, client, tunnel, opened>>
    BY <2>1, Zenon DEF Begin, downstream
  <2>3. WsTypes' /\ wsCall'.stage = "ensure"
    BY <1>0, <2>2, Zenon DEF WsTypes
  <2> QED BY <2>2, <2>3, Zenon DEF WsInv, SessionOK, IsOpen, Left, Tunnelling
<1>2. CASE AlreadyOpen
  <2>1. /\ wsCall' = [wsCall EXCEPT !.stage = "io"] /\ wsCall.name \in Calls /\ IsOpen(ws)
        /\ UNCHANGED <<ws, session, dws, client, tunnel, opened>>
    BY <1>2, Zenon DEF AlreadyOpen, Ensuring, downstream
  <2>2. wsCall # NoCall
    BY <1>0, <2>1, WsFields, Zenon
  <2>3. WsTypes'
    BY <1>0, <2>1, Zenon DEF WsTypes
  <2>4. tunnel.stage \in {"none", "scheduled"}
    BY <2>2, Busy, Zenon
  <2> QED BY <2>1, <2>3, <2>4, Zenon DEF WsInv, SessionOK, IsOpen, Left, Tunnelling
<1>3. CASE OpenFails
  <2>1. wsCall # NoCall
    BY <1>0, <1>3, WsFields, Zenon DEF OpenFails, Ensuring
  <2>2. End(ws, session) \/ \E w \in OpenFailures : End(w, NoSession)
    BY <1>3, Zenon DEF OpenFails
  <2>3. session.got = <<>>
    BY <2>1, Busy, Zenon
  <2>4. CASE End(ws, session)
    BY <1>0, <2>1, <2>3, <2>4, EndKeeps, Zenon
  <2>5. CASE \E w \in OpenFailures : End(w, NoSession)
    <3>1. PICK w \in OpenFailures : End(w, NoSession)
      BY <2>5, Zenon
    <3>2. /\ w \in WsRecords /\ SessionOK(w, NoSession)
          /\ NoSession \in SessionRecords /\ NoSession.got = <<>>
      BY <1>0, FailedOpening, Zenon
    <3> QED BY <2>1, <3>1, <3>2, EndKeeps, Zenon
  <2> QED BY <2>2, <2>4, <2>5, Zenon
<1>4. CASE Connects
  <2> DEFINE v == MarkOpen(NoteHandshakeStarted(ws))
             s == NoSession
  <2>1. /\ wsCall' = [wsCall EXCEPT !.stage = "io"] /\ wsCall.name \in Calls
        /\ ws' = v /\ session' = s /\ opened' = opened + 1
        /\ UNCHANGED <<dws, client, tunnel>>
    BY <1>4, Zenon DEF Connects, StoreConnected, Ensuring, downstream
  <2>2. wsCall # NoCall /\ opened + 1 \in Nat
    BY <1>0, <2>1, WsFields DEF WsTypes
  <2>3. v \in WsRecords /\ v.phase = "open" /\ v.io = TRUE
    BY <1>0, RecordOps, Zenon
  <2>4. s \in SessionRecords /\ s.eof = FALSE /\ s.got = <<>> /\ Left(s.sent, s.inbox)
    BY NewSession, Zenon
  <2> HIDE DEF v, s
  <2>5. WsTypes'
    BY <1>0, <2>1, <2>2, <2>3, <2>4, Zenon DEF WsTypes
  <2>6. SessionOK(v, s) /\ IsOpen(v)
    BY <2>3, <2>4, Zenon DEF SessionOK, IsOpen
  <2>7. tunnel.stage \in {"none", "scheduled"} /\ client.sent = <<>> /\ client.out = <<>>
        /\ dws.phase # "closed"
    BY <2>2, Busy, Zenon
  <2>8. SessionOK(ws, session)' /\ IsOpen(ws)'
    BY <2>1, <2>6, Zenon DEF SessionOK, IsOpen
  <2>9. Left(client.sent, client.inbox)'
    BY <2>1, Zenon DEF WsInv
  <2> QED BY <2>1, <2>4, <2>5, <2>7, <2>8, <2>9, Zenon DEF WsInv, Tunnelling
<1> QED BY <1>1, <1>2, <1>3, <1>4, Zenon

\* The calls on an open connection.
LEMMA CallingKeeps ==
    ASSUME WsInv, ConnectDone \/ WsSend \/ ReadPing \/ ReadFrame \/ ReadEnd \/ WsClose
    PROVE  WsInv'
<1>0. /\ WsTypes /\ SessionOK(ws, session) /\ ws \in WsRecords /\ session \in SessionRecords
      /\ wsCall.stage = "io" => IsOpen(ws)
  BY Zenon DEF WsInv, WsTypes
<1>1. wsCall.stage = "io"
  BY Zenon DEF ConnectDone, WsSend, ReadPing, ReadFrame, ReadEnd, WsClose, Doing
<1>2. wsCall # NoCall /\ IsOpen(ws)
  BY <1>0, <1>1, WsFields, Zenon
<1>3. /\ session.got = <<>> /\ ws.phase = "open" /\ ws.io
      /\ tunnel.stage \in {"none", "scheduled"} /\ client.sent = <<>> /\ client.out = <<>>
      /\ dws.phase # "closed"
  BY <1>2, Busy, Zenon DEF IsOpen
<1>4. Left(session.sent, session.inbox) /\ (session.eof => session.inbox = <<>>)
  BY <1>0, <1>2, Zenon DEF SessionOK
<1>5. CASE ConnectDone \/ WsSend
  <2>1. End(ws, session)
    BY <1>5, Zenon DEF ConnectDone, WsSend
  <2> QED BY <1>0, <1>2, <1>3, <2>1, EndKeeps, Zenon
<1> DEFINE t == [session EXCEPT !.inbox = Tail(@)]
<1>6. ASSUME session.inbox # <<>>
      PROVE  /\ t \in SessionRecords /\ t.eof = session.eof /\ t.code = session.code
             /\ t.got = session.got /\ t.sent = session.sent /\ t.inbox = Tail(session.inbox)
             /\ Left(t.sent, t.inbox) /\ Head(session.inbox) \in Frames
             /\ SessionOK(ws, t)
  <2>1. /\ t \in SessionRecords /\ t.eof = session.eof /\ t.code = session.code
        /\ t.got = session.got /\ t.sent = session.sent /\ t.inbox = Tail(session.inbox)
        /\ Left(t.sent, t.inbox) /\ Head(session.inbox) \in Frames
    BY <1>0, <1>4, <1>6, SessionTail, Zenon
  <2> HIDE DEF t
  <2>2. SessionOK(ws, t)
    BY <1>3, <1>4, <1>6, <2>1, Zenon DEF SessionOK, IsOpen
  <2> QED BY <2>1, <2>2, Zenon
<1>7. CASE ReadPing
  <2>1. session.inbox # <<>> /\ (\/ session' = t /\ UNCHANGED <<ws, wsCall, http, downstream, opened>>
                                 \/ End(ws, t))
    BY <1>7, Zenon DEF ReadPing
  <2> HIDE DEF t
  <2>2. CASE End(ws, t)
    BY <1>0, <1>2, <1>3, <1>6, <2>1, <2>2, EndKeeps, Zenon
  <2>3. CASE session' = t /\ UNCHANGED <<ws, wsCall, http, downstream, opened>>
    <3>1. UNCHANGED <<ws, wsCall, dws, client, tunnel, opened>> /\ session' = t
      BY <2>3, Zenon DEF downstream
    <3>2. WsTypes'
      BY <1>0, <1>6, <2>1, <3>1, Zenon DEF WsTypes
    <3>3. SessionOK(ws, session)'
      BY <1>6, <2>1, <3>1, Zenon DEF SessionOK, IsOpen
    <3>4. session'.got = <<>>
      BY <1>3, <1>6, <2>1, <3>1, Zenon
    <3> QED BY <1>2, <1>3, <3>1, <3>2, <3>3, <3>4, Zenon DEF WsInv, IsOpen, Tunnelling, Left
  <2> QED BY <2>1, <2>2, <2>3, Zenon
<1>8. CASE ReadFrame
  <2>1. session.inbox # <<>> /\ (End(Refresh(ws, session), t) \/ End(ws, t))
    BY <1>8, Zenon DEF ReadFrame
  <2> HIDE DEF t
  <2>2. Refresh(ws, session) = ws
    BY <1>4, <2>1, Zenon DEF Refresh
  <2> QED BY <1>0, <1>2, <1>3, <1>6, <2>1, <2>2, EndKeeps, Zenon
<1>9. CASE ReadEnd
  <2> DEFINE u == [session EXCEPT !.eof = TRUE]
             v == [u EXCEPT !.inbox = Tail(@), !.code = SomeCode(Head(session.inbox).n)]
  <2>1. \/ /\ session.inbox # <<>> /\ Head(session.inbox).kind = "close"
           /\ End(Refresh(ws, v), v)
        \/ session.inbox = <<>> /\ (End(Refresh(ws, u), u) \/ End(ws, u))
    BY <1>9, Zenon DEF ReadEnd
  <2>2. u \in SessionRecords /\ u.eof = TRUE /\ u.code = session.code /\ u.got = <<>>
        /\ u.sent = session.sent /\ u.inbox = session.inbox
    BY <1>0, <1>3, Zenon DEF SessionRecords
  <2>3. CASE /\ session.inbox # <<>> /\ Head(session.inbox).kind = "close"
             /\ End(Refresh(ws, v), v)
    <3>1. Head(session.inbox) \in Frames /\ Head(session.inbox).n \in Codes
      BY <1>6, <2>3, FrameIs, Zenon
    <3>2. SomeCode(Head(session.inbox).n) \in CodeSets
      BY <3>1, CodeTypes
    <3>3. Tail(session.inbox) \in Seq(Frames) /\ Left(session.sent, Tail(session.inbox))
      BY <1>6, <2>3, Zenon DEF SessionRecords
    <3> HIDE DEF u
    <3>4. v \in SessionRecords /\ v.eof = TRUE /\ v.got = <<>>
          /\ v.sent = session.sent /\ v.inbox = Tail(session.inbox)
      BY <2>2, <3>2, <3>3, Zenon DEF SessionRecords
    <3>5. v.code \in CodeSets
      BY <3>4, Zenon DEF SessionRecords
    <3> HIDE DEF v
    <3> DEFINE w == MarkClosed(ws, v.code)
    <3>6. w \in WsRecords /\ w.phase = "closed" /\ w.code = v.code
      BY <1>0, <3>5, ClosedRecord, Zenon
    <3>7. Refresh(ws, v) = w
      BY <1>3, <3>4, Zenon DEF Refresh
    <3> HIDE DEF w
    <3>8. SessionOK(w, v)
      BY <3>3, <3>4, <3>6, Zenon DEF SessionOK, IsOpen
    <3> QED BY <1>2, <2>3, <3>4, <3>6, <3>7, <3>8, EndKeeps, Zenon
  <2>4. CASE session.inbox = <<>> /\ (End(Refresh(ws, u), u) \/ End(ws, u))
    <3> HIDE DEF u
    <3> DEFINE w == MarkClosed(ws, u.code)
    <3>1. u.code \in CodeSets
      BY <2>2, Zenon DEF SessionRecords
    <3>2. w \in WsRecords /\ w.phase = "closed" /\ w.code = u.code
      BY <1>0, <3>1, ClosedRecord, Zenon
    <3>3. Refresh(ws, u) = w
      BY <1>3, <2>2, Zenon DEF Refresh
    <3> HIDE DEF w
    <3>4. SessionOK(w, u)
      BY <1>4, <2>2, <3>2, Zenon DEF SessionOK, IsOpen
    <3>5. SessionOK(ws, u)
      BY <1>3, <1>4, <2>2, <2>4, Zenon DEF SessionOK, IsOpen
    <3>6. CASE End(w, u)
      BY <1>2, <2>2, <3>2, <3>4, <3>6, EndKeeps, Zenon
    <3>7. CASE End(ws, u)
      BY <1>0, <1>2, <2>2, <3>5, <3>7, EndKeeps, Zenon
    <3> QED BY <2>4, <3>3, <3>6, <3>7, Zenon
  <2> QED BY <2>1, <2>3, <2>4, Zenon
<1>10. CASE WsClose
  <2> DEFINE w == NoteClosing(ws)
  <2>1. w \in WsRecords /\ w.phase = "closing"
    BY <1>0, <1>3, RecordOps, Zenon
  <2>2. \/ \E c \in Codes :
              End(MarkClosed(w, SomeCode(c)),
                  [session EXCEPT !.eof = TRUE, !.code = SomeCode(c)])
        \/ End(w, session)
        \/ End(ws, session)
    BY <1>10, Zenon DEF WsClose
  <2> HIDE DEF w
  <2>3. CASE \E c \in Codes :
               End(MarkClosed(w, SomeCode(c)),
                   [session EXCEPT !.eof = TRUE, !.code = SomeCode(c)])
    <3>1. PICK c \in Codes :
               End(MarkClosed(w, SomeCode(c)),
                   [session EXCEPT !.eof = TRUE, !.code = SomeCode(c)])
      BY <2>3, Zenon
    <3> DEFINE k == SomeCode(c)
               v == MarkClosed(w, k)
               u == [session EXCEPT !.eof = TRUE, !.code = k]
    <3>2. k \in CodeSets
      BY CodeTypes
    <3>3. End(v, u)
      BY <3>1, Zenon
    <3> HIDE DEF k
    <3>4. u \in SessionRecords /\ u.eof = TRUE /\ u.code = k /\ u.got = <<>>
          /\ u.sent = session.sent /\ u.inbox = session.inbox
      BY <1>0, <1>3, <3>2, SessionEnd, Zenon
    <3>5. v \in WsRecords /\ v.phase = "closed" /\ v.code = k
      BY <2>1, <3>2, ClosedRecord, Zenon
    <3> HIDE DEF u, v
    <3>6. SessionOK(v, u)
      BY <1>4, <3>4, <3>5, Zenon DEF SessionOK, IsOpen
    <3> QED BY <1>2, <3>3, <3>4, <3>5, <3>6, EndKeeps, Zenon
  <2>4. CASE End(w, session)
    <3>1. SessionOK(w, session)
      BY <1>4, <2>1, Zenon DEF SessionOK, IsOpen
    <3> QED BY <1>0, <1>2, <1>3, <2>1, <2>4, <3>1, EndKeeps, Zenon
  <2>5. CASE End(ws, session)
    BY <1>0, <1>2, <1>3, <2>5, EndKeeps, Zenon
  <2> QED BY <2>2, <2>3, <2>4, <2>5, Zenon
<1> QED BY <1>5, <1>7, <1>8, <1>9, <1>10, Zenon

-----------------------------------------------------------------------------
(* Binary frames.                                                          *)

LEMMA BinariesType == ASSUME NEW q \in Seq(Frames) PROVE Binaries(q) \in Seq(Frames)
  BY KeptKeeps, Zenon DEF Binaries

LEMMA BinariesAppend ==
    ASSUME NEW q \in Seq(Frames), NEW f \in Frames
    PROVE  Binaries(Append(q, f)) = IF f.kind = "binary" THEN Append(Binaries(q), f)
                                    ELSE Binaries(q)
<1>1. f.kind = "binary" <=> f \in BinaryFrames
  BY FrameIs, Zenon
<1> QED BY <1>1, KeptAppend DEF Binaries

LEMMA BinariesHead ==
    ASSUME NEW q \in Seq(Frames), q # <<>>
    PROVE  Binaries(q) = IF Head(q).kind = "binary" THEN <<Head(q)>> \o Binaries(Tail(q))
                         ELSE Binaries(Tail(q))
<1>1. Head(q) \in Frames
  OBVIOUS
<1>2. Head(q).kind = "binary" <=> Head(q) \in BinaryFrames
  BY <1>1, FrameIs, Zenon
<1> QED BY <1>2, KeptHead, Zenon DEF Binaries

LEMMA FramesCat ==
    ASSUME NEW a \in Seq(Frames), NEW b \in Seq(Frames), NEW x \in Frames
    PROVE  /\ a \o Append(b, x) = Append(a \o b, x)
           /\ a \o (<<x>> \o b) = Append(a, x) \o b
           /\ a \o b \in Seq(Frames) /\ Append(a, x) \in Seq(Frames)
           /\ a \o <<>> = a
<1>1. a \o Append(b, x) = Append(a \o b, x)
  OBVIOUS
<1>2. a \o (<<x>> \o b) = Append(a, x) \o b
  <2>1. <<x>> \in Seq(Frames) /\ Append(a, x) = a \o <<x>>
    OBVIOUS
  <2>2. \A c \in Seq(Frames) : a \o (c \o b) = (a \o c) \o b
    OBVIOUS
  <2> QED BY <2>1, <2>2, Zenon
<1>3. a \o b \in Seq(Frames) /\ Append(a, x) \in Seq(Frames) /\ a \o <<>> = a
  OBVIOUS
<1> QED BY <1>1, <1>2, <1>3, Zenon

LEMMA CatHead ==
    \A a, b \in Seq(Frames), x \in Frames : a \o (<<x>> \o b) = Append(a, x) \o b
  BY FramesCat

LEMMA CatAppend ==
    \A a, b \in Seq(Frames), x \in Frames :
        Append(a \o b, x) = a \o Append(b, x) /\ Append(b, x) \in Seq(Frames)
  BY FramesCat

LEMMA NumbersAppend ==
    ASSUME NEW b \in Seq(Frames), NEW x \in Frames
    PROVE  FrameNumbers(Append(b, x)) = Append(FrameNumbers(b), x.n)
<1> DEFINE n == Len(b)
           m == Len(Append(b, x))
           u == FrameNumbers(Append(b, x))
           v == Append(FrameNumbers(b), x.n)
<1>1. n \in Nat /\ m = n + 1 /\ Append(b, x)[n + 1] = x
      /\ \A i \in 1 .. n : Append(b, x)[i] = b[i]
  OBVIOUS
<1>2. u = [i \in 1 .. m |-> Append(b, x)[i].n]
  BY Zenon DEF FrameNumbers
<1>3. FrameNumbers(b) = [i \in 1 .. n |-> b[i].n]
  BY Zenon DEF FrameNumbers
<1>4. \A q : q = [i \in 1 .. n |-> b[i].n] =>
         Append(q, x.n) = [i \in 1 .. n + 1 |-> IF i = n + 1 THEN x.n ELSE b[i].n]
  BY <1>1
<1>5. v = [i \in 1 .. n + 1 |-> IF i = n + 1 THEN x.n ELSE b[i].n]
  BY <1>3, <1>4, Zenon
<1>6. \A i \in 1 .. n + 1 : Append(b, x)[i].n = IF i = n + 1 THEN x.n ELSE b[i].n
  <2> SUFFICES ASSUME NEW i \in 1 .. n + 1
               PROVE  Append(b, x)[i].n = IF i = n + 1 THEN x.n ELSE b[i].n
    BY Zenon
  <2>1. i = n + 1 \/ i \in 1 .. n
    BY <1>1
  <2> QED BY <1>1, <2>1, Zenon
<1> QED BY <1>1, <1>2, <1>5, <1>6, Zenon

-----------------------------------------------------------------------------
(* The tunnel.                                                             *)

\* A frame that arrives waits on its side.
LEMMA Arrives ==
    ASSUME NEW all \in Seq(Frames), NEW inbox \in Seq(Frames), NEW a \in Seq(Frames),
           NEW f \in Frames, Binaries(all) = a \o Binaries(inbox)
    PROVE  Binaries(Append(all, f)) = a \o Binaries(Append(inbox, f))
<1>1. /\ Binaries(Append(all, f))
           = IF f.kind = "binary" THEN Append(Binaries(all), f) ELSE Binaries(all)
      /\ Binaries(Append(inbox, f))
           = IF f.kind = "binary" THEN Append(Binaries(inbox), f) ELSE Binaries(inbox)
  BY BinariesAppend, Zenon
<1>2. Binaries(inbox) \in Seq(Frames)
  BY BinariesType, Zenon
<1>3. a \o Append(Binaries(inbox), f) = Append(a \o Binaries(inbox), f)
  BY <1>2, FramesCat
<1> QED BY <1>1, <1>3, Zenon

LEMMA InwardArrives ==
    ASSUME NEW all \in Seq(Frames), NEW inbox \in Seq(Frames), NEW f \in Frames, NEW got,
           Passed(got, all, inbox)
    PROVE  Passed(got, Append(all, f), Append(inbox, f))
<1>0. \A x \in Seq(Frames) :
        Binaries(all) = x \o Binaries(inbox)
          => Binaries(Append(all, f)) = x \o Binaries(Append(inbox, f))
  BY Arrives, Zenon
<1>1. PICK b \in Seq(Frames) : Binaries(all) = b \o Binaries(inbox) /\ got = FrameNumbers(b)
  BY Zenon DEF Passed
<1>2. Binaries(Append(all, f)) = b \o Binaries(Append(inbox, f))
  BY <1>0, <1>1, Zenon
<1> QED BY <1>1, <1>2, Zenon DEF Passed

LEMMA NothingLeft == ASSUME NEW q \in Seq(Frames), Left(<<>>, q) PROVE q = <<>>
<1>1. PICK p \in Seq(Frames) : <<>> = p \o q
  BY Zenon DEF Left
<1>2. Len(p \o q) = Len(p) + Len(q) /\ Len(p) \in Nat /\ Len(q) \in Nat
  OBVIOUS
<1>3. Len(p \o q) = 0
  BY <1>1
<1> QED BY <1>2, <1>3

LEMMA LeftAppend ==
    ASSUME NEW all, NEW inbox \in Seq(Frames), NEW f \in Frames, Left(all, inbox)
    PROVE  Left(Append(all, f), Append(inbox, f))
<1>1. PICK p \in Seq(Frames) : all = p \o inbox
  BY Zenon DEF Left
<1>2. p \o Append(inbox, f) = Append(p \o inbox, f)
  BY FramesCat
<1> QED BY <1>1, <1>2, Zenon DEF Left

\* The next frame of a side, taken from it.
LEMMA Taken ==
    ASSUME NEW all \in Seq(Frames), NEW inbox \in Seq(Frames), NEW a \in Seq(Frames),
           inbox # <<>>, Binaries(all) = a \o Binaries(inbox)
    PROVE  /\ Tail(inbox) \in Seq(Frames) /\ Head(inbox) \in Frames
           /\ Binaries(all) = IF Head(inbox).kind = "binary"
                               THEN Append(a, Head(inbox)) \o Binaries(Tail(inbox))
                               ELSE a \o Binaries(Tail(inbox))
<1>1. Tail(inbox) \in Seq(Frames) /\ Head(inbox) \in Frames
  OBVIOUS
<1>2. Binaries(inbox) = IF Head(inbox).kind = "binary"
                        THEN <<Head(inbox)>> \o Binaries(Tail(inbox))
                        ELSE Binaries(Tail(inbox))
  BY BinariesHead, Zenon
<1>3. Binaries(Tail(inbox)) \in Seq(Frames)
  BY <1>1, BinariesType, Zenon
<1>4. a \o (<<Head(inbox)>> \o Binaries(Tail(inbox)))
        = Append(a, Head(inbox)) \o Binaries(Tail(inbox))
  BY <1>1, <1>3, CatHead, Zenon
<1> QED BY <1>1, <1>2, <1>4, Zenon

LEMMA NextFrameIs ==
    ASSUME NEW q \in Seq(Frames), NEW f \in NextFrames(q) PROVE f \in Frames
<1>1. Len(q) + 1 \in Nat
  OBVIOUS
<1> QED BY <1>1 DEF NextFrames, Frames

\* What a peer of the session or the client does.
LEMMA PeersKeep ==
    ASSUME WsInv, PeerSends \/ PeerGone \/ ClientSends \/ ClientGone
    PROVE  WsInv'
<1>0. /\ WsTypes /\ SessionOK(ws, session) /\ session \in SessionRecords
      /\ client \in ClientRecords /\ Left(client.sent, client.inbox)
      /\ Left(session.sent, session.inbox)
  BY Zenon DEF WsInv, WsTypes, SessionOK
<1>1. CASE PeerSends
  <2>1. PICK f \in NextFrames(session.sent) :
          session' = [session EXCEPT !.sent = Append(@, f), !.inbox = Append(@, f),
                                     !.ended = f.kind = "close"]
    BY <1>1, Zenon DEF PeerSends
  <2>2. ws.io /\ ~session.eof /\ UNCHANGED <<ws, wsCall, dws, client, tunnel, opened>>
    BY <1>1, Zenon DEF PeerSends, downstream
  <2>3. f \in Frames
    BY <1>0, <2>1, WsFields, NextFrameIs, Zenon
  <2>4. session.sent \in Seq(Frames) /\ session.inbox \in Seq(Frames)
    BY <1>0, WsFields, Zenon
  <2>5. Append(session.sent, f) \in Seq(Frames) /\ Append(session.inbox, f) \in Seq(Frames)
    BY <2>3, <2>4
  <2>6. /\ session' \in SessionRecords /\ session'.eof = session.eof
        /\ session'.sent = Append(session.sent, f) /\ session'.inbox = Append(session.inbox, f)
        /\ session'.got = session.got
    BY <1>0, <2>1, <2>5, Zenon DEF SessionRecords
  <2>7. WsTypes'
    BY <1>0, <2>2, <2>6, Zenon DEF WsTypes
  <2>8. Left(session'.sent, session'.inbox)
    BY <1>0, <2>3, <2>4, <2>6, LeftAppend, Zenon
  <2>9. SessionOK(ws, session)'
    BY <1>0, <2>2, <2>6, <2>8, Zenon DEF SessionOK, IsOpen
  <2>10. dws.phase # "closed"
    BY <2>2, Zenon DEF WsInv
  <2>11. ASSUME Tunnelling PROVE Outward(session, client, tunnel.from)'
    <3>1. PICK a \in Seq(Frames) :
            /\ Len(a) = tunnel.from
            /\ Binaries(session.sent) = (a \o client.out) \o Binaries(session.inbox)
      BY <2>11, Zenon DEF WsInv, Outward
    <3> DEFINE c == a \o client.out
    <3>2. c \in Seq(Frames) /\ Binaries(session.sent) = c \o Binaries(session.inbox)
      BY <1>0, <3>1, WsFields
    <3> HIDE DEF c
    <3>3. Binaries(Append(session.sent, f)) = c \o Binaries(Append(session.inbox, f))
      BY <2>3, <2>4, <3>2, Arrives, ZenonT(30)
    <3> QED BY <2>2, <2>6, <3>1, <3>3, Zenon DEF Outward, c
  <2>12. ASSUME Tunnelling PROVE Inward(session, client)'
    BY <2>2, <2>6, <2>12, Zenon DEF WsInv, Inward
  <2>13. Tunnelling' = Tunnelling /\ IsOpen(ws)' = IsOpen(ws) /\ NoCall' = NoCall
    BY <2>2, Zenon DEF Tunnelling, IsOpen, NoCall
  <2> QED BY <1>0, <2>2, <2>6, <2>7, <2>9, <2>10, <2>11, <2>12, <2>13, Zenon DEF WsInv
<1>2. CASE PeerGone
  <2>1. /\ session' = [session EXCEPT !.ended = TRUE]
        /\ UNCHANGED <<ws, wsCall, dws, client, tunnel, opened>>
    BY <1>2, Zenon DEF PeerGone, downstream
  <2>2. /\ session' \in SessionRecords /\ session'.eof = session.eof
        /\ session'.sent = session.sent /\ session'.inbox = session.inbox
        /\ session'.got = session.got /\ session'.code = session.code
    BY <1>0, <2>1, Zenon DEF SessionRecords
  <2>3. WsTypes'
    BY <1>0, <2>1, <2>2, Zenon DEF WsTypes
  <2>4. SessionOK(ws, session)'
    BY <1>0, <2>1, <2>2, Zenon DEF SessionOK, IsOpen
  <2>5. Tunnelling' = Tunnelling /\ IsOpen(ws)' = IsOpen(ws) /\ NoCall' = NoCall
    BY <2>1, Zenon DEF Tunnelling, IsOpen, NoCall
  <2>6. Tunnelling => Outward(session, client, tunnel.from)' /\ Inward(session, client)'
    BY <2>1, <2>2, Zenon DEF WsInv, Outward, Inward
  <2> QED BY <1>0, <2>1, <2>2, <2>3, <2>4, <2>5, <2>6, Zenon DEF WsInv
<1>3. CASE ClientSends
  <2>1. PICK f \in NextFrames(client.sent) :
          client' = [client EXCEPT !.sent = Append(@, f), !.inbox = Append(@, f),
                                   !.ended = f.kind = "close"]
    BY <1>3, Zenon DEF ClientSends
  <2>2. tunnel.stage = "running" /\ UNCHANGED <<ws, session, wsCall, dws, tunnel, opened>>
    BY <1>3, Zenon DEF ClientSends
  <2>3. f \in Frames
    BY <1>0, <2>1, WsFields, NextFrameIs, Zenon
  <2>4. client.sent \in Seq(Frames) /\ client.inbox \in Seq(Frames)
    BY <1>0, WsFields, Zenon
  <2>5. Append(client.sent, f) \in Seq(Frames) /\ Append(client.inbox, f) \in Seq(Frames)
    BY <2>3, <2>4
  <2>6. /\ client' \in ClientRecords /\ client'.out = client.out
        /\ client'.sent = Append(client.sent, f) /\ client'.inbox = Append(client.inbox, f)
    BY <1>0, <2>1, <2>5, Zenon DEF ClientRecords
  <2>7. WsTypes'
    BY <1>0, <2>2, <2>6, Zenon DEF WsTypes
  <2>8. Left(client'.sent, client'.inbox)
    BY <1>0, <2>3, <2>4, <2>6, LeftAppend, Zenon
  <2>9. SessionOK(ws, session)' /\ Tunnelling /\ Tunnelling' /\ IsOpen(ws)' = IsOpen(ws)
    BY <1>0, <2>2, Zenon DEF SessionOK, IsOpen, Tunnelling
  <2>10. Outward(session, client, tunnel.from)'
    BY <2>2, <2>6, <2>9, Zenon DEF WsInv, Outward
  <2>11. Inward(session, client)'
    <3>1. Passed(session.got, client.sent, client.inbox)
      BY <2>9, Zenon DEF WsInv, Inward
    <3>2. Passed(session.got, Append(client.sent, f), Append(client.inbox, f))
      BY <2>3, <2>4, <3>1, InwardArrives, Zenon
    <3> QED BY <2>2, <2>6, <3>2, Zenon DEF Inward
  <2> QED BY <2>2, <2>6, <2>7, <2>8, <2>9, <2>10, <2>11, Zenon DEF WsInv, NoCall
<1>4. CASE ClientGone
  <2>1. /\ client' = [client EXCEPT !.ended = TRUE]
        /\ UNCHANGED <<ws, session, wsCall, dws, tunnel, opened>>
    BY <1>4, Zenon DEF ClientGone
  <2>2. /\ client' \in ClientRecords /\ client'.out = client.out
        /\ client'.sent = client.sent /\ client'.inbox = client.inbox
    BY <1>0, <2>1, Zenon DEF ClientRecords
  <2>3. WsTypes'
    BY <1>0, <2>1, <2>2, Zenon DEF WsTypes
  <2>4. SessionOK(ws, session)' /\ Left(client.sent, client.inbox)'
    BY <1>0, <2>1, <2>2, Zenon DEF SessionOK, IsOpen
  <2>5. Tunnelling' = Tunnelling /\ IsOpen(ws)' = IsOpen(ws) /\ NoCall' = NoCall
    BY <2>1, Zenon DEF Tunnelling, IsOpen, NoCall
  <2>6. Tunnelling => Outward(session, client, tunnel.from)' /\ Inward(session, client)'
    BY <2>1, <2>2, Zenon DEF WsInv, Outward, Inward
  <2> QED BY <2>1, <2>2, <2>3, <2>4, <2>5, <2>6, Zenon DEF WsInv
<1> QED BY <1>1, <1>2, <1>3, <1>4, Zenon

\* The last step of the tunnel, and every other one.
LEMMA TunnelEndsKeeps ==
    ASSUME WsInv, Tunnelling, NEW w \in WsRecords, NEW s \in SessionRecords,
           NEW c \in ClientRecords, NEW d \in WsRecords, SessionOK(w, s),
           Left(c.sent, c.inbox), d.phase = "closed" => s.eof \/ ~w.io, TunnelEnds(w, s, c, d)
    PROVE  WsInv'
<1>1. /\ ws' = w /\ session' = s /\ client' = c /\ dws' = d
      /\ tunnel' = [tunnel EXCEPT !.stage = "over"] /\ UNCHANGED <<wsCall, opened>>
  BY Zenon DEF TunnelEnds
<1>2. tunnel \in TunnelRecords /\ WsTypes /\ wsCall = NoCall
  BY Zenon DEF WsInv, WsTypes, Tunnelling
<1>3. tunnel' \in TunnelRecords /\ tunnel'.stage = "over"
  BY <1>1, <1>2, Zenon DEF TunnelRecords
<1>4. WsTypes'
  BY <1>1, <1>2, <1>3, Zenon DEF WsTypes
<1>5. SessionOK(ws, session)' /\ Left(client.sent, client.inbox)'
  BY <1>1, Zenon DEF SessionOK, IsOpen
<1>6. wsCall' = NoCall' /\ wsCall'.stage = "ensure"
  BY <1>1, <1>2, WsFields, Zenon DEF NoCall
<1> QED BY <1>1, <1>3, <1>4, <1>5, <1>6, Zenon DEF WsInv, Tunnelling

LEMMA TunnelGoesOnKeeps ==
    ASSUME WsInv, Tunnelling, NEW w \in WsRecords, NEW s \in SessionRecords,
           NEW c \in ClientRecords, SessionOK(w, s), Left(c.sent, c.inbox),
           IsOpen(w) \/ (c.out = <<>> /\ s.got = <<>>), Outward(s, c, tunnel.from), Inward(s, c),
           TunnelGoesOn(w, s, c)
    PROVE  WsInv'
<1>1. /\ ws' = w /\ session' = s /\ client' = c /\ UNCHANGED <<wsCall, dws, tunnel, opened>>
  BY Zenon DEF TunnelGoesOn
<1>2. WsTypes /\ wsCall = NoCall /\ tunnel.stage = "running" /\ dws.phase # "closed"
  BY Zenon DEF WsInv, Tunnelling
<1>3. WsTypes'
  BY <1>1, <1>2, Zenon DEF WsTypes
<1>4. /\ SessionOK(ws, session)' /\ Left(client.sent, client.inbox)'
      /\ IsOpen(ws)' \/ (client'.out = <<>> /\ session'.got = <<>>)
  BY <1>1, Zenon DEF SessionOK, IsOpen
<1>5. Outward(session, client, tunnel.from)' /\ Inward(session, client)'
  BY <1>1, Zenon DEF Outward, Inward
<1>6. wsCall' = NoCall' /\ wsCall'.stage = "ensure"
  BY <1>1, <1>2, WsFields, Zenon DEF NoCall
<1> QED BY <1>1, <1>2, <1>3, <1>4, <1>5, <1>6, Zenon DEF WsInv, Tunnelling

LEMMA NoBinaries == Binaries(<<>>) = <<>> /\ FrameNumbers(<<>>) = <<>>
<1>1. Binaries(<<>>) = <<>>
  <2>1. [kind |-> "ping", n |-> 0] \in Frames /\ <<>> \in Seq(Frames)
    BY DEF Frames
  <2> QED BY <2>1, KeptAppend, Zenon DEF Binaries
<1>2. FrameNumbers(<<>>) = <<>>
  BY DEF FrameNumbers
<1> QED BY <1>1, <1>2, Zenon

\* The tunnel is scheduled and starts, or does not.
LEMMA SchedulingKeeps ==
    ASSUME WsInv, WsForward \/ TunnelRuns \/ UpgradeFails
    PROVE  WsInv'
<1>0. /\ WsTypes /\ SessionOK(ws, session) /\ Left(client.sent, client.inbox)
      /\ Left(session.sent, session.inbox) /\ dws \in WsRecords /\ tunnel \in TunnelRecords
  BY Zenon DEF WsInv, WsTypes, SessionOK
<1>1. CASE WsForward
  <2>1. /\ wsCall' = NoCall /\ dws' = NoteHandshakeStarted(dws)
        /\ \/ tunnel' = [tunnel EXCEPT !.stage = "scheduled"]
           \/ tunnel' = [tunnel EXCEPT !.stage = "over"]
        /\ UNCHANGED <<ws, session, client, opened>> /\ wsCall.stage = "io"
    BY <1>1, Zenon DEF WsForward, Doing
  <2>2. wsCall # NoCall
    BY <1>0, <2>1, WsFields, Zenon
  <2>3. session.got = <<>> /\ client.sent = <<>> /\ client.out = <<>>
    BY <2>2, Busy, Zenon
  <2>4. dws' \in WsRecords /\ dws'.phase = "handshake"
    BY <1>0, <2>1, RecordOps, Zenon
  <2>5. tunnel' \in TunnelRecords /\ tunnel'.stage \in {"scheduled", "over"}
    BY <1>0, <2>1, Zenon DEF TunnelRecords
  <2>6. WsTypes' /\ wsCall'.stage = "ensure" /\ wsCall' = NoCall'
    BY <1>0, <2>1, <2>4, <2>5, WsFields, Zenon DEF WsTypes, NoCall
  <2>7. SessionOK(ws, session)' /\ Left(client.sent, client.inbox)'
    BY <1>0, <2>1, Zenon DEF SessionOK, IsOpen
  <2> QED BY <2>1, <2>3, <2>4, <2>5, <2>6, <2>7, Zenon DEF WsInv, Tunnelling
<1>2. CASE TunnelRuns
  <2> DEFINE n == Len(Binaries(session.sent)) - Len(Binaries(session.inbox))
  <2>1. /\ tunnel.stage = "scheduled" /\ wsCall = NoCall
        /\ tunnel' = [stage |-> "running", from |-> n]
        /\ UNCHANGED <<ws, session, wsCall, dws, client, opened>>
    BY <1>2, Zenon DEF TunnelRuns
  <2>2. session.got = <<>> /\ client.sent = <<>> /\ client.out = <<>> /\ dws.phase # "closed"
    BY <2>1, Zenon DEF WsInv
  <2>3. session.inbox \in Seq(Frames) /\ session.sent \in Seq(Frames)
    BY <1>0, WsFields, Zenon
  <2>4. PICK p \in Seq(Frames) : session.sent = p \o session.inbox
    BY <1>0, Zenon DEF Left
  <2>5. Binaries(p \o session.inbox) = Binaries(p) \o Binaries(session.inbox)
    BY <2>3, KeptCat, SMTT(30) DEF Binaries
  <2>6. Binaries(p) \in Seq(Frames) /\ Binaries(session.inbox) \in Seq(Frames)
    BY <2>3, BinariesType, Zenon
  <2>7. \A u, v \in Seq(Frames) : Len(u \o v) - Len(v) = Len(u) /\ Len(u) \in Nat
    OBVIOUS
  <2>8. n = Len(Binaries(p)) /\ n \in Nat
    BY <2>4, <2>5, <2>6, <2>7
  <2> HIDE DEF n
  <2>9. Outward(session, client, n)
    <3>1. Binaries(p) \o <<>> = Binaries(p)
      BY <2>6
    <3> QED BY <2>2, <2>4, <2>5, <2>6, <2>8, <3>1, Zenon DEF Outward
  <2>10. client.inbox = <<>>
    BY <1>0, <2>2, WsFields, NothingLeft, Zenon
  <2>11. Inward(session, client)
    <3>1. <<>> \in Seq(Frames) /\ <<>> = <<>> \o <<>>
      OBVIOUS
    <3> QED BY <2>2, <2>10, <3>1, NoBinaries, Zenon DEF Inward, Passed
  <2>12. tunnel' \in TunnelRecords /\ tunnel'.stage = "running" /\ tunnel'.from = n
    BY <2>1, <2>3, <2>8, Zenon DEF TunnelRecords
  <2>13. WsTypes'
    BY <1>0, <2>1, <2>12, Zenon DEF WsTypes
  <2>14. SessionOK(ws, session)' /\ Left(client.sent, client.inbox)'
    BY <1>0, <2>1, Zenon DEF SessionOK, IsOpen
  <2>15. Outward(session, client, tunnel.from)' /\ Inward(session, client)'
    BY <2>1, <2>9, <2>11, <2>12, Zenon DEF Outward, Inward
  <2>16. wsCall' = NoCall' /\ wsCall'.stage = "ensure"
    BY <1>0, <2>1, WsFields, Zenon DEF NoCall
  <2> QED BY <2>1, <2>2, <2>12, <2>13, <2>14, <2>15, <2>16, Zenon DEF WsInv, Tunnelling
<1>3. CASE UpgradeFails
  <2>1. /\ wsCall = NoCall /\ tunnel' = [tunnel EXCEPT !.stage = "over"]
        /\ dws' = dws \/ dws' = MarkFailed(dws)
        /\ UNCHANGED <<ws, session, wsCall, client, opened>> /\ tunnel.stage = "scheduled"
    BY <1>3, Zenon DEF UpgradeFails
  <2>2. dws' \in WsRecords /\ dws'.phase # "closed"
    <3>1. CASE dws' = dws
      BY <1>0, <2>1, <3>1, Zenon DEF WsInv
    <3>2. CASE dws' = MarkFailed(dws)
      BY <1>0, <3>2, RecordOps, Zenon
    <3> QED BY <2>1, <3>1, <3>2, Zenon
  <2>3. tunnel' \in TunnelRecords /\ tunnel'.stage = "over"
    BY <1>0, <2>1, Zenon DEF TunnelRecords
  <2>4. WsTypes' /\ wsCall'.stage = "ensure" /\ wsCall' = NoCall'
    BY <1>0, <2>1, <2>2, <2>3, WsFields, Zenon DEF WsTypes, NoCall
  <2>5. SessionOK(ws, session)' /\ Left(client.sent, client.inbox)'
    BY <1>0, <2>1, Zenon DEF SessionOK, IsOpen
  <2> QED BY <2>1, <2>2, <2>3, <2>4, <2>5, Zenon DEF WsInv, Tunnelling
<1> QED BY <1>1, <1>2, <1>3, Zenon

\* The tunnel gets a session of its own, or waits for one, before it passed anything on.
LEMMA FreshSessionKeeps ==
    ASSUME WsInv, Tunnelling, ~IsOpen(ws), NEW w \in WsRecords,
           w.phase \in {"handshake", "open"}, ws' = w, session' = NoSession,
           tunnel' = [tunnel EXCEPT !.from = 0], opened' \in Nat,
           UNCHANGED <<wsCall, dws, client>>
    PROVE  WsInv'
<1>1. /\ WsTypes /\ Left(client.sent, client.inbox) /\ tunnel \in TunnelRecords
      /\ client.out = <<>> /\ session.got = <<>> /\ wsCall = NoCall
      /\ dws.phase # "closed" /\ Inward(session, client)
  BY Zenon DEF WsInv, WsTypes, Tunnelling
<1>2. /\ NoSession \in SessionRecords /\ NoSession.sent = <<>> /\ NoSession.inbox = <<>>
      /\ NoSession.got = <<>> /\ NoSession.eof = FALSE
      /\ Left(NoSession.sent, NoSession.inbox)
  BY NewSession, Zenon
<1>3. tunnel' \in TunnelRecords /\ tunnel'.stage = "running" /\ tunnel'.from = 0
  <2>1. 0 \in Nat
    OBVIOUS
  <2> QED BY <1>1, <2>1, Zenon DEF TunnelRecords, Tunnelling
<1>4. WsTypes'
  BY <1>1, <1>2, <1>3, Zenon DEF WsTypes
<1>5. SessionOK(w, NoSession)
  BY <1>2, Zenon DEF SessionOK
<1>6. SessionOK(ws, session)' /\ Left(client.sent, client.inbox)'
  BY <1>1, <1>5, Zenon DEF SessionOK, IsOpen
<1>7. Outward(session, client, tunnel.from)'
  <2>1. <<>> \in Seq(Frames) /\ <<>> = (<<>> \o <<>>) \o <<>> /\ Len(<<>>) = 0
    OBVIOUS
  <2> QED BY <1>1, <1>2, <1>3, <2>1, NoBinaries, Zenon DEF Outward
<1>8. Inward(session, client)' /\ client'.out = <<>> /\ session'.got = <<>>
  BY <1>1, <1>2, Zenon DEF Inward
<1>9. wsCall' = NoCall' /\ wsCall'.stage = "ensure" /\ dws'.phase # "closed"
  BY <1>1, WsFields, Zenon DEF NoCall
<1> QED BY <1>3, <1>4, <1>6, <1>7, <1>8, <1>9, Zenon DEF WsInv, Tunnelling

\* The tunnel connects again, or fails to.
LEMMA ReopeningKeeps ==
    ASSUME WsInv, TunnelConnecting \/ TunnelReopens \/ TunnelReopenFails
    PROVE  WsInv'
<1>0. /\ WsTypes /\ SessionOK(ws, session) /\ Left(client.sent, client.inbox)
      /\ ws \in WsRecords /\ dws \in WsRecords /\ session \in SessionRecords
      /\ client \in ClientRecords /\ opened \in Nat
  BY Zenon DEF WsInv, WsTypes
<1>1. CASE TunnelConnecting
  <2> DEFINE v == NoteHandshakeStarted(ws)
  <2>1. /\ tunnel' = [tunnel EXCEPT !.from = 0] /\ ws' = v /\ session' = NoSession
        /\ Tunnelling /\ ~IsOpen(ws) /\ UNCHANGED <<wsCall, dws, client, opened>>
    BY <1>1, Zenon DEF TunnelConnecting
  <2>2. v \in WsRecords /\ v.phase = "handshake"
    BY <1>0, RecordOps, Zenon
  <2> HIDE DEF v
  <2> QED BY <1>0, <2>1, <2>2, FreshSessionKeeps, Zenon
<1>2. CASE TunnelReopens
  <2> DEFINE v == MarkOpen(NoteHandshakeStarted(ws))
  <2>1. /\ tunnel' = [tunnel EXCEPT !.from = 0] /\ ws' = v /\ session' = NoSession
        /\ opened' = opened + 1 /\ Tunnelling /\ ~IsOpen(ws) /\ UNCHANGED <<wsCall, dws, client>>
    BY <1>2, Zenon DEF TunnelReopens, StoreConnected
  <2>2. v \in WsRecords /\ v.phase = "open"
    BY <1>0, RecordOps, Zenon
  <2>3. opened' \in Nat
    BY <1>0, <2>1
  <2> HIDE DEF v
  <2> QED BY <2>1, <2>2, <2>3, FreshSessionKeeps, Zenon
<1>3. CASE TunnelReopenFails
  <2>1. Tunnelling /\ dws.phase # "closed"
    BY <1>3, Zenon DEF TunnelReopenFails, WsInv, Tunnelling
  <2>2. CASE \E w \in OpenFailures : TunnelEnds(w, NoSession, client, dws)
    <3>1. PICK w \in OpenFailures : TunnelEnds(w, NoSession, client, dws)
      BY <2>2, Zenon
    <3>2. w \in WsRecords /\ SessionOK(w, NoSession) /\ NoSession \in SessionRecords
      BY <1>0, FailedOpening, Zenon
    <3> QED BY <1>0, <2>1, <3>1, <3>2, TunnelEndsKeeps, Zenon
  <2>3. CASE TunnelEnds(ws, session, client, dws)
    BY <1>0, <2>1, <2>3, TunnelEndsKeeps, Zenon
  <2> QED BY <1>3, <2>2, <2>3, Zenon DEF TunnelReopenFails
<1> QED BY <1>1, <1>2, <1>3, Zenon

\* The client without its first frame.
LEMMA ClientTail ==
    ASSUME NEW k \in ClientRecords, k.inbox # <<>>, Left(k.sent, k.inbox)
    PROVE  LET c == [k EXCEPT !.inbox = Tail(@)]
           IN /\ c \in ClientRecords /\ c.sent = k.sent /\ c.out = k.out
              /\ c.inbox = Tail(k.inbox) /\ Left(c.sent, c.inbox) /\ Head(k.inbox) \in Frames
<1>0. k.inbox \in Seq(Frames) /\ k.sent \in Seq(Frames)
  BY Zenon DEF ClientRecords
<1>1. Tail(k.inbox) \in Seq(Frames) /\ Head(k.inbox) \in Frames
  BY <1>0
<1>2. PICK p \in Seq(Frames) : k.sent = p \o k.inbox
  BY Zenon DEF Left
<1>3. Append(p, Head(k.inbox)) \in Seq(Frames)
      /\ k.sent = Append(p, Head(k.inbox)) \o Tail(k.inbox)
  <2>1. \A q \in Seq(Frames) : q # <<>> => p \o q = Append(p, Head(q)) \o Tail(q)
    OBVIOUS
  <2>2. p \o k.inbox = Append(p, Head(k.inbox)) \o Tail(k.inbox)
    BY <1>0, <2>1, Zenon
  <2>3. \A x \in Frames : Append(p, x) \in Seq(Frames)
    OBVIOUS
  <2> QED BY <1>1, <1>2, <2>2, <2>3, Zenon
<1>4. Left(k.sent, Tail(k.inbox))
  BY <1>3, Zenon DEF Left
<1> QED BY <1>1, <1>4, Zenon DEF ClientRecords

LEMMA InwardTaken ==
    ASSUME NEW all \in Seq(Frames), NEW inbox \in Seq(Frames), inbox # <<>>, NEW got,
           Passed(got, all, inbox)
    PROVE  IF Head(inbox).kind = "binary"
           THEN Passed(Append(got, Head(inbox).n), all, Tail(inbox))
           ELSE Passed(got, all, Tail(inbox))
<1> DEFINE f == Head(inbox)
<1>0. f \in Frames
  OBVIOUS
<1>1. \A x \in Seq(Frames) :
        Binaries(all) = x \o Binaries(inbox)
          => Binaries(all) = IF f.kind = "binary" THEN Append(x, f) \o Binaries(Tail(inbox))
                              ELSE x \o Binaries(Tail(inbox))
  BY Taken, Zenon
<1> HIDE DEF f
<1>2. PICK b \in Seq(Frames) : Binaries(all) = b \o Binaries(inbox) /\ got = FrameNumbers(b)
  BY Zenon DEF Passed
<1>3. Binaries(all) = IF f.kind = "binary" THEN Append(b, f) \o Binaries(Tail(inbox))
                       ELSE b \o Binaries(Tail(inbox))
  BY <1>1, <1>2, Zenon
<1>4. CASE f.kind = "binary"
  <2>1. Append(b, f) \in Seq(Frames) /\ FrameNumbers(Append(b, f)) = Append(got, f.n)
    BY <1>0, <1>2, NumbersAppend, CatAppend, Zenon
  <2>2. Passed(Append(got, f.n), all, Tail(inbox))
    BY <1>3, <1>4, <2>1, Zenon DEF Passed
  <2> QED BY <1>4, <2>2, Zenon DEF f
<1>5. CASE f.kind # "binary"
  <2>1. Passed(got, all, Tail(inbox))
    BY <1>2, <1>3, <1>5, Zenon DEF Passed
  <2> QED BY <1>5, <2>1, Zenon DEF f
<1> QED BY <1>4, <1>5, Zenon

LEMMA OutwardTaken ==
    ASSUME NEW s, NEW t, NEW c, NEW d, NEW from,
           s.sent \in Seq(Frames), s.inbox \in Seq(Frames), s.inbox # <<>>,
           t.sent = s.sent, t.inbox = Tail(s.inbox), c.out \in Seq(Frames),
           d.out = IF Head(s.inbox).kind = "binary" THEN Append(c.out, Head(s.inbox)) ELSE c.out,
           Outward(s, c, from)
    PROVE  Outward(t, d, from)
<1> DEFINE all == s.sent
           inbox == s.inbox
           out == c.out
           f == Head(inbox)
<1>0. f \in Frames /\ all \in Seq(Frames) /\ inbox \in Seq(Frames) /\ inbox # <<>>
      /\ out \in Seq(Frames)
  OBVIOUS
<1>1. \A x \in Seq(Frames) :
        Binaries(all) = x \o Binaries(inbox)
          => Binaries(all) = IF f.kind = "binary" THEN Append(x, f) \o Binaries(Tail(inbox))
                              ELSE x \o Binaries(Tail(inbox))
  BY Taken, Zenon
<1>2. PICK a \in Seq(Frames) :
        Len(a) = from /\ Binaries(all) = (a \o out) \o Binaries(inbox)
  BY Zenon DEF Outward
<1>a. t.sent = all /\ t.inbox = Tail(inbox)
      /\ d.out = IF f.kind = "binary" THEN Append(out, f) ELSE out
  BY Zenon
<1> HIDE DEF all, inbox, out, f
<1> DEFINE k == a \o out
<1>3. k \in Seq(Frames) /\ Binaries(all) = k \o Binaries(inbox)
  BY <1>0, <1>2
<1>4. Append(k, f) = a \o Append(out, f)
  BY <1>0, CatAppend, Zenon
<1> HIDE DEF k
<1>5. Binaries(all) = IF f.kind = "binary" THEN Append(k, f) \o Binaries(Tail(inbox))
                       ELSE k \o Binaries(Tail(inbox))
  BY <1>1, <1>3, Zenon
<1>6. CASE f.kind = "binary"
  BY <1>2, <1>4, <1>5, <1>6, <1>a, Zenon DEF Outward
<1>7. CASE f.kind # "binary"
  BY <1>2, <1>5, <1>7, <1>a, Zenon DEF Outward, k
<1> QED BY <1>6, <1>7, Zenon

LEMMA ClosedNormally == \A w \in WsRecords : MarkClosed(w, SomeCode(1000)) \in WsRecords
<1> DEFINE k == SomeCode(1000)
<1>1. k \in CodeSets
  BY CodeTypes
<1> HIDE DEF k
<1>2. \A w \in WsRecords : MarkClosed(w, k) \in WsRecords
  BY <1>1, ClosedRecord, Zenon
<1> QED BY <1>2, Zenon DEF k

\* What the tunnel reads from the client.
LEMMA ClientFrameKeeps ==
    ASSUME WsInv, ClientFrame
    PROVE  WsInv'
<1> DEFINE f == Head(client.inbox)
           c == [client EXCEPT !.inbox = Tail(@)]
           s == [session EXCEPT !.got = Append(@, f.n)]
<1>0. /\ WsTypes /\ SessionOK(ws, session) /\ Left(client.sent, client.inbox)
      /\ ws \in WsRecords /\ dws \in WsRecords /\ session \in SessionRecords
      /\ client \in ClientRecords
  BY Zenon DEF WsInv, WsTypes
<1>1. /\ Tunnelling /\ client.inbox # <<>>
      /\ \/ f.kind = "binary" /\ IsOpen(ws) /\ TunnelGoesOn(ws, s, c)
         \/ TunnelEnds(ws, session, c, dws)
         \/ f.kind = "ping" /\ TunnelGoesOn(ws, session, c)
         \/ TunnelEnds(ws, session, c, MarkFailed(dws))
  BY Zenon DEF ClientFrame
<1>2. /\ dws.phase # "closed" /\ Outward(session, client, tunnel.from)
      /\ Inward(session, client)
      /\ IsOpen(ws) \/ (client.out = <<>> /\ session.got = <<>>)
  BY <1>1, Zenon DEF WsInv, Tunnelling
<1>3. /\ c \in ClientRecords /\ c.sent = client.sent /\ c.out = client.out
      /\ c.inbox = Tail(client.inbox) /\ Left(c.sent, c.inbox) /\ f \in Frames
  BY <1>0, <1>1, ClientTail, Zenon
<1>4. IF f.kind = "binary"
      THEN Passed(Append(session.got, f.n), client.sent, Tail(client.inbox))
      ELSE Passed(session.got, client.sent, Tail(client.inbox))
  BY <1>0, <1>1, <1>2, WsFields, InwardTaken, Zenon DEF Inward
<1>5. ASSUME f.kind = "binary"
      PROVE  /\ s \in SessionRecords /\ s.got = Append(session.got, f.n)
             /\ s.sent = session.sent /\ s.inbox = session.inbox
             /\ s.eof = session.eof /\ s.code = session.code
  <2>1. f.n \in Nat
    BY <1>3, <1>5, FrameIs, Zenon
  <2> HIDE DEF f
  <2>2. Append(session.got, f.n) \in Seq(Nat)
    BY <1>0, <2>1 DEF SessionRecords
  <2> QED BY <1>0, <2>2, Zenon DEF SessionRecords
<1> HIDE DEF f, c, s
<1>6. Outward(session, c, tunnel.from)
  BY <1>2, <1>3, Zenon DEF Outward
<1>7. CASE f.kind = "binary" /\ IsOpen(ws) /\ TunnelGoesOn(ws, s, c)
  <2>1. SessionOK(ws, s)
    BY <1>0, <1>5, <1>7, Zenon DEF SessionOK
  <2>2. Inward(s, c)
    BY <1>3, <1>4, <1>5, <1>7, Zenon DEF Inward
  <2>3. Outward(s, c, tunnel.from)
    BY <1>5, <1>6, <1>7, Zenon DEF Outward
  <2> QED BY <1>0, <1>1, <1>3, <1>5, <1>7, <2>1, <2>2, <2>3, TunnelGoesOnKeeps, Zenon
<1>8. CASE TunnelEnds(ws, session, c, dws)
  BY <1>0, <1>1, <1>2, <1>3, <1>8, TunnelEndsKeeps, Zenon
<1>9. CASE f.kind = "ping" /\ TunnelGoesOn(ws, session, c)
  <2>1. Inward(session, c)
    BY <1>3, <1>4, <1>9, Zenon DEF Inward
  <2>2. IsOpen(ws) \/ (c.out = <<>> /\ session.got = <<>>)
    BY <1>2, <1>3, Zenon
  <2> QED BY <1>0, <1>1, <1>3, <1>6, <1>9, <2>1, <2>2, TunnelGoesOnKeeps, Zenon
<1>10. CASE TunnelEnds(ws, session, c, MarkFailed(dws))
  <2> DEFINE d == MarkFailed(dws)
  <2>1. d \in WsRecords /\ d.phase = "failed"
    BY <1>0, RecordOps, Zenon
  <2>2. TunnelEnds(ws, session, c, d)
    BY <1>10, Zenon
  <2> HIDE DEF d
  <2> QED BY <1>0, <1>1, <1>3, <2>1, <2>2, TunnelEndsKeeps, Zenon
<1> QED BY <1>1, <1>7, <1>8, <1>9, <1>10, Zenon

\* Closing the session leaves it ended.
LEMMA CloseSessionEnds ==
    ASSUME ws \in WsRecords, session \in SessionRecords, SessionOK(ws, session)
    PROVE  /\ CloseSession.w \in WsRecords /\ CloseSession.s \in SessionRecords
           /\ SessionOK(CloseSession.w, CloseSession.s)
           /\ CloseSession.s.eof \/ ~CloseSession.w.io
<1>1. CASE SessionOver
  <2>1. CloseSession.w = ws /\ CloseSession.s = session
    BY <1>1, Zenon DEF CloseSession
  <2>2. session.eof \/ ~ws.io
    BY <1>1, Zenon DEF SessionOver, SessionOK
  <2> QED BY <2>1, <2>2, Zenon
<1>2. CASE ~SessionOver
  <2> DEFINE k == SomeCode(1000)
             v == NoteClosing(ws)
             w == MarkClosed(v, k)
             s == [session EXCEPT !.eof = TRUE, !.code = k]
  <2>1. CloseSession.w = w /\ CloseSession.s = s
    BY <1>2, Zenon DEF CloseSession
  <2>2. k \in CodeSets
    BY CodeTypes
  <2> HIDE DEF k
  <2>3. v \in WsRecords
    BY RecordOps, Zenon
  <2> HIDE DEF v
  <2>4. w \in WsRecords /\ w.phase = "closed" /\ w.code = k
    BY <2>2, <2>3, ClosedRecord, Zenon
  <2>5. s \in SessionRecords /\ s.eof = TRUE /\ s.code = k
        /\ s.sent = session.sent /\ s.inbox = session.inbox
    BY <2>2, SessionEnd, Zenon
  <2> HIDE DEF w, s
  <2>6. SessionOK(w, s)
    BY <2>4, <2>5, Zenon DEF SessionOK, IsOpen
  <2> QED BY <2>1, <2>4, <2>5, <2>6, Zenon
<1> QED BY <1>1, <1>2, Zenon

LEMMA ClientEndsKeeps ==
    ASSUME WsInv, ClientEnds
    PROVE  WsInv'
<1> DEFINE c == [client EXCEPT !.inbox = Tail(@)]
           w == CloseSession.w
           s == CloseSession.s
           v == NoteClosing(ws)
           d == MarkClosed(dws, SomeCode(Head(client.inbox).n))
           e == MarkClosed(dws, SomeCode(1000))
           g == MarkFailed(dws)
<1>0. /\ WsTypes /\ SessionOK(ws, session) /\ Left(client.sent, client.inbox)
      /\ ws \in WsRecords /\ dws \in WsRecords /\ session \in SessionRecords
      /\ client \in ClientRecords
  BY Zenon DEF WsInv, WsTypes
<1>1. /\ Tunnelling
      /\ \/ /\ client.inbox # <<>> /\ Head(client.inbox).kind = "close"
            /\ TunnelEnds(w, s, c, d)
         \/ TunnelEnds(w, s, client, e)
         \/ TunnelEnds(ws, session, client, g)
         \/ IsOpen(ws) /\ TunnelEnds(v, session, client, dws)
  BY DEF ClientEnds
<1>2. dws.phase # "closed"
  BY <1>1, Zenon DEF WsInv, Tunnelling
<1>3. w \in WsRecords /\ s \in SessionRecords /\ SessionOK(w, s) /\ (s.eof \/ ~w.io)
  BY <1>0, <1>1, CloseSessionEnds, Zenon
<1>4. /\ e \in WsRecords /\ g \in WsRecords /\ g.phase = "failed"
      /\ v \in WsRecords /\ (IsOpen(ws) => v.phase = "closing")
  <2>1. e \in WsRecords
    BY <1>0, ClosedNormally
  <2>2. g \in WsRecords /\ g.phase = "failed"
    BY <1>0, RecordOps, Zenon
  <2>3. v \in WsRecords /\ v.phase = IF ws.phase = "open" THEN "closing" ELSE ws.phase
    BY <1>0, RecordOps, Zenon
  <2> QED BY <2>1, <2>2, <2>3, Zenon DEF IsOpen
<1>5. ASSUME client.inbox # <<>>, Head(client.inbox).kind = "close"
      PROVE  c \in ClientRecords /\ Left(c.sent, c.inbox) /\ d \in WsRecords
  <2>1. c \in ClientRecords /\ Left(c.sent, c.inbox) /\ Head(client.inbox) \in Frames
    BY <1>0, <1>5, ClientTail, Zenon
  <2>2. SomeCode(Head(client.inbox).n) \in CodeSets
    BY <1>5, <2>1, FrameIs, CodeTypes
  <2>3. d \in WsRecords
    BY <1>0, <2>2, ClosedRecord, Zenon
  <2> QED BY <2>1, <2>3, Zenon
<1> HIDE DEF c, w, s, v, d, e, g
<1>6. CASE /\ client.inbox # <<>> /\ Head(client.inbox).kind = "close"
           /\ TunnelEnds(w, s, c, d)
  BY <1>1, <1>3, <1>5, <1>6, TunnelEndsKeeps, Zenon
<1>7. CASE TunnelEnds(w, s, client, e)
  BY <1>0, <1>1, <1>3, <1>4, <1>7, TunnelEndsKeeps, Zenon
<1>8. CASE TunnelEnds(ws, session, client, g)
  BY <1>0, <1>1, <1>4, <1>8, TunnelEndsKeeps, Zenon
<1>9. CASE IsOpen(ws) /\ TunnelEnds(v, session, client, dws)
  <2>1. SessionOK(v, session)
    BY <1>0, <1>4, <1>9, Zenon DEF SessionOK, IsOpen
  <2> QED BY <1>0, <1>1, <1>2, <1>4, <1>9, <2>1, TunnelEndsKeeps, Zenon
<1> QED BY <1>1, <1>6, <1>7, <1>8, <1>9, Zenon

\* What the tunnel reads from the session.
LEMMA SessionFrameKeeps ==
    ASSUME WsInv, SessionFrame
    PROVE  WsInv'
<1> DEFINE f == Head(session.inbox)
           s == [session EXCEPT !.inbox = Tail(@)]
           t == [s EXCEPT !.eof = TRUE, !.code = SomeCode(f.n)]
           u == [session EXCEPT !.eof = TRUE]
           c == [client EXCEPT !.out = Append(@, f)]
           d == MarkClosed(dws, SomeCode(1000))
           g == MarkFailed(dws)
<1>0. /\ WsTypes /\ SessionOK(ws, session) /\ Left(client.sent, client.inbox)
      /\ ws \in WsRecords /\ dws \in WsRecords /\ session \in SessionRecords
      /\ client \in ClientRecords
  BY Zenon DEF WsInv, WsTypes
<1>1. /\ Tunnelling /\ IsOpen(ws)
      /\ \/ /\ session.inbox # <<>>
            /\ \/ f.kind = "binary" /\ TunnelGoesOn(Refresh(ws, s), s, c)
               \/ TunnelEnds(ws, s, client, g)
               \/ f.kind = "ping" /\ TunnelGoesOn(ws, s, client)
               \/ TunnelEnds(ws, s, client, dws)
               \/ f.kind = "close" /\ TunnelEnds(Refresh(ws, t), t, client, d)
         \/ /\ session.inbox = <<>>
            /\ TunnelEnds(Refresh(ws, u), u, client, d) \/ TunnelEnds(ws, u, client, dws)
  BY DEF SessionFrame
<1>2. /\ dws.phase # "closed" /\ ws.phase = "open" /\ ws.io
      /\ Outward(session, client, tunnel.from) /\ Inward(session, client)
      /\ Left(session.sent, session.inbox) /\ (session.eof => session.inbox = <<>>)
  BY <1>0, <1>1, Zenon DEF WsInv, Tunnelling, SessionOK, IsOpen
<1>3. d \in WsRecords
  BY <1>0, ClosedNormally
<1>4. g \in WsRecords /\ g.phase = "failed"
  BY <1>0, RecordOps, Zenon
<1> HIDE DEF d, g
<1>5. CASE session.inbox # <<>>
  <2>1. /\ s \in SessionRecords /\ s.eof = session.eof /\ s.code = session.code
        /\ s.got = session.got /\ s.sent = session.sent /\ s.inbox = Tail(session.inbox)
        /\ Left(s.sent, s.inbox) /\ f \in Frames
    BY <1>0, <1>2, <1>5, SessionTail, Zenon
  <2>2. ~session.eof
    BY <1>2, <1>5, Zenon
  <2> HIDE DEF s
  <2>3. SessionOK(ws, s)
    BY <1>2, <2>1, <2>2, Zenon DEF SessionOK
  <2>4. CASE f.kind = "binary" /\ TunnelGoesOn(Refresh(ws, s), s, c)
    <3>1. Refresh(ws, s) = ws
      BY <2>1, <2>2, Zenon DEF Refresh
    <3> HIDE DEF f
    <3>2. Append(client.out, f) \in Seq(Frames)
      BY <1>0, <2>1, WsFields
    <3>3. /\ c \in ClientRecords /\ c.sent = client.sent /\ c.inbox = client.inbox
          /\ c.out = Append(client.out, f)
      BY <1>0, <3>2, Zenon DEF ClientRecords
    <3> HIDE DEF c
    <3>4. Outward(s, c, tunnel.from)
      <4>1. c.out = IF Head(session.inbox).kind = "binary"
                    THEN Append(client.out, Head(session.inbox)) ELSE client.out
        BY <2>4, <3>3, Zenon DEF f
      <4>2. /\ session.sent \in Seq(Frames) /\ session.inbox \in Seq(Frames)
            /\ client.out \in Seq(Frames)
        BY <1>0, WsFields, Zenon
      <4> QED BY <1>2, <1>5, <2>1, <4>1, <4>2, OutwardTaken, Zenon
    <3>5. Inward(s, c)
      BY <1>2, <2>1, <3>3, Zenon DEF Inward
    <3> QED BY <1>0, <1>1, <2>1, <2>3, <2>4, <3>1, <3>3, <3>4, <3>5, TunnelGoesOnKeeps, Zenon
  <2>5. CASE TunnelEnds(ws, s, client, g)
    BY <1>0, <1>1, <1>4, <2>1, <2>3, <2>5, TunnelEndsKeeps, Zenon
  <2>6. CASE f.kind = "ping" /\ TunnelGoesOn(ws, s, client)
    <3>1. Outward(s, client, tunnel.from)
      <4>1. client.out = IF Head(session.inbox).kind = "binary"
                         THEN Append(client.out, Head(session.inbox)) ELSE client.out
        BY <2>6, Zenon
      <4>2. /\ session.sent \in Seq(Frames) /\ session.inbox \in Seq(Frames)
            /\ client.out \in Seq(Frames)
        BY <1>0, WsFields, Zenon
      <4> QED BY <1>2, <1>5, <2>1, <4>1, <4>2, OutwardTaken, Zenon
    <3>2. Inward(s, client)
      BY <1>2, <2>1, Zenon DEF Inward
    <3> QED BY <1>0, <1>1, <2>1, <2>3, <2>6, <3>1, <3>2, TunnelGoesOnKeeps, Zenon
  <2>7. CASE TunnelEnds(ws, s, client, dws)
    BY <1>0, <1>1, <1>2, <2>1, <2>3, <2>7, TunnelEndsKeeps, Zenon
  <2>8. CASE f.kind = "close" /\ TunnelEnds(Refresh(ws, t), t, client, d)
    <3>1. SomeCode(f.n) \in CodeSets
      BY <2>1, <2>8, FrameIs, CodeTypes
    <3>2. /\ t \in SessionRecords /\ t.eof = TRUE /\ t.code = SomeCode(f.n)
          /\ t.sent = s.sent /\ t.inbox = s.inbox
      BY <2>1, <3>1, SessionEnd, Zenon
    <3> HIDE DEF t
    <3> DEFINE w == MarkClosed(ws, t.code)
    <3>3. w \in WsRecords /\ w.phase = "closed" /\ w.code = t.code
      BY <1>0, <3>1, <3>2, ClosedRecord, Zenon
    <3>4. Refresh(ws, t) = w
      BY <1>2, <3>2, Zenon DEF Refresh
    <3> HIDE DEF w
    <3>5. SessionOK(w, t)
      BY <2>1, <3>2, <3>3, Zenon DEF SessionOK, IsOpen
    <3> QED BY <1>0, <1>1, <1>3, <2>8, <3>2, <3>3, <3>4, <3>5, TunnelEndsKeeps, Zenon
  <2> QED BY <1>1, <1>5, <2>4, <2>5, <2>6, <2>7, <2>8, Zenon
<1>6. CASE session.inbox = <<>>
  <2>1. u \in SessionRecords /\ u.eof = TRUE /\ u.code = session.code
        /\ u.sent = session.sent /\ u.inbox = session.inbox
    BY <1>0, Zenon DEF SessionRecords
  <2> HIDE DEF u
  <2> DEFINE w == MarkClosed(ws, u.code)
  <2>2. u.code \in CodeSets
    BY <2>1, Zenon DEF SessionRecords
  <2>3. w \in WsRecords /\ w.phase = "closed" /\ w.code = u.code
    BY <1>0, <2>2, ClosedRecord, Zenon
  <2>4. Refresh(ws, u) = w
    BY <1>2, <2>1, Zenon DEF Refresh
  <2> HIDE DEF w
  <2>5. SessionOK(w, u) /\ SessionOK(ws, u)
    BY <1>2, <1>6, <2>1, <2>3, Zenon DEF SessionOK, IsOpen
  <2>6. CASE TunnelEnds(w, u, client, d)
    BY <1>0, <1>1, <1>3, <2>1, <2>3, <2>5, <2>6, TunnelEndsKeeps, Zenon
  <2>7. CASE TunnelEnds(ws, u, client, dws)
    BY <1>0, <1>1, <2>1, <2>5, <2>7, TunnelEndsKeeps, Zenon
  <2> QED BY <1>1, <1>6, <2>4, <2>6, <2>7, Zenon
<1> QED BY <1>5, <1>6, Zenon

-----------------------------------------------------------------------------
LEMMA WsStarts == ASSUME WsInit PROVE WsInv
<1>1. NoCode \in CodeSets /\ <<>> \in Seq(Frames)
  BY CodeTypes
<1>2. NoSession \in SessionRecords /\ NoSession.got = <<>>
      /\ Left(NoSession.sent, NoSession.inbox)
  BY NewSession, Zenon
<1>3. Record("inactive") \in WsRecords /\ Record("observed") \in WsRecords
      /\ Record("inactive").phase = "inactive" /\ Record("observed").phase = "observed"
  BY <1>1, Zenon DEF Record, WsRecords
<1>4. /\ client \in ClientRecords /\ client.sent = <<>> /\ client.out = <<>>
      /\ client.inbox = <<>>
  BY <1>1, Zenon DEF WsInit, ClientRecords
<1>5. tunnel \in TunnelRecords /\ tunnel.stage = "none"
  BY Zenon DEF WsInit, TunnelRecords
<1>6. /\ wsCall \in [name : Calls \cup {"none"}, stage : {"ensure", "io"}]
      /\ wsCall.stage = "ensure"
  BY Zenon DEF WsInit, NoCall
<1>7. WsTypes
  BY <1>2, <1>3, <1>4, <1>5, <1>6, Zenon DEF WsInit, WsTypes
<1>8. SessionOK(ws, session)
  BY <1>2, <1>3, Zenon DEF WsInit, SessionOK, IsOpen
<1>9. Left(client.sent, client.inbox)
  <2>1. <<>> = <<>> \o <<>>
    OBVIOUS
  <2> QED BY <1>1, <1>4, <2>1, Zenon DEF Left
<1>10. dws.phase = "observed" /\ session.got = <<>>
  BY <1>2, <1>3, Zenon DEF WsInit
<1> QED BY <1>4, <1>5, <1>6, <1>7, <1>8, <1>9, <1>10, Zenon DEF WsInv, Tunnelling

LEMMA WsStep == ASSUME WsInv, [WsNext]_wsVars PROVE WsInv'
<1>1. CASE UNCHANGED wsVars
  <2>1. UNCHANGED <<ws, session, wsCall, dws, client, tunnel, opened>>
    BY <1>1, Zenon DEF wsVars
  <2>2. WsTypes'
    BY <2>1, Zenon DEF WsInv, WsTypes
  <2> QED BY <2>1, <2>2, Zenon
             DEF WsInv, SessionOK, IsOpen, Left, NoCall, Tunnelling, Outward, Inward
<1>2. CASE WsSetTarget \/ WsSetScheme \/ WsConfigure \/ CustomTls \/ StartHttp
  BY <1>2, ConfiguringKeeps, Zenon
<1>3. CASE (\E name \in Calls : Begin(name)) \/ AlreadyOpen \/ OpenFails \/ Connects
  BY <1>3, OpeningKeeps, Zenon
<1>4. CASE ConnectDone \/ WsSend \/ ReadPing \/ ReadFrame \/ ReadEnd \/ WsClose
  BY <1>4, CallingKeeps, Zenon
<1>5. CASE PeerSends \/ PeerGone \/ ClientSends \/ ClientGone
  BY <1>5, PeersKeep, Zenon
<1>6. CASE WsForward \/ TunnelRuns \/ UpgradeFails
  BY <1>6, SchedulingKeeps, Zenon
<1>7. CASE TunnelConnecting \/ TunnelReopens \/ TunnelReopenFails
  BY <1>7, ReopeningKeeps, Zenon
<1>8. CASE ClientFrame
  BY <1>8, ClientFrameKeeps, Zenon
<1>9. CASE ClientEnds
  BY <1>9, ClientEndsKeeps, Zenon
<1>10. CASE SessionFrame
  BY <1>10, SessionFrameKeeps, Zenon
<1> QED BY <1>1, <1>2, <1>3, <1>4, <1>5, <1>6, <1>7, <1>8, <1>9, <1>10, Zenon DEF WsNext

LEMMA WsAlways == WsSpec => []WsInv
<1>1. WsInit => WsInv
  BY WsStarts, Zenon
<1>2. WsInv /\ [WsNext]_wsVars => WsInv'
  BY WsStep, Zenon
<1> QED BY <1>1, <1>2, PTL DEF WsSpec

\* The form in which the property states what has been passed on.
LEMMA CatIsTail ==
    ASSUME NEW a \in Seq(Frames), NEW b \in Seq(Frames)
    PROVE  b = SubSeq(a \o b, Len(a) + 1, Len(a \o b))
  OBVIOUS

LEMMA PassedAre ==
    ASSUME NEW b \in Seq(Frames), NEW c \in Seq(Frames)
    PROVE  LET frames == b \o c
               n == Len(frames) - Len(c)
           IN FrameNumbers(b) = [i \in 1 .. n |-> frames[i].n]
<1> DEFINE frames == b \o c
           n == Len(frames) - Len(c)
<1>1. n = Len(b) /\ \A i \in 1 .. Len(b) : frames[i] = b[i]
  OBVIOUS
<1> HIDE DEF frames, n
<1>2. FrameNumbers(b) = [i \in 1 .. n |-> frames[i].n]
  BY <1>1, Zenon DEF FrameNumbers
<1> QED BY <1>2, Zenon DEF frames, n

LEMMA WsInvFaithful == ASSUME WsInv PROVE TunnelFaithful
<1> SUFFICES ASSUME Tunnelling
             PROVE  /\ client.out \o Binaries(session.inbox)
                         = SubSeq(Binaries(session.sent), tunnel.from + 1,
                                  Len(Binaries(session.sent)))
                    /\ LET frames == Binaries(client.sent)
                           n == Len(frames) - Len(Binaries(client.inbox))
                       IN session.got = [i \in 1 .. n |-> frames[i].n]
  BY Zenon DEF TunnelFaithful
<1>0. /\ client.out \in Seq(Frames) /\ session.inbox \in Seq(Frames)
      /\ client.inbox \in Seq(Frames)
  BY WsFields, Zenon DEF WsInv
<1>1. Binaries(session.inbox) \in Seq(Frames) /\ Binaries(client.inbox) \in Seq(Frames)
  BY <1>0, BinariesType, Zenon
<1>2. client.out \o Binaries(session.inbox)
        = SubSeq(Binaries(session.sent), tunnel.from + 1, Len(Binaries(session.sent)))
  <2> DEFINE p == client.out
             q == Binaries(session.inbox)
  <2>1. PICK a \in Seq(Frames) :
          Len(a) = tunnel.from /\ Binaries(session.sent) = (a \o p) \o q
    BY Zenon DEF WsInv, Outward
  <2>2. p \in Seq(Frames) /\ q \in Seq(Frames)
    BY <1>0, <1>1, Zenon
  <2> HIDE DEF p, q
  <2>3. p \o q \in Seq(Frames) /\ (a \o p) \o q = a \o (p \o q)
    BY <2>2
  <2>4. p \o q = SubSeq(a \o (p \o q), Len(a) + 1, Len(a \o (p \o q)))
    <3> DEFINE r == p \o q
    <3>1. r \in Seq(Frames)
      BY <2>3, Zenon
    <3> HIDE DEF r
    <3>2. r = SubSeq(a \o r, Len(a) + 1, Len(a \o r))
      BY <3>1, CatIsTail, Zenon
    <3> QED BY <3>2, Zenon DEF r
  <2> QED BY <2>1, <2>3, <2>4, Zenon DEF p, q
<1>3. LET frames == Binaries(client.sent)
          n == Len(frames) - Len(Binaries(client.inbox))
      IN session.got = [i \in 1 .. n |-> frames[i].n]
  <2> DEFINE c == Binaries(client.inbox)
  <2>1. PICK b \in Seq(Frames) :
          Binaries(client.sent) = b \o c /\ session.got = FrameNumbers(b)
    BY Zenon DEF WsInv, Inward, Passed
  <2>2. c \in Seq(Frames)
    BY <1>1, Zenon
  <2> HIDE DEF c
  <2>3. LET frames == b \o c
            n == Len(frames) - Len(c)
        IN FrameNumbers(b) = [i \in 1 .. n |-> frames[i].n]
    BY <2>2, PassedAre, ZenonT(30)
  <2> QED BY <2>1, <2>3, Zenon DEF c
<1> QED BY <1>2, <1>3, Zenon

\* While the tunnel runs, the session has been sent exactly the binary frames taken
\* from the client since the tunnel began, and the client exactly those of the session
\* after the ones the program had read, all in order: the read that select! drops when
\* the other side is ready loses nothing, for any number of frames and sessions.
THEOREM TunnelLosesNothing == WsSpec => []TunnelFaithful
  BY WsAlways, WsInvFaithful, PTL

\* A tunnel that leaves the downstream connection closed has ended the session
\* behind the other one, and a closed record shows that session's close code.
THEOREM TunnelClosesBoth == WsSpec => []TunnelEndsBoth
<1>1. WsInv => TunnelEndsBoth
  BY Zenon DEF WsInv, SessionOK, TunnelEndsBoth
<1> QED BY <1>1, WsAlways, PTL
=============================================================================
