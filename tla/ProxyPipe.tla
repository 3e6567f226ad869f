------------------------------ MODULE ProxyPipe ------------------------------
(***************************************************************************)
(* proxy::pipe and proxy::forward over the proxy byte streams of one       *)
(* program (proxy.rs).  A stream is the downstream HTTP body, an outbound  *)
(* HTTP exchange, or a dynamic TCP or TLS stream, whose transport sits     *)
(* behind a mutex that a read holds while it waits for the peer.  pipe     *)
(* runs one direction and forward two in one task (try_join!): each stops  *)
(* only at its awaits, and the first error drops the other.  A WebSocket    *)
(* connection as a byte stream is left out here: the tunnel to the         *)
(* downstream one is in WebSocket.                                         *)
(***************************************************************************)
EXTENDS Sequences, Naturals, FiniteSets

CONSTANTS
    Streams,     \* proxy byte-stream handles of the program
    Kind,        \* [Streams -> {"http", "exchange", "default", "socket"}]
    MaxBytes,    \* bound: bytes a peer sends
    Chunks,      \* max_bytes arguments
    MaxCalls     \* bound: proxy calls of the program

Directions == {"right", "left"}
NoCall == [kind |-> "none", from |-> CHOOSE s \in Streams : TRUE,
           to |-> CHOOSE s \in Streams : TRUE, max |-> 0]

VARIABLES
    end,     \* per stream: the transport and its peer
    reg,     \* per stream: ProxyByteStreamState
    call,    \* the pipe or forward under way
    pc,      \* per direction: where its loop stands
    chunk,   \* per direction: bytes read and not yet written
    base,    \* per direction: bytes already read, written when the call began
    calls    \* calls made

pipeVars == <<end, reg, call, pc, chunk, base, calls>>

Source(d) == IF d = "right" THEN call.from ELSE call.to
Destination(d) == IF d = "right" THEN call.to ELSE call.from
IsExchange(s) == Kind[s] \in {"exchange", "default"}
Idle == [d \in Directions |-> "off"]
AtStart(x) == [d \in Directions |-> x]

\* sent: what the peer has sent; read: how much of it was read; out: what was
\* written; body: for an exchange, what its request was sent with.
PipeInit ==
    /\ end = [s \in Streams |->
                [sent |-> <<>>, fin |-> FALSE, read |-> 0, out |-> <<>>,
                 shut |-> FALSE, io |-> TRUE, holder |-> "nobody",
                 started |-> FALSE, ready |-> FALSE, body |-> <<>>]]
    /\ reg = [s \in Streams |->
                [observed |-> FALSE, closed |-> FALSE, notify |-> FALSE]]
    /\ call = NoCall
    /\ pc = Idle
    /\ chunk = AtStart(<<>>)
    /\ base = AtStart([read |-> 0, out |-> 0])
    /\ calls = 0

-----------------------------------------------------------------------------
(* The peers *)

\* Bytes of a stream no call uses wait in its socket; they may as well be sent
\* when a call uses it.
InUse(s) == call.kind # "none" /\ s \in {call.from, call.to}

PeerSend(s) ==
    /\ InUse(s)
    /\ ~end[s].fin /\ Len(end[s].sent) < MaxBytes
    /\ IsExchange(s) => end[s].started
    /\ end' = [end EXCEPT ![s].sent = Append(@, Len(@) + 1)]
    /\ UNCHANGED <<reg, call, pc, chunk, base, calls>>

PeerFin(s) ==
    /\ InUse(s)
    /\ ~end[s].fin
    /\ IsExchange(s) => end[s].started
    /\ end' = [end EXCEPT ![s].fin = TRUE]
    /\ UNCHANGED <<reg, call, pc, chunk, base, calls>>

-----------------------------------------------------------------------------
(* The host calls *)

\* proxy_stream_read_step's condition on an exchange whose request body is
\* still being written.
WaitingForWriteClose(s) ==
    IsExchange(s) /\ ~end[s].ready /\ reg[s].observed /\ ~reg[s].closed

StartCall(kind, from, to, max, dirs) ==
    /\ call.kind = "none"
    /\ calls < MaxCalls
    /\ from # to
    /\ calls' = calls + 1
    /\ call' = [kind |-> kind, from |-> from, to |-> to, max |-> max]
    /\ pc' = [d \in Directions |-> IF d \in dirs THEN "read" ELSE "off"]
    /\ chunk' = AtStart(<<>>)
    /\ base' = [d \in Directions |->
                  [read |-> end[IF d = "right" THEN from ELSE to].read,
                   out |-> Len(end[IF d = "right" THEN to ELSE from].out)]]
    /\ UNCHANGED <<end, reg>>

\* drive_pipe: an error when the source waits for its own write side.
Pipe(from, to, max) ==
    /\ ~WaitingForWriteClose(from)
    /\ StartCall("pipe", from, to, max, {"right"})

\* try_native_forward: the downstream body against the default upstream, as
\* long as neither was written through the proxy stream API.  The response
\* starts (with the whole request body) and the call is over.
IsNative(left, right) ==
    /\ {Kind[left], Kind[right]} = {"http", "default"}
    /\ ~reg[left].observed /\ ~reg[right].observed

ForwardNative(left, right) ==
    LET ex == IF Kind[left] = "default" THEN left ELSE right IN
    /\ call.kind = "none" /\ calls < MaxCalls
    /\ left # right
    /\ IsNative(left, right)
    /\ calls' = calls + 1
    /\ end' = [end EXCEPT ![ex].started = TRUE, ![ex].ready = TRUE]
    /\ UNCHANGED <<reg, call, pc, chunk, base>>

\* drive_forward: both directions.
Forward(left, right, max) ==
    /\ ~IsNative(left, right)
    /\ StartCall("forward", left, right, max, Directions)

\* The call is over: the directions are dropped, with the locks they hold.
Over(e, r) ==
    /\ end' = [s \in Streams |-> [e[s] EXCEPT !.holder = "nobody"]]
    /\ reg' = r
    /\ call' = NoCall
    /\ pc' = Idle
    /\ chunk' = AtStart(<<>>)
    /\ base' = AtStart([read |-> 0, out |-> 0])
    /\ UNCHANGED calls

Fails(e) == Over(e, reg)

\* try_join! returns when every direction is done.
Step(d, next, e, r, c) ==
    LET p == [pc EXCEPT ![d] = next] IN
    IF \A x \in Directions : p[x] \in {"done", "off"}
    THEN Over(e, r)
    ELSE /\ end' = e /\ reg' = r
         /\ pc' = p
         /\ chunk' = [chunk EXCEPT ![d] = c]
         /\ UNCHANGED <<call, base, calls>>

-----------------------------------------------------------------------------
(* drive_pipe_direction: reads *)

Unread(s) == SubSeq(end[s].sent, end[s].read + 1, Len(end[s].sent))
FirstBytes(s, n) == SubSeq(Unread(s), 1, n)
SomeBytes(s) == 1..(IF Len(Unread(s)) < call.max THEN Len(Unread(s)) ELSE call.max)
\* Mutant: the end of the source, with bytes of it still unread.
AtFin(s) == end[s].fin

AtEof(s) == end[s].fin /\ Unread(s) = <<>>

\* The end of a read step: Data or Eof.
ReadReturns(d, free) ==
    LET s == Source(d)
        e == IF free THEN [end EXCEPT ![s].holder = "nobody"] ELSE end
    IN \/ \E n \in SomeBytes(s) :
            Step(d, "write", [e EXCEPT ![s].read = @ + n], reg, FirstBytes(s, n))
       \/ AtEof(s) /\ Step(d, "close", e, reg, <<>>)

\* The body of the request, or the error it ended with.
ReadHttp(d) ==
    /\ pc[d] = "read" /\ Kind[Source(d)] = "http"
    /\ ReadReturns(d, FALSE) \/ Fails(end)

\* Dynamic TCP and TLS: the lock is taken for the length of the read.
LockForRead(d) ==
    LET s == Source(d) IN
    /\ pc[d] = "read" /\ Kind[s] = "socket"
    /\ end[s].io /\ end[s].holder = "nobody"
    /\ Step(d, "reading", [end EXCEPT ![s].holder = d], reg, <<>>)

ReadSocket(d) == pc[d] = "reading" /\ ReadReturns(d, TRUE)

\* The read fails, and the stream leaves the table; or there is none.
ReadSocketFails(d) ==
    LET s == Source(d) IN
    /\ Kind[s] = "socket"
    /\ pc[d] = "reading" \/ (pc[d] = "read" /\ ~end[s].io)
    /\ Fails([end EXCEPT ![s].io = FALSE])

ReadExchangeWaits(d) ==
    /\ pc[d] = "read" /\ WaitingForWriteClose(Source(d))
    /\ Step(d, "wait", end, reg, <<>>)

\* The first read of the response sends the request, with the body written
\* until then.
StartExchange(d) ==
    LET s == Source(d) IN
    /\ pc[d] = "read" /\ IsExchange(s)
    /\ ~WaitingForWriteClose(s) /\ ~end[s].ready
    /\ Step(d, "starting",
            [end EXCEPT ![s].started = TRUE, ![s].body = end[s].out], reg, <<>>)

ExchangeReady(d) ==
    /\ pc[d] = "starting"
    /\ Step(d, "read", [end EXCEPT ![Source(d)].ready = TRUE], reg, <<>>)

ExchangeFails(d) ==
    /\ \/ pc[d] = "starting"
       \/ pc[d] = "read" /\ IsExchange(Source(d)) /\ end[Source(d)].ready
    /\ Fails(end)

ReadExchange(d) ==
    /\ pc[d] = "read" /\ IsExchange(Source(d)) /\ end[Source(d)].ready
    /\ ReadReturns(d, FALSE)

\* wait_for_proxy_stream_write_close: registers before it looks at the flag.
WaitForWriteClose(d) ==
    LET s == Source(d) IN
    /\ pc[d] = "wait"
    /\ Step(d, IF reg[s].closed THEN "read" ELSE "parked", end,
            [reg EXCEPT ![s].notify = TRUE], <<>>)

-----------------------------------------------------------------------------
(* drive_pipe_direction: writes and the end of the stream *)

\* proxy_stream_write_bytes: prepare_proxy_stream_write, then the endpoint.  A
\* response with a body of another kind takes no more.
WriteBegins(d) ==
    LET s == Destination(d)
        r == [reg EXCEPT ![s].observed = TRUE]
        written == [end EXCEPT ![s].out = @ \o chunk[d]]
    IN
    /\ pc[d] = "write"
    /\ \/ reg[s].closed /\ Fails(end)
       \/ /\ ~reg[s].closed /\ Kind[s] = "http"
          /\ Step(d, "read", written, r, <<>>) \/ Over(end, r)
       \/ /\ ~reg[s].closed /\ IsExchange(s)
          /\ IF end[s].ready THEN Over(end, r)
             ELSE Step(d, "read", written, r, <<>>)
       \/ /\ ~reg[s].closed /\ Kind[s] = "socket"
          /\ Step(d, "locking", end, r, chunk[d])

WriteSocket(d) ==
    LET s == Destination(d) IN
    /\ pc[d] = "locking"
    /\ end[s].io /\ end[s].holder = "nobody"
    /\ Step(d, "read", [end EXCEPT ![s].out = @ \o chunk[d]], reg, <<>>)

WriteSocketFails(d) ==
    LET s == Destination(d) IN
    /\ pc[d] \in {"locking", "shutting"}
    /\ end[s].holder = "nobody" \/ ~end[s].io
    /\ Fails([end EXCEPT ![s].io = FALSE])

\* Mutant: nobody is notified.
MarkWriteClosedQuietly(d, s, next, e) ==
    LET p == [pc EXCEPT ![d] = next]
        r == [reg EXCEPT ![s].closed = TRUE]
    IN IF \A x \in Directions : p[x] \in {"done", "off"}
       THEN Over(e, r)
       ELSE /\ end' = e /\ reg' = r /\ pc' = p
            /\ UNCHANGED <<call, chunk, base, calls>>

\* mark_proxy_stream_write_closed: the flag, and the waiters of the stream.
MarkWriteClosed(d, s, next, e) ==
    LET woken == {x \in Directions : pc[x] = "parked" /\ Source(x) = s
                                     /\ reg[s].notify /\ ~reg[s].closed}
        p == [x \in Directions |-> IF x = d THEN next
                                   ELSE IF x \in woken THEN "wait" ELSE pc[x]]
        r == [reg EXCEPT ![s].closed = TRUE]
    IN IF \A x \in Directions : p[x] \in {"done", "off"}
       THEN Over(e, r)
       ELSE /\ end' = e /\ reg' = r /\ pc' = p
            /\ UNCHANGED <<call, chunk, base, calls>>

\* proxy_stream_close_write: a socket is then shut down, behind its lock.
CloseWrite(d) ==
    LET s == Destination(d) IN
    /\ pc[d] = "close"
    /\ IF Kind[s] = "socket"
       THEN MarkWriteClosed(d, s, "shutting", end)
       ELSE MarkWriteClosed(d, s, "done", [end EXCEPT ![s].shut = TRUE])

ShutSocket(d) ==
    LET s == Destination(d) IN
    /\ pc[d] = "shutting"
    /\ end[s].io /\ end[s].holder = "nobody"
    /\ Step(d, "done", [end EXCEPT ![s].shut = TRUE], reg, <<>>)

-----------------------------------------------------------------------------
RelayStep(d) ==
    \/ ReadHttp(d) \/ LockForRead(d) \/ ReadSocket(d) \/ ReadSocketFails(d)
    \/ ReadExchangeWaits(d) \/ StartExchange(d) \/ ExchangeReady(d)
    \/ ExchangeFails(d) \/ ReadExchange(d) \/ WaitForWriteClose(d)
    \/ WriteBegins(d) \/ WriteSocket(d) \/ WriteSocketFails(d)
    \/ CloseWrite(d) \/ ShutSocket(d)

PipeNext ==
    \/ \E s \in Streams : PeerSend(s) \/ PeerFin(s)
    \/ \E s, t \in Streams : ForwardNative(s, t)
    \/ \E s, t \in Streams, n \in Chunks : Pipe(s, t, n) \/ Forward(s, t, n)
    \/ \E d \in Directions : RelayStep(d)

PipeSpec == PipeInit /\ [][PipeNext]_pipeVars

\* The runtime polls a direction whenever it can go on, and no peer keeps its
\* stream open for ever.
PipeFairSpec ==
    /\ PipeSpec
    /\ \A d \in Directions : WF_pipeVars(RelayStep(d))
    /\ \A s \in Streams : WF_pipeVars(PeerFin(s))

-----------------------------------------------------------------------------
(* Properties *)

InCall(d) == pc[d] # "off"

Since(seq, n) == SubSeq(seq, n + 1, Len(seq))

\* The call under way as a relay: what its sources have sent since it began,
\* how much was read, what its destinations were given.
Channel == INSTANCE ByteRelay WITH
    sent <- [d \in Directions |->
               IF InCall(d) THEN Since(end[Source(d)].sent, base[d].read) ELSE <<>>],
    fin <- [d \in Directions |-> InCall(d) /\ end[Source(d)].fin],
    taken <- [d \in Directions |->
                IF InCall(d) THEN end[Source(d)].read - base[d].read ELSE 0],
    given <- [d \in Directions |->
                IF InCall(d) THEN Since(end[Destination(d)].out, base[d].out) ELSE <<>>],
    ended <- [d \in Directions |-> pc[d] = "done"]

\* Whatever the kinds of the two streams, the order in which their peers
\* send, and the calls made before, each direction hands over exactly the
\* bytes its source sent, in order, and ends its destination only after all
\* of them (drive_pipe_direction, proxy_stream_read_step, _write_bytes).
RelaysBytes == Channel!Spec

\* A direction that found its exchange's request body still being written is
\* woken: the other one closes the write side, or the call ends.
WriteCloseWakes ==
    \A d \in Directions : (pc[d] \in {"wait", "parked"}) ~> (pc[d] \notin {"wait", "parked"})

\* "Relays bytes in both directions": when forward has closed an exchange's
\* write side, the request it sent carries every byte that was written to it.
RequestCarriesBody ==
    \A s \in Streams : IsExchange(s) /\ end[s].started /\ end[s].shut
                       => end[s].body = end[s].out

=============================================================================
