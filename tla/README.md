# A TLA+ model of pd-edge

pd-edge is a programmable edge proxy. A listener accepts a connection or a
request, a VM runs the loaded program for it, and the program drives the proxy
through host functions: it reads the request, opens upstream transports, starts
exchanges over HTTP/1.1, HTTP/2 or HTTP/3, pipes bytes, speaks WebSocket, MQTT
or WebRTC. Programs are replaced at run time by the admin API or by a control
plane that the edge polls.

Two kinds of state are hard to get right. What outlives one request is shared by
the requests through `Arc`s: pools of upstream connections and sessions, bounded
stores, the loaded program with its pool of VMs, the debug session. Requests are
tokio tasks. They interleave at every lock and at every `.await`, and a task is
dropped at its `.await` when its client goes away. What belongs to one request is
driven by a program that may make its calls in any order, against peers that send,
close, fail or fall silent at any time.

## The parts of the system

| Part | State | What is hard about it | Modules |
|---|---|---|---|
| HTTP/2 upstream pool (`http2/upstream.rs`) | per key: `current` session, `opening` flag, `Notify`; per session: frontier, GOAWAY, streams | look-then-act on `current`; lost notifications; an opener that is dropped; sessions that close under their users | `Http2SessionDag`, `Http2Upstream` |
| HTTP/1.1 pool (`http/outbound_http1.rs`) | hot slot and map of idle connections; a lease per response body | stale connections; message boundaries; the limit; retrying what was sent | `Http1SenderPool` |
| LRU stores (`cache.rs`) | map and recency list, per shard | the two structures must agree; look under the read lock, insert under the write lock | `LruStore`, `BoundedLru`, `ShardedLru` |
| HTTP/3 upstream pool (`http3/upstream.rs`) | several sessions per origin | concurrent connects against a bound on sessions | `Http3SessionDag`, `Http3Upstream` |
| Exchanges (`http/exchange.rs`, `http/state/upstream.rs`, `http/state/body_io.rs`) | request, attached transport, response; the inbound body and its cursor; a native forward | falling back between versions with a body that can be read once; which response answers | `Exchange` |
| Downstream response (`http/response.rs`, `http/state/downstream_response.rs`) | output node, stream phase, channel | a handler that reads while the program writes | `DownstreamResponse` |
| HTTP/1 fast path (`http_plane/http1_fast_path.rs`) | connection, leased body | keep-alive after a body that was read in part | `FastPath` |
| Proxy pipes (`proxy.rs`) | stream handles, half-closes, notify | two directions over one exchange; a close between a look and a wait | `ByteRelay`, `ProxyPipe` |
| Transport (`transport/*`) | TCP, UDP and TLS flows, tables of streams, cache of TLS configurations | replaying peeked bytes; phases; a cache cleared under a handshake | `TransportFlows`, `DownstreamTransport`, `SocketTransport` |
| Rate limiter (`abi_impl/mod.rs`) | one window per key | callers overtaken on their way to the lock | `RateLimiter` |
| VM runner, program apply, debug sessions, control plane (`runtime.rs`, `runtime/vm_runner.rs`, `debug_session.rs`, `active_control_plane.rs`) | loaded program, VM pool, the one debug session, poll loop | a program or a session replaced under a running request; lost reports | `DebugSession`, `VmRunner`, `EdgeRuntime` |
| WebSocket | connection record, session, tunnel | a read dropped by `select!`; records that outlive their sessions | `WebSocket` |
| MQTT | session, carrier, event queue | acknowledgements of earlier calls; silence; packets cut anywhere | `MqttConnection`, `MqttCodec` |
| WebRTC | record, runtime state written by callbacks, inbox | callbacks between a call's look and its wait | `WebRtc` |

`PROJECT.json` lists every part with its status and maps every definition to the
lines it stands for; paths there and below are relative to `src/src/abi_impl` or
`src/src`.

## How the modules fit together

The records that several operations share are operators on values, in modules
without state: `Http2SessionDag`, `Http3SessionDag`, `LruStore`,
`TransportFlows`, and `Lists` for what iterators compute. A component's module has
them as its base. Composition is by
extension where components interact: `EdgeRuntime` over `VmRunner` over
`DebugSession`; `Http3Upstream` over `LruStore`; the two transports over
`TransportFlows`. `ByteRelay` is an abstract specification, and `ProxyPipe`
implements it.

Proofs are in modules of their own, which extend the modules they are about:

| Proofs | About |
|---|---|
| `DataProofs` | `Lists`, `LruStore`: the lemmas on lists and stores that others use |
| `StoreProofs` | `BoundedLru`, `ShardedLru`, `RateLimiter` |
| `ConnectionProofs` | `MqttConnection`, `Http2Upstream` |
| `Http3UpstreamProofs` | `Http3Upstream`, with `Http3SessionDag` |
| `TransportProofs` | `SocketTransport`, `DownstreamTransport` |
| `EdgeRuntimeProofs` | `EdgeRuntime`, with `VmRunner` and `DebugSession` |
| `ExchangeProofs` | `Http1SenderPool`, `Exchange` |
| `WebSocketProofs` | `WebSocket` |

The `MC` modules give the constants their values. Three of them are suites:
`MCUpstreamPools`, `MCServing` and `MCPrograms` hold the variables of several
components that share no lock and no state (they extend them, or take an
instance where two have a name in common), and a variable `part` that
says which of them moves. One run then checks them all, each for itself:
the others stay in one initial state, and the properties of the suite are the
components' own properties, restricted to their part.

## The modules

### HTTP/2 upstream sessions

`Http2SessionDag` has one operator for each method of the session's state, from
a record to a record: the session's frontier (`open`, `draining`, ...), whether
a GOAWAY was seen, the next stream id and a function from stream ids to stream
frontiers. `PruneTerminalStreams`, which ends every method that may finish a
stream, is part of them: it drops finished streams and closes a draining
session with the last one.

`Http2Upstream` has the entry (`current`, `opening`, the waiters that `opened`
would wake), every session ever opened (`dag`) and, for each request, the step
it is at. Each critical section is one action, so that
`reusable_session` is three (read `current`; ask the session, under its own
lock; look again under the write lock) and `finish_open` is three (the entry,
the flag, the notification). `Subscribe` is separate from the look that
precedes it: `Notify::notify_waiters` wakes the `Notified` futures that exist and
leaves no permit. `Cancel` drops the request at any of its suspension points; it
changes nothing else, because neither the entry nor the tracker has a guard.
The connection task ends, with or without a GOAWAY, at any time.

Abstracted: frames, header fields, the TLS handshake and ALPN (an open succeeds
or fails), the body's bytes (whether its length is declared, zero or not, and
whether it has been delivered).

### HTTP/3 upstream sessions

The store is a `LruStore` from keys to sequences of session ids, behind one mutex
(`locked` names the request that holds it). A look is two actions inside that
mutex: the sweep of entries with nothing worth keeping, and the touch of one's
own entry with the choice of a session, since the sessions have locks of their own
and change in between. What one action does to the sessions of one entry is read at
one instant. A connect is made without the mutex; `Relook` and `Reselect` are
the second look, after which the new connection joins the entry or is dropped.
A stream is opened on the connection first and entered in the session after
(`StreamOpened`, `Attach`). A request opens one stream, so a stream is named by its
request. `Cancel` drops the future at an `.await` and tells the session nothing.
Every error is put down to the session as the code classifies it: a GOAWAY if the
QUIC connection ended, a failure of the connection otherwise.

Abstracted: frames, QUIC handshake and ALPN (a connect succeeds or fails), the
body's bytes.

### HTTP/1.1 sender pool

A connection is a number; `link` has, for each, whether the peer has closed it
and the response units that are on the wire or in its buffer. A unit is a head,
a part of a body, or the end of one, labelled with the request it answers. The
pool is the hot key, its stack, and the stacks of the other keys. Each request
takes or connects, sends, reads a head, and then pulls its body with one of the
three framings. `Release` goes back to the pool at a proven boundary if the
lease may be reused; `Drop` closes the connection. A retry is made once, for a
request whose body can be replayed, on any error of an attempt. The peer answers
each request it was sent, in order, and may close at any time.

Abstracted: the text of heads and chunk sizes (well-formed or not), addresses
and TLS settings (a key).

### LRU stores

A store is a record of the map and of the recency list, which the code keeps
apart; each method is an operator on it. `remove_from_lru` and the loop of
`evict_to_capacity` are written without iteration: the first as the list without
the key, the second by the number of pops after which the loop stops.
`BoundedLru` adds a clock and the last use of each key as history. In `ShardedLru`
each lock section is one action: `get_or_insert_with_cloned` looks under the read
lock and again under the write lock, `clear` takes the shards one after the other,
and a caller of `insert` has made its value before. Values are numbered so that no
two are equal, and a thread's `clear` records what was stored when it was called.

### Downstream response

The program's task and the request's handler share the response output: the
phase of its stream, its buffered chunks, the channel to the body, the head, a
scheduled tunnel. Each host call is one action, with its refusals. A call that
commits the stream notifies the handler in a step of its own, because the code
does so after it has released the lock. The handler looks at the committed flag
(`CheckCommitted`), subscribes (`Subscribe`), and resolves when it is woken or when
the program has ended. `Resolve` is the whole of `resolve_http_graph_response_inner`: a
tunnel, a local body, a stream with its receiver taken, an upstream body, a
refusal; and `ResolveNative`, the response of a native forward that is stored. While
such a response is stored and the program has set nothing of its own, a header or a
status goes into it (`HeadIsNative`). The client reads chunks, sees the end, or leaves.

Abstracted: header names (one of the program's own, the content type and the
length), body bytes (numbered chunks), the threshold of buffering (a number of
chunks).

### Requests, VMs, debug sessions and the control plane

In `DebugSession` sessions are numbered in the order they were started, `slot` is
the one in the store, and a session that has left the store lives on for the
requests that hold it. In `VmRunner` a request takes a snapshot of the program,
asks the store twice (`AskAttach`, `AskBlocking`: two reads in the code), takes a
VM from the program's pool or makes one, and runs it in slices. At each slice
of a request that may meet a debugger the store is read again. A slice in an
interactive session waits for the debugger's mutex, may pause there, and may
detach, after the mutex is released (`Detach`). A slice in a recording session
checks and pushes in two sections of one lock. `Recycle` gives the VM back to the
pool it came from. `EdgeRuntime` adds the operator, who may apply, start
and stop at any time, and the control plane's client, which polls, executes, drains and
sends, and loses any report.

Abstracted: fuel and epochs (a slice may end anywhere), the matching of headers
and paths (a set of requests for each session), payloads that do not validate
(nothing changes), the debugger's commands (resume or not), metrics. `asked`, the
session in the store when a request asked, and `delivered` are history.

### Exchanges

A request has the default upstream, which inherits its head and body, and may have
dynamic exchanges; the model has one of each. The inbound body is a sequence of
bytes with the part that was buffered and the cursor of its readers. A host call
that starts an exchange is several steps: it is prepared (`Prepare`), tries its
transports in order and falls back while nothing was sent, sends, and is
answered; an upload goes on beside later calls. The native forward and the stored
response it leaves, and the handler's choice between that, the shortcut of the
fast path and the response graph, are as in `state/upstream.rs` and
`state/downstream_response.rs`. A body may break off: `arrives` is how much of it
comes, `told` says that a reader has been told of the error, which happens once.
`requests` and `latest` are history: which request
had which body, and the last response of the default upstream.

Abstracted: header fields, trailers, the text of targets (set or not), the policy
that chooses the versions (a list of transports).

### HTTP/1 fast path

The client's bytes are tokens: a head, a byte of a body, a chunk's size line, its
terminator, the blank line. The loop consumes a head, leases the connection to
the body and runs the program. The reader of the body is the program, which reads
when it likes, or an upload in a task of its own, which may be reset or dropped. When
the run ends the loop takes the connection back under the lease's lock, drains what
is left within the budget and writes the response by one of four writers, each
with its own rule for the framing headers. A head that the fast path
does not take goes to hyper with every byte replayed. The body's stream ends
with its first error, and whoever pulls after it is told of an end (`PullAfterError`).

### Byte relays

`ByteRelay` is what `proxy::pipe` and `proxy::forward` promise for each direction:
take bytes in order, give exactly those, end the destination only after the end of
the source. In `ProxyPipe` a stream is the downstream body, an exchange or a
socket; any read and any write may fail. A direction reads, writes and closes as `drive_pipe_direction` does; a socket
sits behind a mutex that a read holds while it waits; the direction that reads
an exchange's response first waits for the write side to close if anything was
written, by a `Notify` it looks at before it subscribes. The two directions of a
forward run in one task, and the first error drops the other.

The refinement maps a call's source to what it has sent since the call began,
`taken` to what was read and `given` to what was written since then.

### Downstream transport and sockets

`TransportFlows` has one operator for each method of the flow records in
`transport/state.rs`. `DownstreamTransport` is a downstream connection in the hands
of a program: peek, read, eof and close over the preread buffer, the TLS acceptor
that consumes it, `set_*` calls, the handshake in three steps (the
configuration is taken or built; the handshake ends; the configuration goes into
the cache), the hand-over to HTTP or WebSocket, and the promotion of a listener's
goal. Loading a program is two steps, as in `apply_program`: the cache is cleared,
then the program replaced. A policy stands for all that `set_*` calls store
and is named by the program that sets it.

`SocketTransport` has the handles a program allocates. The record of a handle
and the tables of its TCP and TLS streams are separate, as in the code, and a stream
is known by the target it is connected to. TLS upgrade, attachment to an
exchange, the CONNECT tunnel and every failure path move the stream and mark the
record in the order the code does. So do the carriers that MQTT connections allocate
in the same tables; no call returns their handles, so a program leaves them alone.

### WebSocket, MQTT, WebRTC

`WebSocket` has the outbound record, which outlives its sessions, the session behind
it, the downstream connection, and the tunnel that runs when the program is done:
a `select!` loop that drops the pending read of one side whenever a frame of the
other is ready. When the session is not open at its turn, the tunnel connects again.

`MqttConnection` makes one host call at a time. A call closes the old carrier and
opens a new one if it has to, sends CONNECT, waits for the CONNACK, sends its packet
and reads until its own acknowledgement, handling whatever comes before. A packet
crosses the carrier in two pieces, so a read may end inside it. `due` says that a
keep-alive interval has passed in silence, which it does not when the program has set the
keep-alive to zero. A packet that cannot be encoded, or a QoS that is not 0 or 1, fails
the call at the place where the code looks. `MqttCodec` is the codec on bytes,
with the limits on lengths, the check of names as UTF-8 and the read loop that cuts the stream.

`WebRtc` has the record, the runtime state that callbacks write from tasks of their
own, and the call in progress. A wait for the channel may miss its wake-up; it
looks again when that or its timeout comes. A read looks first and registers after. A message is its number.

### Rate limiter

One key's window. A caller reads the clock, then takes the lock, and
others may have been there in between, for less than a window; `granted` is
history, the calls admitted at each time.

## What TLC checks

Run, in this directory, `tlc -config <cfg> <module>`; `PROJECT.json` has the module of each.

| Run | Configuration | Property | Shows |
|---|---|---|---|
| `http2_safety` | `Http2Upstream_safety.cfg` | `ExclusiveOpen` | one opener at a time, with the flag raised |
| | | `AttachOnlyWhileOpen` | streams are attached to open sessions only |
| | | `ErrorIsolation` | one stream's reset leaves the others alone |
| | | `StaleClearIsHarmless` | clearing a stale session forgets no usable one |
| `edge_runtime` | `EdgeRuntime.cfg` | `OwnVm` | a request runs its own program over its own bridge; pooled VMs are clean and of their program |
| | | `RemovedIsClosed` | a removed remote session has its bridge closed |
| | | `RecordingsInOrder` | recordings arrive in order, once, and pass the target by less than the number of requests |
| | | `PausedOnThread` | a debugger that was announced pauses on a blocking thread |
| | | `DetachKeepsNewer` | a detach ends only the session it detaches from, and only if that is interactive and matches the request |
| `upstream_pools` | `UpstreamPools.cfg` | `TotalBounded`, `GetOrInsertKeeps` | the shards together keep the capacity; racing get-or-inserts replace nothing |
| | | `PooledAtBoundary`, `SentAtMost` | a pooled connection is at a message boundary and in nobody's hands; a streamed body is sent once, any other request at most twice |
| | | `StoreAgrees`, `FallbackBeforeAttach` | the HTTP/3 store keeps its shape, its bound and the origin of its sessions; fall back is before a stream is attached |
| | | `LimitPerInterval` | an interval of a window's length admits at most three times the limit less two calls |
| `serving` | `Serving.cfg` | `NothingLost`, `AnswerKept`, `Answered` | chunks reach the client once and in order; the answer is the one the program left; a program that ended is answered |
| | | `KeepsFraming`, `BodyIsWhole`, `Served` | the keep-alive loop reads on at a boundary; a reader told that the body has ended had it whole, unless an error was told before; every request is served or its connection closed |
| | | `RelaysBytes`, `WriteCloseWakes` | pipe and forward implement `ByteRelay`; a wait for a write-close is woken |
| | | `OpenEnds` | without cancellation every HTTP/2 open ends |
| | | `SilenceIsNoticed` | an MQTT broker that falls silent is noticed, where a keep-alive is set |
| | | `ReadInOrder`, `ConnectReturns` | WebRTC messages are read once and in order; connect returns, and a send returns or gets to the data channel |
| | | `EvictsOldest` | a bounded store evicts what was used least recently |
| `programs` | `Programs.cfg` | `BytesInOrder` | peek, read, TLS and hand-over lose, repeat and reorder no byte |
| | | `PreparedMatchesPolicy` | a TLS configuration that is reused was built from the policy its session shows |
| | | `StreamIsCurrent` | a handle's stream is connected to its current target, no phase hides an open one, and an MQTT carrier has one stream |
| | | `TrueMeansAcknowledged`, `AcknowledgedIsKept`, `OneCarrier` | MQTT calls return true for their own acknowledgement; acknowledged messages are kept; a reconnect leaves no carrier behind |
| | | `FramesExactly` | packets come out as they were sent wherever the stream is cut |
| | | `TunnelFaithful`, `TunnelEndsBoth` | the WebSocket tunnel gives each side exactly the frames taken from the other, and ends both sides |
| | | `WholeBody`, `AnswerIsLatest` | every request sent to its end carries its whole body, or all that arrived of one whose error a reader was told; the default upstream answers with its last response |
| `http2_cancelled_open` | `Http2Upstream_cancelled_open.cfg` | `OpenEnds` | *violated*: a dropped opener leaves the flag raised |
| `http1_interim` | `Http1SenderPool_interim.cfg` | `PooledAtBoundary` | *violated*: an interim response is taken for the final one |
| `http3_dead` | `Http3Upstream_dead.cfg` | `DeadSessionEnds` | *violated*: a session whose connection is gone is kept |
| `response_lost_wakeup` | `DownstreamResponse_lost_wakeup.cfg` | `StreamedEarly` | *violated*: a commit between the handler's look and its subscription is not seen |
| `tls_stale_config` | `DownstreamTransport_stale.cfg` | `RestoredIsNoOp` | *violated*: a handshake of the old program fills the cache after it was cleared |
| `forward_request_body` | `ProxyPipe_request_body.cfg` | `RequestCarriesBody` | *violated*: a forward starts the exchange before its body is written |
| `applied_is_answered` | `Exchange_applied.cfg` | `AppliedIsAnswered` | *violated*: a stored native response answers in place of the one applied later |

The violated runs are disagreements between the code and what its plans, comments
or tests say; `PROJECT.json` quotes both under "findings". Where a property that
holds excepts a case, its comment says which and the list below has the reason.

### Bounds

Two or three requests are enough for every race on a shared entry: one opens, one
looks, one waits. The values are in the `.cfg` files and the suites.

- HTTP/2: three requests that may be cancelled, any session they can open; two without
  cancellation for liveness.
- HTTP/1.1: two requests, two keys, three connections and one pooled slot, so that
  the pool overflows and a retry leaves a stale connection behind; two units of a body
  let a response end in the middle.
- HTTP/3: two requests of one origin that may have one session, of which one may not
  fall back; and two of two origins that push each other out of a store of one entry.
- LRU: three keys over a capacity of two; for the shards four keys, a capacity of three
  over two shards, which leaves a remainder, and two threads.
- Runtime: two requests, two sessions, two programs, two slices, a pool of one, a
  recording target of one. A session matches both requests or none.
- Response: a threshold of two and three writes give a body below, at and above it;
  three other calls meet every phase.
- Fast path: four scripts of two requests, with each framing, a body over the budget of
  three bytes, a malformed one and a request left to hyper.
- Relay: five streams, one of each kind and a second socket, two bytes, one call.
- Transport: one connection of two bytes with or without a hello, every listener goal; two
  TLS connections under two programs. Sockets: one handle, two targets, two policies.
  A handle's steps touch that handle alone, and the proof covers any number.
- MQTT: two or three calls and packets and two packet ids, so that an id comes round
  again; the codec at the lengths where the encoding grows, in chunks of 1, 2, 5 and 128.
- WebSocket: two sessions of two frames. WebRTC: two messages, four calls.
- Exchange: bodies of no and of two bytes, four calls, two requests, three lists of
  transports.
- Limiter: a limit of three, a window of three, delays up to two, times up to six: two
  windows and the start of a third.

Capacities in the code are larger (pool limits, `u16` packet ids, `usize` counters), but no guard
depends on more than full or not full, or on coming round.

Deadlock is not checked: in every run the requests, calls or bytes come to an
end, or wait for ever as a finding says. What must not wait is stated as liveness.

### Fairness

Tokio polls a task that is ready, so the steps of tasks are weakly fair and nothing
else is, except where a line below says so.

- `Http2Upstream`: the steps that acquire a session. No lock is held across an
  `.await`, and a connect is answered by the peer or given up by the operating system.
  Waiting for a response has no bound in the code and is not fair.
- `DownstreamResponse`: the notification, the finish after the run and the handler. The
  end of the program and the client are not fair.
- `ProxyPipe`: each direction, and the end of each peer's stream, since the relay has no
  time limit and `WriteCloseWakes` is about the notification, not about peers.
- `MqttConnection`: the client's steps and the keep-alive timer. The broker is not fair.
- `WebRtc`: the call in progress, whose wait has a timeout. Callbacks are not fair.
- `FastPath`: the loop, the body's reader, the end of the run, and a client that sends
  on or closes: the loop has no time limit on a body, so a client that does neither is waited
  for.

### Seen while modelling

Not stated as properties, or excepted by one:

- Two sessions of one HTTP/2 entry can both be open, when an open finishes between
  another request's look and its turn to open, and a request that subscribes after the
  open has ended waits for the next one.
- HTTP/3 takes the peer's reset of one stream for a failure of its session.
- A write after `stream::start` may add a content type to a head that is committed. A
  program that fails with bytes buffered is answered with these or with an error,
  whichever the handler sees first. The plan of a tunnel that no response took holds the
  context that holds it.
- A header or status that a program sets while a native forward's response is stored lives
  in that response: `get_header` does not show it, `clear_header` does not remove it, and it
  is gone when the program then sets a body or streams.
- A debug session that replaces another between a request's two questions and its
  slice may pause it on a worker of the runtime. `run_debug_command` blocks the worker
  that runs the client for up to its time limit. Stopping a session drops recordings that
  were not drained, and a report that fails is not sent again.
- Fast path: an oversized chunk met by the program's own read is not remembered, and the
  loop reads on in the middle of that body; an upload dropped in the middle of a pull keeps
  the lease's lock, and the connection waits; a snapshot response whose body is known
  to be empty is kept alive without a length; a program that reads after its upload
  failed on the client's error is told that the body has ended.
- Exchanges: a native error that is ready is dropped and the request made again; a native
  forward after an answered exchange sends a second request; a program that reads
  chunks beside a running upload takes them from it. The error of a body that broke off is
  told once, and a request made after that carries what arrived as if it were all.
- Relay: in a forward between two sockets a read holds the lock that the other direction's
  write needs, so that each can wait for the other. A WebSocket connection as one end of
  a relay is connected again by the first operation after its close, also by that of
  the direction that still reads.
- Transport: a WebSocket accepted over plain TCP drops the bytes that were peeked; a TLS
  configuration that cannot be built drops the connection with the hello; the TLS stream
  of a closed handle stays in its table and can carry an exchange; a CONNECT tunnel takes
  its stream before it finds that there is no upgrade.
- WebSocket: a read that refuses a frame of the wrong kind has consumed it; an operation on
  a closed record connects again; `set_target` on an open one keeps its session;
  an open refused for an invalid header value or list of subprotocols stays in its
  handshake phase.
- MQTT: a malformed packet throws the buffer away and leaves the session open, as does a
  reset of the carrier; the wait for the CONNACK has no limit; a reconnect clears the
  event queue; a rejected TLS server name leaves its TCP carrier open; a keep-alive of zero
  leaves every wait without a limit.
- WebRTC: a reader that waits is woken by a message, not by a close; the wait of a send
  in the data channel has no limit.

## What is proved

The proofs hold for every value of the constants that the named assumptions allow.
Each assumption is in the module that declares the constants, and all of them give
constants their types (`MatchSets` are sets of requests, `Transports` are nonempty lists
of versions, counts are naturals) with these exceptions: the requests of `SessionAssumption`
are finite, since a bound counts them; the bounds of `Http3Assumption` and the target of
`SessionAssumption` are not zero, as the code's are not; and `LimiterAssumption` has a
caller held up, between the clock and the lock, for no more than a window.
`SocketTransport` and `WebSocket` need no assumption.
The theorems on `Http1SenderPool` name theirs, `Constants`: beside types and that `None`
is no connection, that peers send no interim response. With one, `PooledAtBoundary` fails
(run `http1_interim`).

Of the properties that the passing runs check, every safety property is proved but those listed at
the end of this section. Each proof has an inductive invariant that implies the property;
TLC checked it on a small instance before it was proved. What the invariant adds is said
below, since that is why the property holds.

**Lists and stores** (`DataProofs`). `Kept` and `Total` are recursive functions on the
indices of a list. That such a function exists and obeys its equation is proved once
(`Recursion`), from the least element of a set of naturals, and everything about them follows by the
same means: what is kept of a list with one more element or of two lists, that sums are
monotone, and how one more call changes them. The operations of a store keep map and list
in agreement and keep its capacity.

**LRU stores** (`StoreProofs`). For the bounded store: map and list agree, the list is sorted by
last use, and what an insert evicts is older than all it keeps. That at most one key
is evicted at a time needs the shape, and that a use goes to the end of the order needs
the clock to be ahead of every use. For the shards: the shape of each, that get-or-insert
replaces nothing and returns what is stored, that `clear` forgets, and that the shards
together keep the capacity for any number of shards. The invariant adds
that a value on its way to `insert` is in no shard and in no set that a clear is to forget
(so that the shards already cleared do not get such a value back), and that the
shards a clear has taken are free of that set.

**Rate limiter** (`StoreProofs`). The bound of `LimitPerInterval` is not twice the limit: a
caller that is overtaken by the call that starts a window is counted in that window
although its time is before it, so three windows can have calls in one interval. The
invariant bounds every interval by where it lies to the window in force
(`Bounded`): after its start, across it, before it. The call that starts a window is the first
that it counts and lies outside the intervals that end before it, which gives the two calls less.

**HTTP/2** (`ConnectionProofs`). Every property of `http2_safety`, and the type,
session shape, stream ownership and `NeverReopens` beside them. The invariant `IInv`
adds to the type and the state properties what each step of a request
knows: where it holds a session, that session exists; where it has not reserved a
stream it has none; and whoever is inside the open section is alone there with
the flag raised. It is needed because a request acts on a session it read several
steps before. The argument goes by three kinds of step. Those that only move one
request are covered by one lemma (`QuietStep`). Those that change one session's
record are covered by `DagStep`, a relation every operator of `Http2SessionDag`
satisfies: streams only go away or stay, ids only grow, the phase never
returns to open. The two that create, `OpenSession` and `ReserveStreamFor`, have
lemmas of their own. The action properties follow from facts about single steps;
`ErrorIsolation` from a second relation, `Isolated`, that each operator satisfies:
at most one live stream changes, or the session has failed.

**MQTT** (`ConnectionProofs`). `TrueMeansAcknowledged`, `AcknowledgedIsKept` and `OneCarrier` for
any number of calls, packets and packet ids. The invariant (`Stream`) is about the read
buffer and the carrier as one stream of pieces. While nothing was thrown away, the buffer
starts with a packet and the pieces alternate; every acknowledgement in it is one the broker made;
and the publishes that the program has got, those in its event queue and those still in
the stream rise, each set below the next. So an acknowledgement that
is taken is the broker's for that packet id, whatever was cut, and an acknowledged publish
is with the program or in its queue.

**HTTP/1.1** (`ExchangeProofs`). `PooledAtBoundary` and `SentAtMost` for any requests,
keys, connections, capacity, framings and lengths of bodies. The invariant says for every
step of a request what may be on the connection it holds (`Fits`): nothing before it is
sent; its own answer, or the start of one, while it waits for the head; and then no
more than its framing takes for the body, unless the connection is not to be used
again. So the read that ends a response leaves nothing behind, and only that read puts a connection
into the pool, where no connection is twice (`Distinct`). `MoveStep` reduces the
steps of a request to where the request and its connection are afterwards, and `PeerStep` those
of the peer to what they leave on one connection. `Counts` ties sends to tries.

**HTTP/3** (`Http3UpstreamProofs`). `StoreAgrees` and `FallbackBeforeAttach` for any number of
requests, origins and sessions and any bounds. The invariant `PoolInv` has the store's
shape with, for every entry, that its sessions are distinct, of its own origin, and that
no more than the bound accept streams (`EntryOK`). That count may only fall while the store is
not locked, because no session returns to accepting (`Ages`), and the second look
counts again before it adds. A request that has a session has one of its own origin; one that may
still fall back has a stream in no session.

**Transport** (`TransportProofs`). `StreamIsCurrent` for any handles, targets and policies:
with the types it is inductive, and `HandleStep` reduces every operation to
the record and the two streams it leaves on one handle. `close_carrier` drops one of the two,
so that an MQTT carrier has only one is part of what is proved. `PreparedMatchesPolicy` for any
connections, client scripts, goals and number of programs: the invariant
ties a handshake under way to the policy its session shows, so that the configuration it
puts into the cache, after other connections and program loads, still agrees with its key.
`BytesInOrder` for the same: what was taken and what is preread make up the bytes read from
the socket (`Accounted`), which later reads need together with where the stream is (`OnePlace`):
nobody reads while the acceptor or HTTP has it.

**Runtime** (`EdgeRuntimeProofs`). Every property of `edge_runtime` and the type, for any finite set of
requests and any programs, sessions and slices. The invariant has these parts. `StoreInv`: the
slot's session exists, and the others are closed. `Good`, for each request beside the
sessions: what it holds at each step, that the session it is in matches it and has a
debugger, and that the session it asked about makes it block; `Grows` says that
no step forgets a session or changes whom it matches, and carries `Good` over the steps
of others. `PoolInv`: a pooled VM is a new one of its bucket. `ClientInv`: the types of the
client. `RecInv`, for the recordings: what was delivered, what is being sent and what waits
are in line and below the session's next number (`Log`), and the recordings past the target and the
requests about to make one are together fewer than the requests (`Bound`): a
request can only come to record while the target is not reached.

**WebSocket** (`WebSocketProofs`). `TunnelFaithful` and `TunnelEndsBoth` for any number of frames and
sessions. The invariant says of each side that the binary frames it has sent are those before
the tunnel, those passed on and those that wait, in this order, with nothing else passed on. Only an
open record can have passed frames on, so that connecting again starts both directions from
nothing. A session that an open record has read to its end has nothing more.

**Exchange** (`ExchangeProofs`). `WholeBody` and `AnswerIsLatest` for bodies of any length and any number
of calls, requests and transports. `BodyInv`: an upload in progress
that nobody reads beside has sent what the cursor has passed; the end of a body that
broke off is reached only after its error was told; and a request about to
stream finds the cursor at the start unless another upload runs. `AnswerInv`: a native
response that is ready is the latest of the default upstream, without one
the exchange's own is, and while a request of the default exchange runs there is neither. A native
forward is on HTTP/1 alone (`NativeOnHttp1`), so that no other transport stores its response.

Only model-checked:

- liveness, which needs fairness and `ENABLED`: `Answered`, `Served`, `WriteCloseWakes`, `OpenEnds`,
  `SilenceIsNoticed`, `ConnectReturns`;
- `FramesExactly`, about a codec that is recursive over bytes;
- `NothingLost`, `AnswerKept`, `KeepsFraming`, `BodyIsWhole`, `RelaysBytes` and `ReadInOrder`, whose modules
  have no proofs.

## Not modelled

- The downstream HTTP/2 and HTTP/3 trackers: records for introspection that no answer or
  wait depends on. Their store is `BoundedLru`, their session state that of the two `Dag` modules.
- Header edits, trailers, the notes on an exchange's TLS flow, and the native local
  shortcut of `fast_path.rs`: data that no guard of the modelled code reads.
- A WebSocket connection as one end of a pipe or a forward (`WebSocketBinary` in `proxy.rs`):
  its sessions come and go under the relay, and `ByteRelay` promises nothing across them.
  The tunnel to the downstream WebSocket is modelled.
- The CONNECT tunnel's copying, which is tokio's `copy_bidirectional`, and the native
  hand-off of two sockets.
- The bridge that polls a VM's pending operations: one future per operation, whose
  waits are those of `VmRunner`.
- Serving through hyper, which the fast path hands over to; access logs; metrics.
- The accept loops of the transport plane: one run per connection, as in `VmRunner`.
- The HTTP client under the control plane's client, and its RPC types.
- QUIC, a wrapper over its library; the state it adds is that of HTTP/3.
- The eviction of an HTTP/2 entry in use: the store and the entry are modelled apart. A
  second entry of an origin is wasteful, not wrong.
- Without evolving state: descriptors, registries and handle tables, the ABI crates and
  generated bindings, logging, lock metrics and build information, command lines and listeners,
  the sample echo server, the examples. Cryptography and header encoding are values.
