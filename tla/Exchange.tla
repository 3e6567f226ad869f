------------------------------ MODULE Exchange ------------------------------
(***************************************************************************)
(* The outbound exchanges of one request (abi_impl/http/exchange.rs and    *)
(* state/upstream.rs): the default upstream, which inherits the request    *)
(* and its body, and one dynamic exchange.  A program configures them,     *)
(* reads the inbound body (state/body_io.rs), starts an exchange by asking *)
(* for its response, or forwards the default one natively                  *)
(* (proxy.rs, schedule_default_upstream_http_forward); the handler then    *)
(* answers the client, on the HTTP/1 fast path or through the graph.       *)
(*                                                                         *)
(* Host calls are made one at a time; an upload that is still running when *)
(* an HTTP/2, HTTP/3 or attached exchange is answered goes on beside them. *)
(* The body of the request is the sequence of its bytes 1, 2, ...          *)
(***************************************************************************)
EXTENDS Naturals, Sequences

CONSTANTS
    Lengths,        \* lengths of the inbound body
    Transports,     \* the transports an exchange may be set to try, in order
    MaxCalls,       \* bound: host calls of the program
    MaxRequests     \* bound: requests sent upstream

ASSUME ExchangeAssumption ==
    /\ Lengths \subseteq Nat
    /\ \A via \in Transports : via \in Seq({"h1", "h2", "h3"}) /\ via # <<>>
    /\ MaxRequests \in Nat

VARIABLES
    inbound,    \* the InboundRequestBodyState, and the body the client sends
    exch,       \* exchange -> its request, transport and response nodes
    native,     \* the stored native forward: active, and its result
    call,       \* the host call, or the handler's resolution, in progress
    requests,   \* history: the requests sent; the k-th is answered by response k
    latest,     \* history: the last response of the default upstream
    source,     \* body_source_exchange, with the response that was applied and
                \* how many requests had been sent by then
    reply,      \* what the client is answered with
    calls       \* host calls made, for the bound

exchangeVars == <<inbound, exch, native, call, requests, latest, source, reply, calls>>

Default == "default"
Dynamic == "dynamic"
ExchangeHandles == {Default, Dynamic}

\* Responses are numbered by their requests; no response, and a failed one.
NoResponse == 0
Failed == MaxRequests + 1

\* What arrives of the inbound body, and the body a program sets instead.
Arrived == [i \in 1 .. inbound.arrives |-> i]
OwnBody == <<0>>

NewExchange ==
    [target |-> FALSE, via |-> <<"h1">>, custom |-> FALSE, own |-> FALSE,
     attached |-> FALSE, response |-> NoResponse, read |-> FALSE]

Idle == [pc |-> "idle"]

ExchangeInit ==
    /\ \E n \in Lengths : \E arrives \in 0 .. n :
           inbound = [length |-> n, arrives |-> arrives, buffered |-> 0, offset |-> 0,
                      eof |-> FALSE, told |-> FALSE]
    /\ exch = [h \in ExchangeHandles |-> NewExchange]
    /\ native = [active |-> FALSE, stored |-> NoResponse]
    /\ call = Idle
    /\ requests = <<>>
    /\ latest = NoResponse
    /\ source = [of |-> "none", response |-> NoResponse, at |-> 0]
    /\ reply = NoResponse
    /\ calls = 0

CanCall == call.pc = "idle" /\ calls < MaxCalls

Call ==
    /\ CanCall
    /\ calls' = calls + 1

-----------------------------------------------------------------------------
(* Configuration (set_target, set_version, set_body, attach_tcp and        *)
(* attach_tls_plaintext).  The setters accept an exchange that was already *)
(* answered; attaching does not.                                           *)

SetTarget(h) ==
    /\ Call
    /\ ~exch[h].target
    /\ exch' = [exch EXCEPT ![h].target = TRUE]
    /\ UNCHANGED <<inbound, native, call, requests, latest, source, reply>>

\* The version preference and the TLS policy decide which transports are tried
\* (select_upstream_mode, should_use_explicit_upstream_transport) and whether
\* the client is a custom one.
SetVersion(h) ==
    /\ Call
    /\ \E via \in Transports, custom \in BOOLEAN :
           exch' = [exch EXCEPT ![h].via = via, ![h].custom = custom]
    /\ UNCHANGED <<inbound, native, call, requests, latest, source, reply>>

SetBody(h) ==
    /\ Call
    /\ ~exch[h].own
    /\ exch' = [exch EXCEPT ![h].own = TRUE]
    /\ UNCHANGED <<inbound, native, call, requests, latest, source, reply>>

\* A host error ends the program, and the client is told.
HostError ==
    /\ call' = [pc |-> "over", use |-> "error"]
    /\ reply' = Failed

\* The stream or session is connected, as attaching requires of it.
Attach(h) ==
    /\ Call
    /\ IF ~exch[h].target \/ exch[h].response # NoResponse
       THEN HostError /\ UNCHANGED exch
       ELSE exch' = [exch EXCEPT ![h].attached = TRUE] /\ UNCHANGED <<call, reply>>
    /\ UNCHANGED <<inbound, native, requests, latest, source>>

-----------------------------------------------------------------------------
(* The inbound body.  The buffer keeps every byte that was ever pulled;    *)
(* readers of the cursor share one offset.  A client whose body breaks off *)
(* has `arrives' below `length'; `told' says that a reader got the error.  *)
(* The source reports it once and then ends (pull_next), or, with an       *)
(* HTTP/2 client, reports it again.                                        *)

PristineUnread == inbound.buffered = 0 /\ inbound.offset = 0 /\ ~inbound.eof

\* Where reading on, or reading all, meets the error of the client.
Short == inbound.arrives < inbound.length /\ ~inbound.eof
AtBreak == Short /\ inbound.offset = inbound.buffered /\ inbound.buffered = inbound.arrives

\* ensure_readable_byte: pull until a byte can be read or the body is over.
Available ==
    IF inbound.offset < inbound.buffered \/ inbound.eof
    THEN inbound
    ELSE IF inbound.buffered < inbound.arrives
    THEN [inbound EXCEPT !.buffered = @ + 1]
    ELSE [inbound EXCEPT !.eof = TRUE]

\* read_next_chunk: the bytes it returns, and the body it leaves.
NextChunk == [i \in 1 .. Available.buffered - inbound.offset |-> inbound.offset + i]
AfterChunk == [Available EXCEPT !.offset = Available.buffered]

\* read_all pulls to the end and returns all that was ever pulled.
ReadAll == Arrived
AfterAll == [inbound EXCEPT !.buffered = inbound.arrives, !.eof = TRUE]

\* What the error leaves behind: read_all keeps what it pulled.
AfterError == [inbound EXCEPT !.told = TRUE]
AfterAllError == [AfterError EXCEPT !.buffered = inbound.arrives]

Uploading(k) == requests[k].upload = "open"

\* An upload that is still running misses what another reader takes.
Missed(k) == [requests[k] EXCEPT !.shared = @ \/ (Uploading(k) /\ NextChunk # <<>>)]

\* http::request::body::next_chunk.
ReadChunk ==
    /\ Call
    /\ AtBreak => inbound.told
    /\ inbound' = AfterChunk
    /\ requests' = [k \in DOMAIN requests |-> Missed(k)]
    /\ UNCHANGED <<exch, native, call, latest, source, reply>>

\* http::request::get_body.
ReadBody ==
    /\ Call
    /\ Short => inbound.told
    /\ inbound' = AfterAll
    /\ UNCHANGED <<exch, native, call, requests, latest, source, reply>>

\* A read of the program that meets the client's error is a host error.
ReadFails ==
    /\ Call
    /\ \/ AtBreak /\ inbound' = AfterError
       \/ Short /\ inbound' = AfterAllError
    /\ HostError
    /\ UNCHANGED <<exch, native, requests, latest, source>>

-----------------------------------------------------------------------------
(* Starting an exchange.                                                   *)

\* default_upstream_outbound_http1_request_body_template for the default
\* exchange, resolve_outbound_exchange_body for any other: the kind of body
\* and, unless it is streamed, its bytes.
Bytes(b) == [kind |-> "bytes", bytes |-> b]
Streaming == [kind |-> "stream", bytes |-> <<>>]

\* Only the default exchange inherits the inbound body, unless it is known empty
\* (request_body_known_empty_for_exchange).
Inherits(h) == h = Default /\ ~exch[h].own /\ inbound.length > 0

Template(h) ==
    IF exch[h].own THEN Bytes(OwnBody)
    ELSE IF ~Inherits(h) THEN Bytes(<<>>)
    ELSE IF PristineUnread THEN Streaming
    ELSE Bytes(ReadAll)

\* start_default_upstream_plain_http1_fast_path applies to a default exchange
\* of HTTP/1 alone, without an attached transport and without a custom client.
FastPath(h) ==
    h = Default /\ ~exch[h].attached /\ exch[h].via = <<"h1">> /\ ~exch[h].custom

\* HTTP/1 off the fast path resolves the body before it prepares the request
\* (resolve_outbound_request_body): the whole of it is read.
ReadsAhead(h) ==
    h = Default /\ ~exch[h].attached /\ exch[h].via = <<"h1">> /\ exch[h].custom

\* Resolving a template reads the inbound body if the template holds it.
Buffers(h) == Inherits(h) /\ (~PristineUnread \/ ReadsAhead(h))

AfterTemplate(h) == IF Buffers(h) THEN AfterAll ELSE inbound
Resolves(h) == Buffers(h) /\ Short => inbound.told

\* What is tried, in order: the attached transport alone, or HTTP/3, HTTP/2 and
\* HTTP/1 as far as they are in use.
Attempts(h) == IF exch[h].attached THEN <<"attached">> ELSE exch[h].via

\* A request that is prepared beside a running upload shares its cursor.
Beside == \E k \in DOMAIN requests : Uploading(k)

\* What becomes of the response when it is there, and of the attached transport.
Observed(c, r, attached) ==
    /\ exch' = [exch EXCEPT ![c.h].response = r, ![c.h].attached = attached,
                            ![c.h].read = @ \/ c.use = "read"]
    /\ source' = IF c.use = "apply" THEN [of |-> c.h, response |-> r, at |-> Len(requests)]
                 ELSE source
    /\ reply' = IF c.use \in {"graph", "shortcut"} THEN r ELSE reply
    /\ call' = IF c.use \in {"graph", "shortcut"} THEN [pc |-> "over", use |-> c.use] ELSE Idle

\* An answered exchange returns its snapshot.
Answered(h, use) ==
    /\ exch[h].response # NoResponse
    /\ Observed([h |-> h, use |-> use], exch[h].response, exch[h].attached)
    /\ UNCHANGED <<inbound, native>>

\* A native response that is ready becomes the default exchange's
\* (try_materialize_ready_or_pending_native_default_upstream_forward_response).
Materialize(h, use) ==
    /\ exch[h].response = NoResponse
    /\ h = Default /\ native.stored \notin {NoResponse, Failed}
    /\ Observed([h |-> h, use |-> use], native.stored, exch[h].attached)
    /\ native' = [active |-> FALSE, stored |-> NoResponse]
    /\ UNCHANGED inbound

\* Otherwise the request is prepared.  A native error that is ready is dropped
\* here, and the request made again.
Prepare(h, use) ==
    /\ exch[h].response = NoResponse
    /\ h # Default \/ native.stored \in {NoResponse, Failed}
    /\ native' = IF h = Default THEN [native EXCEPT !.stored = NoResponse] ELSE native
    /\ \/ /\ ~exch[h].target
          /\ HostError /\ UNCHANGED <<inbound, exch, source>>
       \/ /\ exch[h].target /\ Buffers(h) /\ Short
          /\ inbound' = AfterAllError
          /\ HostError /\ UNCHANGED <<exch, source>>
       \/ /\ exch[h].target /\ Resolves(h)
          /\ inbound' = AfterTemplate(h)
          /\ call' = [pc |-> "try", h |-> h, use |-> use, via |-> Attempts(h),
                      body |-> IF Buffers(h) THEN Bytes(ReadAll) ELSE Template(h),
                      beside |-> Beside]
          /\ UNCHANGED <<exch, source, reply>>

\* start_outbound_exchange_response as far as its first await.
Start(h, use) == Answered(h, use) \/ Materialize(h, use) \/ Prepare(h, use)

\* exchange::send and the getters of status, headers and version.
Send(h) ==
    /\ Call
    /\ Start(h, "observe")
    /\ UNCHANGED <<requests, latest>>

\* The calls that read the response's body note it first.
ReadResponse(h) ==
    /\ Call
    /\ Start(h, "read")
    /\ UNCHANGED <<requests, latest>>

\* http::response::apply_exchange, as far as the node's source.
ApplyExchange(h) ==
    /\ Call
    /\ Start(h, "apply")
    /\ UNCHANGED <<requests, latest>>

\* start_native_default_upstream_http_forward_response: a forward that is active
\* is left alone; one that is not eligible starts the exchange instead.
NativeEligible ==
    /\ exch[Default].target
    /\ ~exch[Default].attached
    /\ exch[Default].via = <<"h1">>
    /\ ~(Inherits(Default) /\ ~PristineUnread)

Forward ==
    /\ Call
    /\ IF native.active
       THEN UNCHANGED <<inbound, exch, native, call, source, reply>>
       ELSE IF NativeEligible
       THEN /\ call' = [pc |-> "try", h |-> Default, use |-> "native", via |-> <<"h1">>,
                        body |-> Template(Default), beside |-> Beside]
            /\ UNCHANGED <<inbound, exch, native, source, reply>>
       ELSE Start(Default, "observe")
    /\ UNCHANGED <<requests, latest>>

\* The transport has no session and falls back before anything is sent, so the
\* stream of the body is made again for the next one.  On HTTP/1 the default
\* exchange resolves its template anew: beside a running upload, which may have
\* touched the inbound body since, that reads the whole of it.
FallsBack ==
    /\ call.pc = "try"
    /\ Head(call.via) \in {"h2", "h3"}
    /\ Len(call.via) > 1
    /\ LET anew == call.h = Default /\ call.via[2] = "h1" IN
       \/ /\ anew => Resolves(Default)
          /\ inbound' = IF anew THEN AfterTemplate(Default) ELSE inbound
          /\ call' = [call EXCEPT !.via = Tail(@),
                                  !.body = IF anew THEN Template(Default) ELSE @]
          /\ UNCHANGED reply
       \/ /\ anew /\ Buffers(Default) /\ Short
          /\ inbound' = AfterAllError
          /\ HostError
    /\ UNCHANGED <<exch, native, requests, latest, source, calls>>

\* The request goes out: a body in memory whole, a streamed one as it comes.
SendUpstream ==
    /\ call.pc = "try"
    /\ Len(requests) < MaxRequests
    /\ requests' = Append(requests,
          [h |-> call.h, via |-> Head(call.via), own |-> exch[call.h].own,
           body |-> call.body.bytes, shared |-> call.beside,
           upload |-> IF call.body.kind = "stream" THEN "open" ELSE "done"])
    /\ call' = [call EXCEPT !.pc = "await"]
    /\ UNCHANGED <<inbound, exch, native, latest, source, reply, calls>>

Newest == Len(requests)

\* stream_remaining_inbound_request_body: one chunk of an upload, or its end.
UploadChunk ==
    \E k \in DOMAIN requests :
        /\ Uploading(k)
        /\ AtBreak => inbound.told
        /\ inbound' = AfterChunk
        /\ requests' = [j \in DOMAIN requests |->
                           IF j # k THEN Missed(j)
                           ELSE [requests[k] EXCEPT
                                    !.body = @ \o NextChunk,
                                    !.upload = IF NextChunk = <<>> THEN "done" ELSE "open"]]
        /\ UNCHANGED <<exch, native, call, latest, source, reply, calls>>

\* Mutant: the client's error is taken for the end of the body.
UploadCutShort ==
    \E k \in DOMAIN requests :
        /\ Uploading(k)
        /\ AtBreak
        /\ inbound' = [inbound EXCEPT !.eof = TRUE]
        /\ requests' = [requests EXCEPT ![k].upload = "done"]
        /\ UNCHANGED <<exch, native, call, latest, source, reply, calls>>

\* The upload meets the client's error.
UploadBreaks ==
    \E k \in DOMAIN requests :
        /\ Uploading(k)
        /\ AtBreak
        /\ inbound' = AfterError
        /\ requests' = [requests EXCEPT ![k].upload = "failed"]
        /\ UNCHANGED <<exch, native, call, latest, source, reply, calls>>

\* The peer of the upload fails.
UploadFails ==
    \E k \in DOMAIN requests :
        /\ Uploading(k)
        /\ requests' = [requests EXCEPT ![k].upload = "failed"]
        /\ UNCHANGED <<inbound, exch, native, call, latest, source, reply, calls>>

\* The head of the response.  HTTP/1 over a pooled sender is read only after the
\* request is written; the others are answered while the upload goes on.
ResponseReady(via) ==
    /\ call.pc = "await" /\ requests[Newest].via = via
    /\ requests[Newest].upload \in (IF via = "h1" THEN {"done"} ELSE {"done", "open"})

\* The end of start_outbound_exchange_response: the response is stored, and an
\* attached transport has been taken.
Store ==
    /\ Observed(call, Newest, FALSE)
    /\ latest' = IF call.h = Default THEN Newest ELSE latest
    /\ UNCHANGED <<inbound, requests, calls>>

RespondsNative ==
    /\ ResponseReady("h1") /\ call.use = "native"
    /\ native' = [active |-> TRUE, stored |-> Newest]
    /\ latest' = Newest
    /\ call' = Idle
    /\ UNCHANGED <<inbound, exch, requests, source, reply, calls>>

RespondsHttp1 ==
    /\ ResponseReady("h1") /\ call.use # "native"
    /\ Store
    /\ native' = IF FastPath(call.h) THEN [active |-> FALSE, stored |-> NoResponse] ELSE native

RespondsHttp2 == ResponseReady("h2") /\ Store /\ UNCHANGED native

RespondsHttp3 == ResponseReady("h3") /\ Store /\ UNCHANGED native

RespondsAttached == ResponseReady("attached") /\ Store /\ UNCHANGED native

\* The request fails: an error for the program, or the native forward's result.
RequestFails ==
    /\ call.pc \in {"try", "await"}
    /\ requests' = IF call.pc = "await" /\ Uploading(Newest)
                   THEN [requests EXCEPT ![Newest].upload = "failed"] ELSE requests
    /\ IF call.use = "native"
       THEN /\ native' = [active |-> TRUE, stored |-> Failed]
            /\ call' = Idle
            /\ UNCHANGED reply
       ELSE HostError /\ UNCHANGED native
    /\ UNCHANGED <<inbound, exch, latest, source, calls>>

-----------------------------------------------------------------------------
(* The answer.  Which response answers a program that ended well, with no  *)
(* local body: an exchange to start if its response is not there yet.      *)

\* Mutant: a stored native response is not looked for.
GraphWithoutNative ==
    IF source.of # "none" THEN [of |-> source.of, response |-> exch[source.of].response]
    ELSE [of |-> Default, response |-> exch[Default].response]

Graph ==
    IF native.stored # NoResponse THEN [of |-> "native", response |-> native.stored]
    ELSE IF source.of # "none" THEN [of |-> source.of, response |-> exch[source.of].response]
    ELSE [of |-> Default, response |-> exch[Default].response]

\* try_resolve_native_http1_downstream_response: the native response, unless the
\* program read the default exchange's body.
NativeAnswers == native.active /\ native.stored # NoResponse /\ ~exch[Default].read

\* try_resolve_snapshot_http1_downstream_response, unless the applied exchange's
\* body was read.
SnapshotAnswers == source.of = "none" \/ ~exch[source.of].read

Snapshot ==
    IF source.of # "none" THEN [of |-> source.of, response |-> exch[source.of].response]
    ELSE [of |-> Default, response |-> exch[Default].response]

\* resolve_http1_downstream_response: the first of the three that applies.
Shortcut ==
    IF NativeAnswers THEN [of |-> "native", response |-> native.stored]
    ELSE IF SnapshotAnswers THEN Snapshot ELSE Graph

\* The handler answers, through the graph or, on the HTTP/1 fast path, over the
\* shortcut; without a target there is no answer but "not found".
Choice(route) == IF route = "graph" THEN Graph ELSE Shortcut

ResolveNative(route) ==
    /\ call.pc = "idle"
    /\ Choice(route).of = "native"
    /\ native' = [active |-> FALSE, stored |-> NoResponse]
    /\ reply' = native.stored
    /\ call' = [pc |-> "over", use |-> route]
    /\ calls' = MaxCalls
    /\ UNCHANGED <<inbound, exch, requests, latest, source>>

ResolveExchange(route) ==
    /\ call.pc = "idle"
    /\ Choice(route).of # "native"
    /\ Start(Choice(route).of, route)
    /\ calls' = MaxCalls
    /\ UNCHANGED <<requests, latest>>

ExchangeNext ==
    \/ \E h \in ExchangeHandles :
           \/ SetTarget(h) \/ SetVersion(h) \/ SetBody(h) \/ Attach(h)
           \/ Send(h) \/ ReadResponse(h) \/ ApplyExchange(h)
    \/ ReadChunk \/ ReadBody \/ ReadFails
    \/ Forward \/ FallsBack \/ SendUpstream \/ UploadChunk \/ UploadBreaks \/ UploadFails
    \/ RespondsNative \/ RespondsHttp1 \/ RespondsHttp2 \/ RespondsHttp3 \/ RespondsAttached
    \/ RequestFails
    \/ \E route \in {"graph", "shortcut"} : ResolveNative(route) \/ ResolveExchange(route)

ExchangeSpec == ExchangeInit /\ [][ExchangeNext]_exchangeVars

-----------------------------------------------------------------------------
ExchangeTypeOK ==
    /\ inbound.offset <= inbound.buffered /\ inbound.buffered <= inbound.arrives
    /\ inbound.arrives <= inbound.length
    /\ native.stored \in 0 .. Failed /\ reply \in 0 .. Failed
    /\ \A h \in ExchangeHandles : exch[h].response \in 0 .. MaxRequests

\* Whatever a program read of the request before, however often the request was
\* made again or fell back to another transport, a request of the default
\* exchange that is sent to its end carries the whole inbound body once, or the
\* body set instead; a dynamic exchange carries its own body or none
\* (default_upstream_outbound_http1_request_body_template,
\* stream_remaining_inbound_request_body).  A client that fails midway is noticed:
\* a body that broke off goes out as if it were whole only after some reader has
\* been told the error (pull_next reports it once; a native forward stores it and
\* the exchange drops it and tries again), and then it is all that arrived.
\* Readers beside a running upload (the program, or the upload of a later request)
\* share its cursor, and the upload is not covered.
WholeBody ==
    \A k \in DOMAIN requests :
        requests[k].upload = "done" /\ ~requests[k].shared =>
            IF requests[k].own THEN requests[k].body = OwnBody
            ELSE IF requests[k].h # Default THEN requests[k].body = <<>>
            ELSE /\ requests[k].body = Arrived
                 /\ inbound.arrives = inbound.length \/ inbound.told

\* A client that is answered by the default upstream gets the last response it
\* gave, over a native forward or not, and an exchange holds the answer to a
\* request of its own (materialize_native_..., store_response).  The shortcut is
\* excepted once the program has read the body of the default exchange: it then
\* passes over a native response (try_resolve_native_http1_downstream_response).
AnswerIsLatest ==
    /\ reply \in DOMAIN requests /\ requests[reply].h = Default
          => reply = latest \/ (call.use = "shortcut" /\ exch[Default].read)
    /\ \A h \in ExchangeHandles : exch[h].response # NoResponse => requests[exch[h].response].h = h

\* The response of an exchange that a program applied to its own is what the
\* client is answered with, unless a later request is: a response that was there
\* before does not come back in its place.
AppliedIsAnswered ==
    source.of # "none" /\ reply \in 1 .. source.at => reply = source.response
=============================================================================
