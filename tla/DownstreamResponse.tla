------------------------- MODULE DownstreamResponse -------------------------
(***************************************************************************)
(* The response a program gives to one downstream HTTP request: the output *)
(* node the host functions of http::response fill                          *)
(* (abi_impl/http/response.rs and state/downstream_response.rs), the task  *)
(* that runs the program, the handler that waits for it                    *)
(* (runtime/http_plane/proxy_path.rs), and the client that reads the       *)
(* answer.                                                                 *)
(*                                                                         *)
(* A program that may stream runs in a task of its own; its handler waits  *)
(* for whichever comes first, the end of the program or the first          *)
(* committed byte of the stream.  Any other program is awaited to the end. *)
(* Program and handler share the output node under the downstream lock;    *)
(* an action here is one critical section of that lock, or one step        *)
(* between two of them.                                                    *)
(***************************************************************************)
EXTENDS Naturals, Sequences, FiniteSets

CONSTANTS
    Threshold,    \* pieces that fill IMPLICIT_DOWNSTREAM_RESPONSE_STREAM_CHUNK_BYTES
    MaxWrites,    \* bound: pieces of body the program writes
    MaxHostCalls      \* bound: calls to the host functions that write no piece

VARIABLES
    streams,    \* program_may_stream_downstream_http_response
    vm,         \* the program: run, notify, finish, notifyEnd, done, dropped
    result,     \* how the program ended
    out,        \* the HttpResponseOutputNode, the scheduled tunnel and the stored
                \* response of a native forward
    chan,       \* the stream's unbounded channel
    handler,    \* where the handler is
    answer,     \* the response handed to the connection
    client,     \* what the client has read of a streamed body
    writes,    \* history: the pieces the program's writes accepted
    commitHead, \* history: head and status when the stream was committed
    hostCalls       \* host calls made, for the bound

responseVars == <<streams, vm, result, out, chan, handler, answer, client, writes,
          commitHead, hostCalls>>

NoAnswer == [kind |-> "none"]
NoHead == [headers |-> {}, status |-> 0]
NoForward == [state |-> "none", headers |-> {}, status |-> 0]
Headers == {"type", "length", "user"}
Status == 0 .. 1    \* 0: not set

EmptyOutput ==
    [body |-> FALSE, source |-> FALSE, stream |-> FALSE, buffered |-> <<>>,
     committed |-> FALSE, finished |-> FALSE, headers |-> {}, status |-> 0,
     plan |-> FALSE, native |-> NoForward]

NewChannel == [items |-> <<>>, sender |-> TRUE, receiver |-> "stream"]

ResponseInit ==
    /\ streams \in BOOLEAN
    /\ vm = "run"
    /\ result = "none"
    /\ out = EmptyOutput
    /\ chan = NewChannel
    /\ handler = IF streams THEN "check" ELSE "execute"
    /\ answer = NoAnswer
    /\ client = [got |-> <<>>, state |-> "waiting"]
    /\ writes = <<>>
    /\ commitHead = NoHead
    /\ hostCalls = 0

-----------------------------------------------------------------------------
(* The program's host calls.  The program is one thread: it makes a call   *)
(* only after the notification of the call before it has been given.       *)

Call ==
    /\ vm = "run"
    /\ hostCalls < MaxHostCalls
    /\ hostCalls' = hostCalls + 1

\* A host function that returns an error ends the program.
HostError ==
    /\ vm' = "finish"
    /\ result' = "err"
    /\ UNCHANGED <<out, chan, writes, commitHead>>

Effect(o) ==
    /\ out' = o
    /\ UNCHANGED <<vm, result, chan, writes, commitHead>>

Others == UNCHANGED <<streams, handler, answer, client>>

\* proxy::forward to the default upstream: its response, or the error, is stored;
\* without a native forward the exchange has the response.
ForwardDefault ==
    /\ Call
    /\ \/ Effect(out)
       \/ /\ out.native.state = "none"
          /\ \E hs \in {{}, Headers} :
               Effect([out EXCEPT !.native = [state |-> "ok", headers |-> hs, status |-> 0]])
       \/ /\ out.native.state = "none"
          /\ Effect([out EXCEPT !.native.state = "err"])
    /\ Others

\* Nothing is in the way of a stored response: the head is set in it.
HeadIsNative ==
    /\ out.native.state = "ok"
    /\ ~out.plan /\ ~out.body /\ ~out.stream /\ ~out.source
    /\ out.status = 0 /\ out.headers = {}

\* insert_downstream_response_header(s); the head is refused once the stream is
\* committed.
SetHeader ==
    /\ Call
    /\ IF out.committed
       THEN HostError
       ELSE \E h \in Headers :
              Effect(IF HeadIsNative THEN [out EXCEPT !.native.headers = @ \cup {h}]
                     ELSE [out EXCEPT !.headers = @ \cup {h}])
    /\ Others

AddHeader ==
    /\ Call
    /\ IF out.committed
       THEN HostError
       ELSE \E h \in Headers : Effect([out EXCEPT !.headers = @ \cup {h}])
    /\ Others

ClearHeader ==
    /\ Call
    /\ IF out.committed
       THEN HostError
       ELSE \E h \in Headers : Effect([out EXCEPT !.headers = @ \ {h}])
    /\ Others

SetStatus ==
    /\ Call
    /\ IF out.committed THEN HostError
       ELSE Effect(IF HeadIsNative THEN [out EXCEPT !.native.status = 1]
                   ELSE [out EXCEPT !.status = 1])
    /\ Others

\* set_body is refused once a stream exists, committed or not.
SetBody ==
    /\ Call
    /\ IF out.stream
       THEN HostError
       ELSE Effect([out EXCEPT !.source = FALSE, !.body = TRUE,
                               !.headers = @ \cup {"length"}])
    /\ Others

\* apply_exchange: the exchange's status and headers, its body as the source.  The
\* default exchange, when it has no response, takes the one that is stored.
ApplyExchange ==
    /\ Call
    /\ IF out.stream
       THEN HostError
       ELSE \E hs \in {{}, Headers}, forward \in {out.native, NoForward} :
                Effect([out EXCEPT !.status = 1, !.body = FALSE, !.source = TRUE,
                                   !.headers = @ \cup hs, !.native = forward])
    /\ Others

\* get_body reads the source exchange's body into the node first.
GetBody ==
    /\ Call
    /\ IF out.stream
       THEN HostError
       ELSE IF out.source
       THEN Effect([out EXCEPT !.source = FALSE, !.body = TRUE,
                               !.headers = @ \cup {"length"}])
       ELSE Effect(out)
    /\ Others

\* schedule_downstream_post_response_plan, for a CONNECT or WebSocket tunnel.
SchedulePlan ==
    /\ Call
    /\ IF out.plan THEN HostError ELSE Effect([out EXCEPT !.plan = TRUE])
    /\ Others

-----------------------------------------------------------------------------
(* The stream.                                                             *)

\* The commit of a stream fixes, for the history, the head it was committed
\* with; only the commit itself raises a notification.
Commit(o, running, notifying) ==
    LET now == o.committed /\ ~out.committed
    IN  /\ vm' = IF now THEN notifying ELSE running
        /\ commitHead' = IF now THEN [headers |-> o.headers, status |-> o.status]
                                ELSE commitHead

\* sync_response_output_stream_headers and ensure_stream_mut.
Streaming == [out EXCEPT !.stream = TRUE, !.headers = @ \ {"length"}]
\* Mutant: the buffer is copied, not split off.
FlushedCopy(o) == [o EXCEPT !.committed = TRUE]

Flushed(o) == [o EXCEPT !.buffered = <<>>, !.committed = TRUE]

Refused(o) ==
    /\ out' = o
    /\ vm' = "finish"
    /\ result' = "err"
    /\ UNCHANGED <<chan, commitHead>>

\* flush_buffered on a node with something buffered: the buffered pieces go to
\* the channel as one chunk, unless the receiver is gone.
Flush(o) ==
    IF chan.receiver = "dropped"
    THEN Refused(Flushed(o))
    ELSE /\ out' = Flushed(o)
         /\ chan' = [chan EXCEPT !.items = @ \o o.buffered]
         /\ Commit(Flushed(o), "run", "notify")
         /\ UNCHANGED result

StreamStart ==
    /\ Call
    /\ IF out.body \/ out.source
       THEN HostError
       ELSE /\ IF out.finished
               THEN Refused(Streaming)
               ELSE LET o == [Streaming EXCEPT !.committed = TRUE]
                    IN  /\ out' = o
                        /\ Commit(o, "run", "notify")
                        /\ UNCHANGED <<result, chan>>
            /\ UNCHANGED writes
    /\ Others

\* write_downstream_response_stream_bytes of one more piece of body, with the
\* content type every non-empty write makes sure of.
StreamWrite(explicit) ==
    /\ vm = "run"
    /\ Len(writes) < MaxWrites
    /\ LET piece == Len(writes) + 1
           o == [Streaming EXCEPT !.headers = @ \cup {"type"}]
           full == [o EXCEPT !.buffered = Append(@, piece)]
       IN  IF out.body \/ out.source
           THEN HostError
           ELSE IF out.finished
           THEN Refused(o) /\ UNCHANGED writes
           ELSE /\ writes' = Append(writes, piece)
                /\ IF explicit \/ Len(full.buffered) >= Threshold
                   THEN Flush(full)
                   ELSE out' = full /\ UNCHANGED <<vm, result, chan, commitHead>>
    /\ UNCHANGED hostCalls
    /\ Others

\* A write of no bytes still opens the stream.
EmptyWrite ==
    /\ Call
    /\ IF out.body \/ out.source
       THEN HostError
       ELSE IF out.finished
       THEN Refused(Streaming) /\ UNCHANGED writes
       ELSE Effect(Streaming)
    /\ Others
\* DownstreamResponseBodyStream::finish: flush what is buffered, then drop the
\* sender.  If the flush fails the stream stays unfinished.
Finish(running, notifying, failed) ==
    IF ~out.stream \/ out.finished
    THEN vm' = running /\ UNCHANGED <<out, chan, result, commitHead>>
    ELSE IF out.buffered # <<>> /\ chan.receiver = "dropped"
    THEN /\ out' = Flushed(out)
         /\ failed
         /\ UNCHANGED <<chan, commitHead>>
    ELSE LET o == IF out.buffered = <<>> THEN out ELSE Flushed(out)
         IN  /\ out' = [o EXCEPT !.finished = TRUE]
             /\ chan' = [chan EXCEPT !.items = @ \o out.buffered, !.sender = FALSE]
             /\ Commit(o, running, notifying)
             /\ UNCHANGED result

StreamFinish ==
    /\ Call
    /\ Finish("run", "notify", vm' = "finish" /\ result' = "err")
    /\ UNCHANGED writes
    /\ Others

\* The lock is released before notify_waiters is called.
NotifyWaiters ==
    /\ vm \in {"notify", "notifyEnd"}
    /\ vm' = IF vm = "notify" THEN "run" ELSE "done"
    /\ handler' = IF handler = "wait" THEN "check" ELSE handler
    /\ UNCHANGED <<streams, result, out, chan, answer, client, writes, commitHead, hostCalls>>

-----------------------------------------------------------------------------
(* The end of the program, run_prepared_data_plane_http_request_context.   *)

ProgramEnds ==
    /\ vm = "run"
    /\ vm' = "finish"
    /\ result' \in {"ok", "err"}
    /\ UNCHANGED <<streams, out, chan, handler, answer, client, writes, commitHead, hostCalls>>

\* The stream is finished whatever the result; an error of the flush is ignored.
FinishAfterRun ==
    /\ vm = "finish"
    /\ Finish("done", "notifyEnd", vm' = "done" /\ UNCHANGED result)
    /\ UNCHANGED <<writes, hostCalls>>
    /\ Others

-----------------------------------------------------------------------------
(* The handler, handle_data_plane_http_request_context.                    *)

HandlerOnly == UNCHANGED <<streams, vm, result, writes, commitHead, hostCalls>>

\* wait_for_response_stream reads the committed flag ...
CheckCommitted ==
    /\ handler = "check"
    /\ handler' = IF out.committed THEN "resolve" ELSE "subscribe"
    /\ UNCHANGED <<out, chan, answer, client>>
    /\ HandlerOnly

\* ... and only then creates the Notified future that a notification wakes.
Subscribe ==
    /\ handler = "subscribe"
    /\ handler' = "wait"
    /\ UNCHANGED <<out, chan, answer, client>>
    /\ HandlerOnly

Deliver(a) ==
    /\ answer' = a
    /\ handler' = "done"
    /\ client' = [client EXCEPT !.state = IF a.kind = "stream" THEN "reading" ELSE "answered"]
\* Mutant: the end of the program is looked at only before waiting.
JoinUnlessWaiting ==
    /\ handler \in {"check", "execute"}
    /\ vm = "done"
    /\ IF result = "ok"
       THEN handler' = "resolve" /\ UNCHANGED <<answer, client>>
       ELSE Deliver([kind |-> "error", headers |-> {}, status |-> 1])
    /\ UNCHANGED <<out, chan>>
    /\ HandlerOnly

\* The other branch of select!, or the plain await of a program that cannot
\* stream: the program has ended.
JoinProgram ==
    /\ handler \in {"check", "wait", "execute"}
    /\ vm = "done"
    /\ IF result = "ok"
       THEN handler' = "resolve" /\ UNCHANGED <<answer, client>>
       ELSE Deliver([kind |-> "error", headers |-> {}, status |-> 1])
    /\ UNCHANGED <<out, chan>>
    /\ HandlerOnly

\* take_receiver, for a committed stream; only a streamed response keeps it.
TakeReceiver(kind) ==
    chan' = IF ~out.committed
            THEN chan
            ELSE [chan EXCEPT !.receiver = IF kind = "stream" THEN "response" ELSE "dropped"]

\* Mutant: a local body answers before a scheduled tunnel.
ResolveBodyFirst ==
    /\ handler = "resolve"
    /\ \E kind \in IF out.body THEN {"local"}
                  ELSE IF out.plan THEN {"tunnel", "refused"}
                  ELSE IF out.committed THEN {"stream"}
                  ELSE {"upstream"} :
           /\ Deliver([kind |-> kind, headers |-> out.headers, status |-> out.status])
           /\ out' = [out EXCEPT !.plan = out.plan /\ kind = "local"]
           /\ TakeReceiver(kind)
    /\ HandlerOnly

\* resolve_http_graph_response_inner: a committed stream's receiver is taken,
\* then the first of tunnel, local body, stream and upstream answers.  The
\* finish that precedes it when the program has ended finds the stream
\* finished.  A WebSocket tunnel whose request has no key is refused.  The upstream
\* answers stand for the exchange, the default upstream and 404; a stored response
\* goes before them.
Resolve ==
    /\ handler = "resolve"
    /\ out.plan \/ out.body \/ out.stream \/ out.native.state = "none"
    /\ \E kind \in IF out.plan THEN {"tunnel", "refused"}
                  ELSE IF out.body THEN {"local"}
                  ELSE IF out.committed THEN {"stream"}
                  ELSE {"upstream"} :
           /\ Deliver([kind |-> kind, headers |-> out.headers, status |-> out.status])
           /\ out' = [out EXCEPT !.plan = FALSE]
           /\ TakeReceiver(kind)
    /\ HandlerOnly

\* The stored response answers with the head of the node over its own; behind a
\* stream that was never committed only when the default exchange has none.
ResolveNative ==
    /\ handler = "resolve"
    /\ ~out.plan /\ ~out.body /\ ~out.committed
    /\ out.native.state = "ok" \/ (out.native.state = "err" /\ ~out.stream)
    /\ IF out.native.state = "ok"
       THEN Deliver([kind |-> "native", headers |-> out.native.headers \cup out.headers,
                     status |-> IF out.status = 0 THEN out.native.status ELSE out.status])
       ELSE Deliver([kind |-> "failed", headers |-> {}, status |-> 1])
    /\ out' = [out EXCEPT !.native = NoForward, !.headers = {}, !.status = 0]
    /\ UNCHANGED chan
    /\ HandlerOnly

-----------------------------------------------------------------------------
(* The client.                                                             *)

ClientReads ==
    /\ client.state = "reading"
    /\ chan.items # <<>>
    /\ client' = [client EXCEPT !.got = Append(@, Head(chan.items))]
    /\ chan' = [chan EXCEPT !.items = Tail(@)]
    /\ UNCHANGED <<out, handler, answer>>
    /\ HandlerOnly

\* The body ends when the channel is empty and its sender dropped.
ClientSeesEnd ==
    /\ client.state = "reading"
    /\ chan.items = <<>>
    /\ ~chan.sender
    /\ client' = [client EXCEPT !.state = "ended"]
    /\ UNCHANGED <<out, chan, handler, answer>>
    /\ HandlerOnly

\* The connection closes: the handler's future is dropped, and with it a
\* program it awaits; the task of a program that may stream runs on.
ClientLeaves ==
    /\ client.state \in {"waiting", "reading"}
    /\ client' = [client EXCEPT !.state = "gone"]
    /\ chan' = IF chan.receiver = "response"
               THEN [chan EXCEPT !.receiver = "dropped", !.items = <<>>]
               ELSE chan
    /\ handler' = IF handler = "done" THEN "done" ELSE "dropped"
    /\ vm' = IF streams \/ vm = "done" THEN vm ELSE "dropped"
    /\ UNCHANGED <<streams, result, out, answer, writes, commitHead, hostCalls>>

-----------------------------------------------------------------------------
Program ==
    \/ ForwardDefault \/ SetHeader \/ AddHeader \/ ClearHeader \/ SetStatus \/ SetBody \/ ApplyExchange
    \/ GetBody \/ SchedulePlan
    \/ StreamStart \/ EmptyWrite \/ StreamFinish
    \/ \E explicit \in BOOLEAN : StreamWrite(explicit)
    \/ ProgramEnds

Handler == CheckCommitted \/ Subscribe \/ JoinProgram \/ ResolveNative \/ Resolve

ResponseNext ==
    \/ Program \/ NotifyWaiters \/ FinishAfterRun
    \/ Handler
    \/ ClientReads \/ ClientSeesEnd \/ ClientLeaves

ResponseSpec == ResponseInit /\ [][ResponseNext]_responseVars

\* The runtime polls the handler and the end of a program that has returned;
\* nothing makes a program return, or a client read.
ResponseFairSpec ==
    /\ ResponseSpec
    /\ WF_responseVars(NotifyWaiters)
    /\ WF_responseVars(FinishAfterRun)
    /\ WF_responseVars(Handler)

-----------------------------------------------------------------------------
ResponseTypeOK ==
    /\ streams \in BOOLEAN
    /\ vm \in {"run", "notify", "finish", "notifyEnd", "done", "dropped"}
    /\ result \in {"none", "ok", "err"}
    /\ out \in [body : BOOLEAN, source : BOOLEAN, stream : BOOLEAN,
                buffered : Seq(1 .. MaxWrites), committed : BOOLEAN,
                finished : BOOLEAN, headers : SUBSET Headers, status : Status,
                plan : BOOLEAN,
                native : [state : {"none", "ok", "err"}, headers : SUBSET Headers,
                          status : Status]]
    /\ chan \in [items : Seq(1 .. MaxWrites), sender : BOOLEAN,
                 receiver : {"stream", "response", "dropped"}]
    /\ handler \in {"check", "subscribe", "wait", "execute", "resolve", "done", "dropped"}
    /\ answer \in {NoAnswer} \cup
                  [kind : {"error", "tunnel", "refused", "local", "stream",
                           "native", "failed", "upstream"},
                   headers : SUBSET Headers, status : Status]
    /\ client \in [got : Seq(1 .. MaxWrites),
                   state : {"waiting", "reading", "answered", "ended", "gone"}]
    /\ writes \in Seq(1 .. MaxWrites)
    /\ commitHead \in [headers : SUBSET Headers, status : Status]
    /\ hostCalls \in 0 .. MaxHostCalls

\* What the client has read, what is in the channel and what is buffered are
\* together what the program wrote, in the order it wrote it, as long as the
\* receiver exists (write_bytes, flush_buffered, take_receiver); and a client that
\* sees the body end without having left has it all, and the program can add
\* nothing (finish drops the sender only after the last flush).  No other body
\* displaces it: the guards of set_body, apply_exchange and the stream calls keep
\* a stream apart from a local body and from that of an exchange.
NothingLost ==
    /\ ~(out.stream /\ (out.body \/ out.source)) /\ ~(out.body /\ out.source)
    /\ chan.receiver # "dropped" =>
           client.got \o chan.items \o out.buffered = writes
    /\ client.state = "ended" => client.got = writes /\ out.finished

\* The client is answered with what the program left, however late the handler
\* resolves it: the status and the program's own headers of a streamed response
\* are those its stream was committed with
\* (ensure_downstream_response_head_mutable; the two headers the stream calls
\* manage themselves are not covered), an error is answered for a failure of the
\* program and for nothing else, and a program that ended well and streamed
\* nothing leaves no tunnel behind: its plan, which holds the context that
\* holds it, is taken with the response.
AnswerKept ==
    /\ answer.kind = "stream" =>
           /\ "user" \in answer.headers <=> "user" \in commitHead.headers
           /\ answer.status = commitHead.status
    /\ answer.kind = "error" => result = "err"
    /\ handler = "done" /\ result = "err" /\ ~out.committed => answer.kind = "error"
    /\ handler = "done" /\ out.plan => result = "err" \/ out.committed

\* A program that has ended is answered: whatever notification was missed, the
\* handler sees the end of the task.
Answered == vm = "done" ~> handler \in {"done", "dropped"}

\* The response of a stream goes out when it is committed, without waiting for
\* the program to end.
StreamedEarly == (streams /\ out.committed) ~> handler \in {"done", "dropped"}
=============================================================================
