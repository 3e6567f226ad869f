------------------------------ MODULE FastPath ------------------------------
(***************************************************************************)
(* The HTTP/1 keep-alive loop of runtime/http_plane/http1_fast_path.rs.    *)
(* The loop parses a request head, leases the connection to the request's  *)
(* body, runs the program (which reads the body, or uploads it to an       *)
(* upstream from a task of its own), takes the connection back by draining *)
(* what is left of the body, writes the response and starts over.          *)
(*                                                                         *)
(* The client's bytes are tokens: a whole request head, one body byte, a   *)
(* chunk-size line, a chunk terminator, or the blank line after the        *)
(* trailers.  The socket and the connection's read buffer are one          *)
(* sequence: a read waits until it is not empty.                           *)
(***************************************************************************)
EXTENDS Naturals, Sequences

CONSTANTS Scripts,  \* what clients may send: sequences of requests
          Budget    \* MAX_DOWNSTREAM_HTTP1_FAST_BODY_BYTES

VARIABLES
    wire,     \* tokens the client has still to send
    arrived,  \* tokens received and not consumed
    fin,      \* how the client's direction stands: "open", "eof" or "reset"
    at,       \* where the loop is
    req,      \* the request being served
    lease,    \* FastHttp1RequestBodyState: framing, budget, terminal error, lock
    reader,   \* whoever reads the request body for the program: what it got, and
              \* whether it was told that the body failed
    written,  \* the response written last
    lost      \* a reader met an oversized chunk (history)

fastVars == <<wire, arrived, fin, at, req, lease, reader, written, lost>>

-----------------------------------------------------------------------------
\* A request is [body, sizes, keep, fast, bad]: the framing of its body, the
\* chunk sizes (one for a fixed body, none for an empty one), whether it asks
\* to keep the connection, whether the fast path takes it, and whether its
\* last chunk terminator is malformed.
Token(t, n, r) == [t |-> t, n |-> n, req |-> r]
Run(n, tok) == [k \in 1..n |-> tok]

Requests == UNION {{s[k] : k \in DOMAIN s} : s \in Scripts}

ChunkTokens[r \in Requests, k \in Nat] ==
    IF k > Len(r.sizes) THEN <<>>
    ELSE <<Token("size", r.sizes[k], r)>> \o Run(r.sizes[k], Token("data", 1, r))
         \o <<Token(IF r.bad /\ k = Len(r.sizes) THEN "junk" ELSE "crlf", 0, r)>>
         \o ChunkTokens[r, k + 1]

Tokens(r) ==
    <<Token("head", 0, r)>> \o
    CASE r.body = "empty"   -> <<>>
      [] r.body = "fixed"   -> Run(r.sizes[1], Token("data", 1, r))
      [] r.body = "chunked" -> ChunkTokens[r, 1] \o
                               <<Token("size", 0, r), Token("blank", 0, r)>>

Stream[s \in Scripts, k \in Nat] ==
    IF k > Len(s) THEN <<>> ELSE Tokens(s[k]) \o Stream[s, k + 1]

BodyBytes(r) == LET Sum[k \in 0..Len(r.sizes)] ==
                        IF k = 0 THEN 0 ELSE Sum[k - 1] + r.sizes[k]
                IN  Sum[Len(r.sizes)]

Fixed(n) == [form |-> "fixed", left |-> n]
Chunked(state, n) == [form |-> state, left |-> n]

NoLease == [kind |-> Fixed(0), budget |-> 0, error |-> "none", held |-> "free"]
NoReader == [st |-> "none", upload |-> FALSE, got |-> 0, told |-> FALSE]
NoResponse == [keep |-> FALSE, framed |-> TRUE, known |-> FALSE, status |-> "none"]

FastInit ==
    /\ \E s \in Scripts : wire = Stream[s, 1] /\ req = s[1]
    /\ arrived = <<>>
    /\ fin = "open"
    /\ at = "head"
    /\ lease = NoLease
    /\ reader = NoReader
    /\ written = NoResponse
    /\ lost = FALSE

-----------------------------------------------------------------------------
\* The client.
ClientSends ==
    /\ fin = "open" /\ wire # <<>>
    /\ wire' = Tail(wire)
    /\ arrived' = Append(arrived, Head(wire))
    /\ UNCHANGED <<fin, at, req, lease, reader, written, lost>>

ClientCloses ==
    /\ fin = "open"
    /\ fin' \in {"eof", "reset"}
    /\ UNCHANGED <<wire, arrived, at, req, lease, reader, written, lost>>

-----------------------------------------------------------------------------
\* classify_downstream_http1_fast_body_lazy: how the body will be framed.
BodyKind(r) == IF r.body = "chunked" THEN Chunked("size", 0)
               ELSE Fixed(BodyBytes(r))

\* read_next_fast_http1_request: an eligible head is consumed and the
\* connection is leased to its body; anything else goes to hyper, with every
\* byte read so far replayed.
ReadHead ==
    /\ at = "head" /\ arrived # <<>>
    /\ LET tok == Head(arrived)
       IN  IF tok.t = "head" /\ tok.req.fast
           THEN /\ arrived' = Tail(arrived)
                /\ req' = tok.req
                /\ lease' = [kind |-> BodyKind(tok.req), budget |-> Budget,
                             error |-> "none", held |-> "free"]
                /\ at' = "serve"
           ELSE /\ at' = "hyper"
                /\ UNCHANGED <<arrived, req, lease>>
    /\ reader' = NoReader
    /\ UNCHANGED <<wire, fin, written, lost>>

EndOfStream ==
    /\ at = "head" /\ arrived = <<>> /\ fin # "open"
    /\ at' = "closed"
    /\ UNCHANGED <<wire, arrived, fin, req, lease, reader, written, lost>>

\* Without a program the request is answered 404 as soon as its body is drained.
NoProgram ==
    /\ at = "serve"
    /\ at' = "finish"
    /\ written' = [written EXCEPT !.status = "404"]
    /\ UNCHANGED <<wire, arrived, fin, req, lease, reader, lost>>

\* run_prepared_data_plane_http_request_context: the program starts.
RunProgram ==
    /\ at = "serve"
    /\ at' = "run"
    /\ \E upload \in BOOLEAN : reader' = [NoReader EXCEPT !.st = "idle", !.upload = upload]
    /\ written' = [written EXCEPT !.status = "program"]
    /\ UNCHANGED <<wire, arrived, fin, req, lease, lost>>

-----------------------------------------------------------------------------
\* FastHttp1RequestBodyState::pull_next, one turn of its loop: what happens
\* (out), the framing state left behind, and what is consumed.  The framing
\* state is taken out before the turn and only put back on the way through:
\* an end of body, a read error and an oversized chunk all leave Fixed(0), the
\* last one without a remembered error.
Turn(out, kind, used) == [out |-> out, kind |-> kind, used |-> used,
                          budget |-> lease.budget, error |-> lease.error]
\* Mutant: an end of stream in the middle of a body goes unnoticed.
StarvedForever(kind) == Turn(IF fin = "reset" THEN "io" ELSE "wait", kind, 0)

\* Mutant: the end of the stream is the end of the body.
StarvedIsEnd(kind) ==
    CASE fin = "open"  -> Turn("wait", kind, 0)
      [] fin = "eof"   -> Turn("eof", Fixed(0), 0)
      [] fin = "reset" -> Turn("io", Fixed(0), 0)

Starved(kind) ==
    CASE fin = "open"  -> Turn("wait", kind, 0)
      [] fin = "eof"   -> [Turn("bad", Fixed(0), 0) EXCEPT !.error = "bad"]
      [] fin = "reset" -> Turn("io", Fixed(0), 0)

\* The tokens of the run of data at the front, at most n of them.
Available(n) ==
    LET m == IF n < Len(arrived) THEN n ELSE Len(arrived)
    IN  CHOOSE k \in 0..m : /\ \A j \in 1..k : arrived[j].t = "data"
                            /\ k < m => arrived[k + 1].t # "data"

PullFixed(kind) ==
    IF kind.left = 0 THEN Turn("eof", Fixed(0), 0)
    ELSE IF arrived = <<>> THEN Starved(kind)
    ELSE LET k == Available(kind.left) IN Turn("chunk", Fixed(kind.left - k), k)

PullSize(kind) ==
    IF arrived = <<>> THEN Starved(kind)
    ELSE LET n == Head(arrived).n
         IN  IF n = 0 THEN Turn("more", Chunked("trailers", 0), 1)
             ELSE IF n > lease.budget THEN Turn("large", Fixed(0), 1)
             ELSE [Turn("more", Chunked("data", n), 1)
                      EXCEPT !.budget = lease.budget - n]

PullData(kind) ==
    IF arrived = <<>> THEN Starved(kind)
    ELSE LET k == Available(kind.left)
         IN  Turn("chunk", IF k = kind.left THEN Chunked("terminator", 0)
                           ELSE Chunked("data", kind.left - k), k)

PullTerminator(kind) ==
    IF arrived = <<>> THEN Starved(kind)
    ELSE IF Head(arrived).t = "crlf" THEN Turn("more", Chunked("size", 0), 1)
    ELSE [Turn("bad", Fixed(0), 1) EXCEPT !.error = "bad"]

PullTrailers(kind) ==
    IF arrived = <<>> THEN Starved(kind) ELSE Turn("eof", Fixed(0), 1)

PullNext ==
    IF lease.error # "none" THEN Turn("bad", lease.kind, 0)
    ELSE LET kind == lease.kind
         IN  CASE kind.form = "fixed"      -> PullFixed(kind)
               [] kind.form = "size"       -> PullSize(kind)
               [] kind.form = "data"       -> PullData(kind)
               [] kind.form = "terminator" -> PullTerminator(kind)
               [] kind.form = "trailers"   -> PullTrailers(kind)

Consume(o, held) ==
    /\ arrived' = SubSeq(arrived, o.used + 1, Len(arrived))
    /\ lease' = [kind |-> o.kind, budget |-> o.budget, error |-> o.error, held |-> held]

\* FastHttp1RequestBodyLease::new: the body's stream locks the lease for one
\* pull.  A stream left in the middle of a pull keeps its lock, and goes on
\* from there when somebody polls it again.
PullBegins ==
    /\ at = "run" \/ (reader.upload /\ at \in {"finish", "drain", "write"})
    /\ \/ reader.st = "idle" /\ lease.held = "free"
       \/ reader.st = "left" /\ at = "run"
    /\ reader' = [reader EXCEPT !.st = "pulling"]
    /\ lease' = [lease EXCEPT !.held = "reader"]
    /\ UNCHANGED <<wire, arrived, fin, at, req, written, lost>>

ReaderPulls ==
    /\ reader.st = "pulling"
    /\ LET o == PullNext
       IN  /\ o.out # "wait"
           /\ Consume(o, IF o.out = "more" THEN "reader" ELSE "free")
           /\ reader' = [reader EXCEPT
                            !.st = CASE o.out = "more"  -> "pulling"
                                     [] o.out = "chunk" -> "idle"
                                     [] o.out = "eof"   -> "ended"
                                     [] OTHER           -> "failed",
                            !.got = IF o.out = "chunk" THEN @ + o.used ELSE @,
                            !.told = @ \/ o.out \in {"bad", "io", "large"}]
           /\ lost' = (lost \/ o.out = "large")
    /\ UNCHANGED <<wire, fin, at, req, written>>

\* The body's stream is over once it has yielded an error: whoever pulls again is
\* told that the body has ended, and the lease is not looked at.  A failed read
\* of its own ends the program; after a failed upload the program may read on.
PullAfterError ==
    /\ at = "run" /\ reader.st = "failed" /\ reader.upload
    /\ reader' = [reader EXCEPT !.st = "ended"]
    /\ UNCHANGED <<wire, arrived, fin, at, req, lease, written, lost>>

\* The upstream resets the upload's stream while the upload waits for the
\* client: the upload is dropped, the body's stream (kept by the request's
\* context) is not, and with it the lock it holds.
UploadDropped ==
    /\ reader.st = "pulling" /\ reader.upload
    /\ PullNext.out = "wait"
    /\ reader' = [reader EXCEPT !.st = "left"]
    /\ UNCHANGED <<wire, arrived, fin, at, req, lease, written, lost>>

\* The program ends: its own reads are over, an upload may still be running.
RunEnds ==
    /\ at = "run"
    /\ reader.st = "pulling" => reader.upload
    /\ at' = "finish"
    /\ UNCHANGED <<wire, arrived, fin, req, lease, reader, written, lost>>

-----------------------------------------------------------------------------
\* FastHttp1RequestBodyLease::finish: lock the lease, drain the body, take the
\* connection back.  A request without a body has no lease.
FinishBegins ==
    /\ at = "finish"
    /\ IF req.body = "empty" THEN at' = "write" /\ UNCHANGED lease
       ELSE /\ lease.held = "free"
            /\ lease' = [lease EXCEPT !.held = "finish"]
            /\ at' = "drain"
    /\ UNCHANGED <<wire, arrived, fin, req, reader, written, lost>>

Drain ==
    /\ at = "drain"
    /\ LET o == PullNext
       IN  /\ o.out # "wait"
           /\ Consume(o, IF o.out \in {"more", "chunk"} THEN "finish" ELSE "free")
           /\ at' = CASE o.out \in {"more", "chunk"} -> "drain"
                      [] o.out = "eof"               -> "write"
                      [] OTHER                       -> "closed"
           /\ written' =
                 CASE o.out = "bad"   -> [NoResponse EXCEPT !.status = "400"]
                   [] o.out = "large" -> [NoResponse EXCEPT !.status = "413"]
                   [] o.out = "io"    -> [NoResponse EXCEPT !.status = "none"]
                   [] OTHER           -> written
    /\ UNCHANGED <<wire, fin, req, reader, lost>>

\* The four response writers.  A response is [by, ten, body, len, sized,
\* chunked, conn]: the writer, HTTP/1.0 or not, whether it carries a body, the
\* content-length and transfer-encoding headers, a length known without a
\* header (for the snapshot writer: a body known to be empty), and the
\* connection header.
Responses ==
    {r \in [by : {"local", "native", "snapshot", "graph"}, ten : BOOLEAN,
            body : BOOLEAN, len : BOOLEAN, sized : BOOLEAN, chunked : BOOLEAN,
            conn : {"none", "close", "keep-alive"}] :
        /\ r.by = "snapshot" => ~r.ten
        /\ r.by = "graph" => ~r.sized}

ContentLength(r) == \/ r.len
                    \/ r.by = "local"
                    \/ r.by = "native" /\ r.sized /\ ~r.chunked

\* A body with neither header: closed after on HTTP/1.0, chunked on HTTP/1.1.
Undelimited(r) == /\ r.body /\ ~ContentLength(r) /\ ~r.chunked
                  /\ r.by = "snapshot" => ~r.sized

\* http1_connection_keep_alive.
ConnectionKeepAlive(r) ==
    IF r.ten THEN r.conn = "keep-alive" ELSE r.conn # "close"

\* Mutant: a 1.0 response without a length keeps the connection.
KeepAliveAnyway(keep, r) == keep /\ ConnectionKeepAlive(r)

KeepAlive(keep, r) == /\ keep /\ ConnectionKeepAlive(r)
                      /\ ~(Undelimited(r) /\ r.ten)

\* Each resolution of the response has its writer; a 404 is a local response.
Writes(by) ==
    /\ at = "write"
    /\ written.status = "404" => by = "local"
    /\ \E r \in {r \in Responses : r.by = by} :
          LET keep == KeepAlive(req.keep, r)
          IN  /\ written' = [keep   |-> keep,
                             framed |-> \/ ~r.body \/ ContentLength(r) \/ r.chunked
                                        \/ Undelimited(r) /\ ~r.ten,
                             known  |-> by = "snapshot" /\ r.sized,
                             status |-> written.status]
              /\ at' = IF keep THEN "head" ELSE "closed"
    /\ UNCHANGED <<wire, arrived, fin, req, lease, reader, lost>>

WriteLocal == Writes("local")
WriteNative == Writes("native")
WriteSnapshot == Writes("snapshot")
WriteGraph == Writes("graph")

WriteFails ==
    /\ at = "write"
    /\ at' = "closed"
    /\ written' = NoResponse
    /\ UNCHANGED <<wire, arrived, fin, req, lease, reader, lost>>

-----------------------------------------------------------------------------
Client == ClientSends \/ ClientCloses
Loop == \/ ReadHead \/ EndOfStream \/ NoProgram \/ RunProgram \/ RunEnds
        \/ FinishBegins \/ Drain
        \/ WriteLocal \/ WriteNative \/ WriteSnapshot \/ WriteGraph \/ WriteFails
Reader == PullBegins \/ ReaderPulls \/ PullAfterError

FastNext == Client \/ Loop \/ Reader \/ UploadDropped

FastSpec == FastInit /\ [][FastNext]_fastVars

\* The client sends on or closes; the connection's task and the body's reader
\* are scheduled by tokio; a program ends.
FastFairSpec == /\ FastSpec
                /\ WF_fastVars(Client) /\ WF_fastVars(Loop) /\ WF_fastVars(ReaderPulls)
                /\ WF_fastVars(RunEnds)

-----------------------------------------------------------------------------
Rest == arrived \o (IF fin = "open" THEN wire ELSE <<>>)

\* Whenever the loop looks for the next request, or hands the connection to
\* hyper, what comes next on the connection is a request head or nothing: the
\* body of the request before has been consumed to its last byte, whoever read
\* it and however far.  A chunk too large for the budget that the program's
\* own read ran into is the exception, since that error is not remembered.  And
\* after a response that keeps the connection, the client can tell where the
\* response ended; a snapshot whose body the program has already found empty
\* is the exception: neither header is written.
KeepsFraming ==
    /\ at \in {"head", "hyper"} /\ ~lost => (Rest # <<>> => Head(Rest).t = "head")
    /\ written.keep => written.framed \/ written.known

\* A reader told that the body has ended has had every byte of it, unless the
\* loop has drained the body meanwhile: whatever cuts a body short is an error
\* for the reader that meets it.  It is an error only once.  A reader that comes
\* after it is told of an end, and is excepted (FastHttp1RequestBodyLease::new,
\* body_io.rs pull_next).
BodyIsWhole ==
    at = "run" /\ reader.st = "ended" /\ ~reader.told => reader.got = BodyBytes(req)

\* A request is answered, or its connection closed, however the client behaves
\* and wherever its upload is reset, unless an upload was dropped in the
\* middle of a pull and nobody reads the body on.
Served == (at \notin {"head", "hyper", "closed"}) ~>
          (at \in {"head", "hyper", "closed"} \/ reader.st = "left")
=============================================================================
