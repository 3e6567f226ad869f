-------------------------- MODULE EdgeRuntimeProofs --------------------------
(***************************************************************************)
(* For any number of requests, programs, sessions and slices: requests run *)
(* on VMs of their own, a removed remote session has its bridge closed, a  *)
(* debugger that was announced pauses on a blocking thread, and recordings *)
(* reach the control plane in order.                                       *)
(***************************************************************************)
EXTENDS EdgeRuntime, FiniteSetTheorems, TLAPS

Outboxes == Seq(Artifacts)

SessionRecords ==
    [mode : Modes, match : MatchSets, open : BOOLEAN, holder : Requests \cup {None},
     captured : Nat, next : Nat, completed : BOOLEAN, outbox : Outboxes]

RequestRecords ==
    [pc : {"new", "ask", "askBlocking", "acquire", "slice", "run", "lock", "debug",
           "paused", "detach", "record", "await", "recycle", "done"},
     prog : 0 .. MaxPrograms, attach : BOOLEAN, blocking : BOOLEAN,
     asked : Sessions \cup {None}, vm : Vms, dbg : Sessions \cup {None},
     slices : 0 .. MaxSlices, status : Statuses \cup {"none"}]

\* The store: sessions are numbered, and the one in the slot is one of them.
StoreInv ==
    /\ sess \in Seq(SessionRecords)
    /\ Len(sess) <= MaxSessions
    /\ slot # None => slot \in DOMAIN sess
    /\ RemovedIsClosed

\* A request that is at x, beside the sessions ss: what it holds, which sessions it
\* knows, and that the one it was told of makes it block.
Good(r, x, ss) ==
    /\ x \in RequestRecords
    /\ x.pc \notin {"new", "done"} => x.prog \in Programs
    /\ x.pc \in Owning => x.vm.prog = x.prog /\ x.vm.bridge = r
    /\ x.pc \in InDebugger \cup {"detach", "record"} => x.dbg # None
    /\ x.pc = "detach" => x.status \in Statuses
    /\ x.dbg # None => x.dbg \in DOMAIN ss
    /\ x.pc \in InDebugger \cup {"detach"} =>
         r \in ss[x.dbg].match /\ ss[x.dbg].mode # "recording"
    /\ x.asked # None =>
         /\ x.asked \in DOMAIN ss
         /\ r \in ss[x.asked].match /\ ss[x.asked].mode # "recording" => x.blocking

RequestsInv ==
    /\ req = [r \in Requests |-> req[r]]
    /\ \A r \in Requests : Good(r, req[r], sess)

PoolInv ==
    /\ pool \in [Programs -> Seq(Vms)]
    /\ \A p \in Programs : Len(pool[p]) <= PoolMax
    /\ \A p \in Programs : \A i \in DOMAIN pool[p] : pool[p][i] = NewVm(p)

ClientInv ==
    /\ cp \in [pc : {"poll", "command", "drain", "send"},
               target : Sessions \cup {None}, queue : Seq(Artifacts)]
    /\ cp.pc = "send" => cp.queue # <<>>
    /\ delivered \in Seq(Artifacts)

IInv ==
    /\ StoreInv
    /\ RequestsInv
    /\ PoolInv
    /\ ClientInv
    /\ program \in 0 .. MaxPrograms

\* No step forgets a session or changes whom it matches.
Grows(ss, tt) ==
    /\ DOMAIN ss \subseteq DOMAIN tt
    /\ \A s \in DOMAIN ss : tt[s].mode = ss[s].mode /\ tt[s].match = ss[s].match

LEMMA GoodGrows ==
    ASSUME NEW r, NEW x, NEW ss, NEW tt, Good(r, x, ss), Grows(ss, tt)
    PROVE  Good(r, x, tt)
BY Zenon DEF Good, Grows

-----------------------------------------------------------------------------
(* The store.                                                              *)

LEMMA StartStep == ASSUME StoreInv, StartSession PROVE StoreInv' /\ Grows(sess, sess')
<1>1. PICK mode \in Modes, match \in MatchSets : sess' = Append(sess, NewSession(mode, match))
  BY Zenon DEF StartSession
<1>2. NewSession(mode, match) \in SessionRecords
  BY DEF NewSession, SessionRecords, Outboxes
<1>3. sess \in Seq(SessionRecords) /\ slot = None /\ slot' = Len(sess) + 1
        /\ Len(sess) < MaxSessions
  BY Zenon DEF StoreInv, StartSession
<1>4. /\ sess' \in Seq(SessionRecords) /\ Len(sess') = Len(sess) + 1
      /\ \A s \in DOMAIN sess : sess'[s] = sess[s]
      /\ DOMAIN sess' = DOMAIN sess \cup {Len(sess) + 1}
  BY <1>1, <1>2, <1>3
<1>5. \A s \in DOMAIN sess : sess[s].mode = "remote" => ~sess[s].open
  BY <1>3, SessionAssumption DEF StoreInv, RemovedIsClosed
<1>6. RemovedIsClosed'
  BY <1>3, <1>4, <1>5, Zenon DEF RemovedIsClosed
<1>7. QED
  BY <1>3, <1>4, <1>6, SessionAssumption DEF StoreInv, Grows

\* One session's record is replaced by one that differs in nothing a request asks.
LEMMA RecordStep ==
    ASSUME StoreInv, NEW s \in DOMAIN sess, NEW x \in SessionRecords,
           x.mode = sess[s].mode, x.match = sess[s].match,
           sess' = [sess EXCEPT ![s] = x],
           slot' \in {slot, None},
           x.open => x.mode # "remote" \/ slot' = s,
           slot' = None => slot \in {None, s}
    PROVE  StoreInv' /\ Grows(sess, sess')
<1>1. /\ sess' \in Seq(SessionRecords) /\ Len(sess') = Len(sess) /\ DOMAIN sess' = DOMAIN sess
      /\ \A t \in DOMAIN sess : sess'[t] = IF t = s THEN x ELSE sess[t]
  BY DEF StoreInv
<1>2. RemovedIsClosed'
  BY <1>1, Zenon DEF StoreInv, RemovedIsClosed
<1>3. QED
  BY <1>1, <1>2, Zenon DEF StoreInv, Grows

LEMMA StopStep == ASSUME StoreInv, StopSession PROVE StoreInv' /\ Grows(sess, sess')
<1> DEFINE x == [sess[slot] EXCEPT !.open = @ /\ sess[slot].mode # "remote"]
<1>1. slot \in DOMAIN sess /\ slot' = None
  BY Zenon DEF StopSession, StoreInv
<1>2. sess[slot] \in SessionRecords
  BY <1>1 DEF StoreInv
<1>3. x \in SessionRecords /\ x.mode = sess[slot].mode /\ x.match = sess[slot].match
        /\ (x.open => x.mode # "remote")
  BY <1>2, Zenon DEF SessionRecords
<1>4. sess' = [sess EXCEPT ![slot] = x]
  BY <1>1, Zenon DEF StopSession, Close, StoreInv
<1> HIDE DEF x
<1>5. QED
  BY <1>1, <1>3, <1>4, RecordStep, Zenon

LEMMA StopIfMatchStep ==
    ASSUME StoreInv, NEW s, StopIfMatch(s) PROVE StoreInv' /\ Grows(sess, sess')
<1>1. CASE slot = s
  BY <1>1, StopStep, Zenon DEF StopIfMatch
<1>2. CASE slot # s
  BY <1>2, Zenon DEF StopIfMatch, StoreInv, RemovedIsClosed, Grows
<1>3. QED
  BY <1>1, <1>2, Zenon

\* A record that keeps mode, match and open, in the place of session s.
LEMMA QuietRecord ==
    ASSUME StoreInv, NEW s \in DOMAIN sess, NEW x \in SessionRecords,
           x.mode = sess[s].mode, x.match = sess[s].match, x.open = sess[s].open,
           sess' = [sess EXCEPT ![s] = x], slot' = slot
    PROVE  StoreInv' /\ Grows(sess, sess')
<1>1. x.open => x.mode # "remote" \/ slot' = s
  BY Zenon DEF StoreInv, RemovedIsClosed
<1>2. slot' = None => slot \in {None, s}
  BY Zenon
<1>3. QED
  BY <1>1, <1>2, RecordStep, Zenon

LEMMA LockStep ==
    ASSUME StoreInv, NEW s \in DOMAIN sess, NEW r \in Requests, slot' = slot,
           LockDebugger(s, r) \/ UnlockDebugger(s)
    PROVE  StoreInv' /\ Grows(sess, sess')
<1>1. sess[s] \in SessionRecords
  BY DEF StoreInv
<1>2. PICK h \in {r, None} : sess' = [sess EXCEPT ![s] = [sess[s] EXCEPT !.holder = h]]
  BY Zenon DEF LockDebugger, UnlockDebugger
<1> DEFINE x == [sess[s] EXCEPT !.holder = h]
<1>3. x \in SessionRecords /\ x.mode = sess[s].mode /\ x.match = sess[s].match
        /\ x.open = sess[s].open
  BY <1>1, Zenon DEF SessionRecords
<1> HIDE DEF x
<1>4. sess' = [sess EXCEPT ![s] = x]
  BY <1>2, Zenon DEF x
<1>5. QED
  BY <1>3, <1>4, QuietRecord, Zenon

LEMMA PushStep ==
    ASSUME StoreInv, NEW s \in DOMAIN sess, NEW encoded \in BOOLEAN, slot' = slot,
           Push(s, encoded)
    PROVE  StoreInv' /\ Grows(sess, sess')
<1> DEFINE n == sess[s]
           captured == n.captured + 1
           completed == n.completed \/ captured >= Target
           a == [session |-> s, seq |-> n.next, completed |-> completed]
           o == IF encoded THEN Append(n.outbox, a) ELSE n.outbox
           x == [n EXCEPT !.captured = captured, !.next = n.next + 1,
                          !.completed = completed, !.outbox = o]
<1>1. n \in SessionRecords /\ s \in Sessions
  BY SessionAssumption DEF StoreInv, Sessions
<1>2. n.next \in Nat /\ captured \in Nat /\ completed \in BOOLEAN /\ n.outbox \in Outboxes
  BY <1>1, SessionAssumption DEF SessionRecords
<1>3. sess' = [sess EXCEPT ![s] = x]
  BY Zenon DEF Push
<1> HIDE DEF captured, completed
<1>4. a \in Artifacts
  BY <1>1, <1>2, Zenon DEF Artifacts
<1> HIDE DEF a
<1>5. o \in Outboxes
  BY <1>2, <1>4 DEF Outboxes
<1> HIDE DEF o
<1> HIDE DEF n
<1>6. x \in SessionRecords /\ x.mode = n.mode /\ x.match = n.match /\ x.open = n.open
  <2>1. n.next + 1 \in Nat
    BY <1>2
  <2>2. QED
    BY <1>1, <1>2, <1>5, <2>1, Zenon DEF SessionRecords
<1> HIDE DEF x
<1>7. QED
  BY <1>3, <1>6, QuietRecord, Zenon DEF n

LEMMA DrainStep ==
    ASSUME StoreInv, Drain, slot' = slot
    PROVE  StoreInv' /\ Grows(sess, sess') /\ Drained \in Seq(Artifacts)
<1>1. CASE slot = None
  <2>1. sess' = sess
    BY <1>1, Zenon DEF Drain
  <2>2. Drained = <<>>
    BY <1>1, Zenon DEF Drained
  <2>3. StoreInv' /\ Grows(sess, sess')
    BY <2>1, Zenon DEF StoreInv, RemovedIsClosed, Grows
  <2>4. QED
    BY <2>2, <2>3
<1>2. CASE slot # None
  <2> DEFINE x == [sess[slot] EXCEPT !.outbox = <<>>]
  <2>1. slot \in DOMAIN sess /\ sess[slot] \in SessionRecords
    BY <1>2 DEF StoreInv
  <2>2. x \in SessionRecords /\ x.mode = sess[slot].mode /\ x.match = sess[slot].match
          /\ x.open = sess[slot].open
    <3>1. <<>> \in Outboxes
      BY DEF Outboxes
    <3>2. QED
      BY <2>1, <3>1, Zenon DEF SessionRecords
  <2>3. sess' = [sess EXCEPT ![slot] = x]
    BY <1>2, Zenon DEF Drain
  <2>4. Drained \in Seq(Artifacts)
    BY <2>1 DEF Drained, SessionRecords, Outboxes
  <2> HIDE DEF x
  <2>5. QED
    BY <2>1, <2>2, <2>3, <2>4, QuietRecord, Zenon
<1>3. QED
  BY <1>1, <1>2, Zenon

-----------------------------------------------------------------------------
(* The requests.                                                           *)

LEMMA SetStep ==
    ASSUME RequestsInv, NEW r \in Requests, NEW x, Good(r, x, sess'), Grows(sess, sess'),
           Set(r, x)
    PROVE  RequestsInv'
BY GoodGrows, Zenon DEF RequestsInv, Set

LEMMA NoSetStep ==
    ASSUME RequestsInv, Grows(sess, sess'), req' = req
    PROVE  RequestsInv'
BY GoodGrows, Zenon DEF RequestsInv

LEMMA SameGrows == ASSUME sess' = sess PROVE Grows(sess, sess')
BY Zenon DEF Grows

LEMMA NoVmType == NoVm \in Vms
BY RunnerAssumption DEF NoVm, Vms

LEMMA DoneGood == ASSUME NEW r, NEW ss PROVE Good(r, Done, ss) /\ Good(r, NewRequest, ss)
<1>1. NewRequest \in RequestRecords /\ Done \in RequestRecords
  <2>1. 0 \in 0 .. MaxSlices /\ 0 \in 0 .. MaxPrograms
    BY RunnerAssumption
  <2>2. NewRequest \in RequestRecords
    BY <2>1, NoVmType, Zenon DEF NewRequest, RequestRecords
  <2>3. QED
    BY <2>2, Zenon DEF Done, RequestRecords
<1>2. /\ Done.pc = "done" /\ Done.dbg = None /\ Done.asked = None
      /\ NewRequest.pc = "new" /\ NewRequest.dbg = None /\ NewRequest.asked = None
  BY Zenon DEF Done, NewRequest
<1>3. QED
  BY <1>1, <1>2, Zenon DEF Good, Owning, InDebugger

\* A request that owns its VM goes on with it, in no debugger.
LEMMA MoveGood ==
    ASSUME NEW r, NEW ss, NEW x, Good(r, x, ss), x.pc \in Owning,
           NEW pc \in {"slice", "run", "await", "recycle"}, NEW st \in Statuses \cup {"none"}
    PROVE  Good(r, [x EXCEPT !.pc = pc, !.dbg = None, !.status = st], ss)
<1> DEFINE y == [x EXCEPT !.pc = pc, !.dbg = None, !.status = st]
<1>1. x \in RequestRecords
  BY Zenon DEF Good
<1>2. /\ y \in RequestRecords /\ y.pc = pc /\ y.dbg = None /\ y.asked = x.asked
      /\ y.vm = x.vm /\ y.prog = x.prog /\ y.blocking = x.blocking
  BY <1>1, Zenon DEF RequestRecords
<1> HIDE DEF y
<1>3. Good(r, y, ss)
  BY <1>2, Zenon DEF Good, Owning, InDebugger
<1>4. QED
  BY <1>3, Zenon DEF y

LEMMA AfterSliceGood ==
    ASSUME NEW r, NEW ss, NEW x, Good(r, x, ss), x.pc \in Owning, NEW status \in Statuses
    PROVE  Good(r, AfterSlice(x, status), ss)
<1>1. CASE status = "halted"
  BY <1>1, MoveGood, Zenon DEF AfterSlice, Statuses
<1>2. CASE status = "yielded"
  BY <1>2, MoveGood, Zenon DEF AfterSlice, Statuses
<1>3. CASE status = "waiting"
  BY <1>3, MoveGood, Zenon DEF AfterSlice, Statuses
<1>4. CASE status = "error"
  BY <1>4, DoneGood, Zenon DEF AfterSlice
<1>5. QED
  BY <1>1, <1>2, <1>3, <1>4, Zenon DEF Statuses

\* A change of the program counter alone.
LEMMA GotoGood ==
    ASSUME NEW r, NEW ss, NEW x, Good(r, x, ss), NEW pc,
           \/ x.pc \in InDebugger /\ pc \in InDebugger
           \/ x.pc = "await" /\ pc = "slice"
    PROVE  Good(r, [x EXCEPT !.pc = pc], ss)
<1> DEFINE y == [x EXCEPT !.pc = pc]
<1>1. x \in RequestRecords
  BY Zenon DEF Good
<1>2. /\ y \in RequestRecords /\ y.pc = pc /\ y.dbg = x.dbg /\ y.asked = x.asked
      /\ y.vm = x.vm /\ y.prog = x.prog /\ y.blocking = x.blocking
  BY <1>1, Zenon DEF RequestRecords, InDebugger
<1> HIDE DEF y
<1>3. Good(r, y, ss)
  BY <1>2, Zenon DEF Good, Owning, InDebugger
<1>4. QED
  BY <1>3, Zenon DEF y

\* A step of one request that touches neither store nor pool.
LEMMA QuietSet ==
    ASSUME IInv, NEW r \in Requests, NEW x, Good(r, x, sess), Set(r, x),
           UNCHANGED <<program, pool, slot, sess, cp, delivered>>
    PROVE  IInv'
<1>1. RequestsInv'
  BY SetStep, SameGrows, Zenon DEF IInv
<1>2. StoreInv' /\ PoolInv' /\ ClientInv'
  BY Zenon DEF IInv, StoreInv, RemovedIsClosed, PoolInv, ClientInv
<1>3. QED
  BY <1>1, <1>2, Zenon DEF IInv

\* A step of one request that changes the store.
LEMMA StoreSet ==
    ASSUME IInv, NEW r \in Requests, NEW x, Good(r, x, sess), Set(r, x),
           StoreInv', Grows(sess, sess'), UNCHANGED <<program, pool, cp, delivered>>
    PROVE  IInv'
<1>1. RequestsInv'
  BY SetStep, GoodGrows, Zenon DEF IInv
<1>2. PoolInv' /\ ClientInv'
  BY Zenon DEF IInv, PoolInv, ClientInv
<1>3. QED
  BY <1>1, <1>2, Zenon DEF IInv

\* A step of one request that changes the pool.
LEMMA PoolSet ==
    ASSUME IInv, NEW r \in Requests, NEW x, Good(r, x, sess), Set(r, x),
           PoolInv', UNCHANGED <<program, slot, sess, cp, delivered>>
    PROVE  IInv'
<1>1. RequestsInv'
  BY SetStep, SameGrows, Zenon DEF IInv
<1>2. StoreInv' /\ ClientInv'
  BY Zenon DEF IInv, StoreInv, RemovedIsClosed, ClientInv
<1>3. QED
  BY <1>1, <1>2, Zenon DEF IInv

\* prepare_data_plane_http_request_context and the questions to the store.
LEMMA PrepareStep ==
    ASSUME IInv, NEW r \in Requests, Prepare(r) \/ AskAttach(r) \/ AskBlocking(r),
           UNCHANGED <<cp, delivered>>
    PROVE  IInv'
<1> DEFINE q == req[r]
<1>1. Good(r, q, sess) /\ q \in RequestRecords /\ program \in 0 .. MaxPrograms
  BY Zenon DEF IInv, RequestsInv, Good
<1>2. CASE Prepare(r)
  <2>1. CASE program = 0
    BY <1>2, <2>1, DoneGood, QuietSet, Zenon DEF Prepare
  <2>2. CASE program # 0
    <3> DEFINE x == [q EXCEPT !.pc = "ask", !.prog = program]
    <3>1. Set(r, x)
      BY <1>2, <2>2, Zenon DEF Prepare
    <3>2. /\ x \in RequestRecords /\ x.pc = "ask" /\ x.prog = program
          /\ x.dbg = q.dbg /\ x.asked = q.asked /\ x.blocking = q.blocking
      BY <1>1, Zenon DEF RequestRecords
    <3> HIDE DEF x
    <3>3. program \in Programs
      BY <1>1, <2>2, RunnerAssumption DEF Programs
    <3>4. Good(r, x, sess)
      BY <1>1, <3>2, <3>3, Zenon DEF Good, Owning, InDebugger
    <3>5. QED
      BY <1>2, <3>1, <3>4, QuietSet, Zenon DEF Prepare
  <2>3. QED
    BY <2>1, <2>2, Zenon
<1>3. CASE AskAttach(r)
  <2> DEFINE x == [q EXCEPT !.pc = "askBlocking", !.attach = Attaches(r)]
  <2>1. q.pc = "ask" /\ Set(r, x)
    BY <1>3, Zenon DEF AskAttach, At
  <2>2. Attaches(r) \in BOOLEAN
    BY Zenon DEF Attaches
  <2>3. /\ x \in RequestRecords /\ x.pc = "askBlocking" /\ x.prog = q.prog
        /\ x.dbg = q.dbg /\ x.asked = q.asked /\ x.blocking = q.blocking
    BY <1>1, <2>2, Zenon DEF RequestRecords
  <2> HIDE DEF x
  <2>4. Good(r, x, sess)
    BY <1>1, <2>1, <2>3, Zenon DEF Good, Owning, InDebugger
  <2>5. QED
    BY <1>3, <2>1, <2>4, QuietSet, Zenon DEF AskAttach
<1>4. CASE AskBlocking(r)
  <2> DEFINE bl == Threading \/ Blocks(r)
             x == [q EXCEPT !.pc = "acquire", !.blocking = bl, !.asked = slot]
  <2>1. q.pc = "askBlocking" /\ Set(r, x)
    BY <1>4, Zenon DEF AskBlocking, At
  <2>2. bl \in BOOLEAN
    BY RunnerAssumption, Zenon DEF Blocks, Attaches
  <2>3. slot \in Sessions \cup {None} /\ (slot # None => slot \in DOMAIN sess)
    BY SessionAssumption DEF IInv, StoreInv, Sessions
  <2>4. slot # None /\ r \in sess[slot].match /\ sess[slot].mode # "recording" => bl
    BY Zenon DEF Blocks, Attaches, Interactive
  <2> HIDE DEF bl
  <2>5. /\ x \in RequestRecords /\ x.pc = "acquire" /\ x.prog = q.prog
        /\ x.dbg = q.dbg /\ x.asked = slot /\ x.blocking = bl
    BY <1>1, <2>2, <2>3, Zenon DEF RequestRecords
  <2> HIDE DEF x
  <2>6. Good(r, x, sess)
    BY <1>1, <2>1, <2>3, <2>4, <2>5, Zenon DEF Good, Owning, InDebugger
  <2>7. QED
    BY <1>4, <2>1, <2>6, QuietSet, Zenon DEF AskBlocking
<1>5. QED
  BY <1>2, <1>3, <1>4, Zenon

\* A request that gets a VM of its program, with its own bridge.
LEMMA AcquiredGood ==
    ASSUME NEW r \in Requests, NEW ss, NEW x, Good(r, x, ss), x.pc = "acquire"
    PROVE  Good(r, [x EXCEPT !.pc = "slice", !.vm = [NewVm(x.prog) EXCEPT !.bridge = r]], ss)
<1> DEFINE v == [NewVm(x.prog) EXCEPT !.bridge = r]
           y == [x EXCEPT !.pc = "slice", !.vm = v]
<1>1. x \in RequestRecords /\ x.prog \in 0 .. MaxPrograms
  BY Zenon DEF Good, RequestRecords
<1>2. v \in Vms /\ v.prog = x.prog /\ v.bridge = r
  BY <1>1, Zenon DEF NewVm, Vms
<1> HIDE DEF v
<1>3. /\ y \in RequestRecords /\ y.pc = "slice" /\ y.prog = x.prog /\ y.vm = v
      /\ y.dbg = x.dbg /\ y.asked = x.asked /\ y.blocking = x.blocking
  BY <1>1, <1>2, Zenon DEF RequestRecords
<1> HIDE DEF y
<1>4. Good(r, y, ss)
  BY <1>2, <1>3, Zenon DEF Good, Owning, InDebugger
<1>5. QED
  BY <1>4, Zenon DEF y, v

\* A VM is taken from the end of a bucket, or added to it.
LEMMA TakeVm ==
    ASSUME PoolInv, NEW p \in Programs, pool[p] # <<>>,
           pool' = [pool EXCEPT ![p] = SubSeq(@, 1, Len(@) - 1)]
    PROVE  PoolInv' /\ pool[p][Len(pool[p])] = NewVm(p)
<1> DEFINE s == pool[p]
           t == SubSeq(s, 1, Len(s) - 1)
<1>1. s \in Seq(Vms) /\ Len(s) \in 1 .. PoolMax /\ \A i \in DOMAIN s : s[i] = NewVm(p)
  BY RunnerAssumption DEF PoolInv
<1>2. t \in Seq(Vms) /\ Len(t) = Len(s) - 1 /\ \A i \in DOMAIN t : t[i] = NewVm(p)
  BY <1>1
<1>3. s[Len(s)] = NewVm(p)
  BY <1>1
<1>4. pool' = [pool EXCEPT ![p] = t]
  BY Zenon
<1> HIDE DEF t
<1>5. Len(t) <= PoolMax
  BY <1>1, <1>2, RunnerAssumption
<1>6. PoolInv'
  BY <1>2, <1>4, <1>5, Zenon DEF PoolInv
<1>7. QED
  BY <1>3, <1>6, Zenon

LEMMA GiveVm ==
    ASSUME PoolInv, NEW p \in Programs, Len(pool[p]) < PoolMax,
           pool' = [pool EXCEPT ![p] = Append(@, NewVm(p))]
    PROVE  PoolInv'
<1> DEFINE s == pool[p]
           t == Append(s, NewVm(p))
<1>1. s \in Seq(Vms) /\ \A i \in DOMAIN s : s[i] = NewVm(p)
  BY Zenon DEF PoolInv
<1>2. NewVm(p) \in Vms
  BY RunnerAssumption DEF NewVm, Vms, Programs
<1>3. t \in Seq(Vms) /\ Len(t) = Len(s) + 1 /\ \A i \in DOMAIN t : t[i] = NewVm(p)
  <2> HIDE DEF s
  <2>1. QED
    BY <1>1, <1>2
<1>4. pool' = [pool EXCEPT ![p] = t]
  BY Zenon
<1> HIDE DEF t
<1>5. Len(t) <= PoolMax
  BY <1>1, <1>3, RunnerAssumption
<1>6. QED
  BY <1>3, <1>4, <1>5, Zenon DEF PoolInv

\* acquire_vm_runner_store
LEMMA AcquireStep ==
    ASSUME IInv, NEW r \in Requests, AcquirePooled(r) \/ AcquireFails(r) \/ AcquireNew(r),
           UNCHANGED <<cp, delivered>>
    PROVE  IInv'
<1> DEFINE q == req[r]
           p == q.prog
           x == [q EXCEPT !.pc = "slice", !.vm = [NewVm(p) EXCEPT !.bridge = r]]
<1>1. Good(r, q, sess) /\ q.pc = "acquire"
  BY Zenon DEF IInv, RequestsInv, AcquirePooled, AcquireFails, AcquireNew, At
<1>2. p \in Programs
  BY <1>1, Zenon DEF Good
<1>3. Good(r, x, sess)
  BY <1>1, AcquiredGood, Zenon
<1>4. CASE AcquirePooled(r)
  <2>1. PoolInv' /\ pool[p][Len(pool[p])] = NewVm(p)
    BY <1>2, <1>4, TakeVm, Zenon DEF AcquirePooled, IInv
  <2>2. Set(r, x)
    BY <1>4, <2>1, Zenon DEF AcquirePooled
  <2> HIDE DEF x
  <2>3. QED
    BY <1>3, <1>4, <2>1, <2>2, PoolSet, Zenon DEF AcquirePooled
<1>5. CASE AcquireFails(r)
  <2>1. PoolInv'
    BY <1>2, <1>5, TakeVm, Zenon DEF AcquireFails, IInv
  <2>2. QED
    BY <1>5, <2>1, DoneGood, PoolSet, Zenon DEF AcquireFails
<1>6. CASE AcquireNew(r)
  <2>1. Set(r, x) \/ Set(r, Done)
    BY <1>6, Zenon DEF AcquireNew
  <2> HIDE DEF x
  <2>2. QED
    BY <1>3, <1>6, <2>1, DoneGood, QuietSet, Zenon DEF AcquireNew
<1>7. QED
  BY <1>4, <1>5, <1>6, Zenon

\* A VM whose bridge is taken away and whose scope is closed is as good as new.
LEMMA CleanVm ==
    ASSUME NEW u \in Vms
    PROVE  [u EXCEPT !.bridge = None, !.clean = TRUE] = NewVm(u.prog)
<1> DEFINE v == [u EXCEPT !.bridge = None, !.clean = TRUE]
           n == NewVm(u.prog)
<1>1. v \in Vms /\ v.prog = u.prog /\ v.bridge = None /\ v.clean = TRUE
  BY Zenon DEF Vms
<1>2. n \in Vms /\ n.prog = u.prog /\ n.bridge = None /\ n.clean = TRUE
  BY Zenon DEF Vms, NewVm
<1> HIDE DEF v, n
<1>3. v = n
  BY <1>1, <1>2 DEF Vms
<1>4. QED
  BY <1>3, Zenon DEF v, n

\* recycle_vm_runner_store
LEMMA RecycleStep ==
    ASSUME IInv, NEW r \in Requests, Recycle(r), UNCHANGED <<cp, delivered>>
    PROVE  IInv'
<1> DEFINE q == req[r]
           p == q.prog
           v == [q.vm EXCEPT !.bridge = None, !.clean = TRUE]
<1>1. Good(r, q, sess) /\ q.pc = "recycle"
  BY Zenon DEF IInv, RequestsInv, Recycle, At
<1>2. p \in Programs /\ q.vm \in Vms /\ q.vm.prog = p
  BY <1>1, Zenon DEF Good, Owning, RequestRecords
<1>3. v = NewVm(p)
  BY <1>2, CleanVm, Zenon
<1>4. \/ Len(pool[p]) < PoolMax /\ pool' = [pool EXCEPT ![p] = Append(@, v)]
      \/ pool' = pool
  BY Zenon DEF Recycle
<1> HIDE DEF v
<1>5. PoolInv'
  <2>1. CASE Len(pool[p]) < PoolMax /\ pool' = [pool EXCEPT ![p] = Append(@, v)]
    <3>1. pool' = [pool EXCEPT ![p] = Append(@, NewVm(p))]
      BY <1>3, <2>1, Zenon
    <3> HIDE DEF p
    <3>2. QED
      BY <1>2, <2>1, <3>1, GiveVm, Zenon DEF IInv
  <2>2. CASE pool' = pool
    BY <2>2, Zenon DEF IInv, PoolInv
  <2>3. QED
    BY <1>4, <2>1, <2>2, Zenon
<1>6. QED
  BY <1>5, DoneGood, PoolSet, Zenon DEF Recycle

\* run_vm_with_optional_debugger, up to the VM's first step.
LEMMA BeginStep ==
    ASSUME IInv, NEW r \in Requests, BeginSlice(r), UNCHANGED <<cp, delivered>>
    PROVE  IInv'
<1> DEFINE q == req[r]
           begun == [q EXCEPT !.slices = @ + 1, !.vm.clean = FALSE]
           plain == [begun EXCEPT !.pc = "run"]
           lock == [begun EXCEPT !.pc = "lock", !.dbg = slot]
           record == [begun EXCEPT !.pc = "record", !.dbg = slot]
<1>1. Good(r, q, sess) /\ q.pc = "slice" /\ q.slices < MaxSlices /\ q \in RequestRecords
  BY Zenon DEF IInv, RequestsInv, BeginSlice, At, Good
<1>2. q.vm \in Vms /\ q.slices + 1 \in 0 .. MaxSlices
  BY <1>1, RunnerAssumption DEF RequestRecords
<1>3. [q.vm EXCEPT !.clean = FALSE] \in Vms /\ [q.vm EXCEPT !.clean = FALSE].prog = q.vm.prog
        /\ [q.vm EXCEPT !.clean = FALSE].bridge = q.vm.bridge
  BY <1>2, Zenon DEF Vms
<1>4. /\ begun \in RequestRecords /\ begun.pc = "slice" /\ begun.prog = q.prog
      /\ begun.vm = [q.vm EXCEPT !.clean = FALSE]
      /\ begun.dbg = q.dbg /\ begun.asked = q.asked /\ begun.blocking = q.blocking
  BY <1>1, <1>2, <1>3, Zenon DEF RequestRecords
<1>5. \/ Set(r, plain)
      \/ Attaches(r) /\ Interactive(slot) /\ Set(r, lock)
      \/ Attaches(r) /\ Set(r, record)
  BY Zenon DEF BeginSlice
<1> HIDE DEF begun
<1>6. begun.vm.prog = q.prog /\ begun.vm.bridge = r
  BY <1>1, <1>3, <1>4, Zenon DEF Good, Owning
<1>7. Good(r, plain, sess)
  <2>1. /\ plain \in RequestRecords /\ plain.pc = "run" /\ plain.prog = q.prog
        /\ plain.vm = begun.vm /\ plain.dbg = q.dbg /\ plain.asked = q.asked
        /\ plain.blocking = q.blocking
    BY <1>4, Zenon DEF RequestRecords
  <2> HIDE DEF plain
  <2>2. QED
    BY <1>1, <1>6, <2>1, Zenon DEF Good, Owning, InDebugger
<1>8. ASSUME Attaches(r) PROVE slot \in DOMAIN sess /\ slot \in Sessions /\ slot # None
  BY <1>8, SessionAssumption DEF Attaches, IInv, StoreInv, Sessions
<1>9. ASSUME Attaches(r), Interactive(slot) PROVE Good(r, lock, sess)
  <2>1. /\ lock \in RequestRecords /\ lock.pc = "lock" /\ lock.prog = q.prog
        /\ lock.vm = begun.vm /\ lock.dbg = slot /\ lock.asked = q.asked
        /\ lock.blocking = q.blocking
    BY <1>4, <1>8, <1>9, Zenon DEF RequestRecords
  <2> HIDE DEF lock
  <2>2. r \in sess[slot].match /\ sess[slot].mode # "recording"
    BY <1>9, Zenon DEF Attaches, Interactive
  <2>3. QED
    BY <1>1, <1>6, <1>8, <1>9, <2>1, <2>2, Zenon DEF Good, Owning, InDebugger
<1>10. ASSUME Attaches(r) PROVE Good(r, record, sess)
  <2>1. /\ record \in RequestRecords /\ record.pc = "record" /\ record.prog = q.prog
        /\ record.vm = begun.vm /\ record.dbg = slot /\ record.asked = q.asked
        /\ record.blocking = q.blocking
    BY <1>4, <1>8, <1>10, Zenon DEF RequestRecords
  <2> HIDE DEF record
  <2>2. QED
    BY <1>1, <1>6, <1>8, <1>10, <2>1, Zenon DEF Good, Owning, InDebugger
<1> HIDE DEF plain, lock, record
<1>11. QED
  BY <1>5, <1>7, <1>9, <1>10, QuietSet, Zenon DEF BeginSlice

\* The debugger's mutex, its pauses, and the end of a slice without it.
LEMMA DebuggerStep ==
    ASSUME IInv, NEW r \in Requests,
           TakeDebugger(r) \/ Pause(r) \/ Resume(r) \/ EndSlice(r) \/ EndAwait(r),
           UNCHANGED <<cp, delivered>>
    PROVE  IInv'
<1> DEFINE q == req[r]
<1>1. Good(r, q, sess)
  BY Zenon DEF IInv, RequestsInv
<1>2. CASE TakeDebugger(r)
  <2>1. q.pc = "lock" /\ q.dbg \in DOMAIN sess
    BY <1>1, <1>2, Zenon DEF TakeDebugger, At, Good, InDebugger
  <2>2. StoreInv' /\ Grows(sess, sess')
    BY <1>2, <2>1, LockStep, Zenon DEF TakeDebugger, IInv
  <2>3. Good(r, [q EXCEPT !.pc = "debug"], sess)
    BY <1>1, <2>1, GotoGood, Zenon DEF InDebugger
  <2>4. QED
    BY <1>2, <2>2, <2>3, StoreSet, Zenon DEF TakeDebugger, Goto
<1>3. CASE Pause(r) \/ Resume(r)
  <2>1. q.pc \in InDebugger
    BY <1>3, Zenon DEF Pause, Resume, At, InDebugger
  <2>2. PICK pc \in InDebugger : Set(r, [q EXCEPT !.pc = pc])
    BY <1>3, Zenon DEF Pause, Resume, Goto, InDebugger
  <2>3. Good(r, [q EXCEPT !.pc = pc], sess)
    BY <1>1, <2>1, <2>2, GotoGood, Zenon
  <2>4. QED
    BY <1>3, <2>2, <2>3, QuietSet, Zenon DEF Pause, Resume
<1>4. CASE EndSlice(r)
  <2>1. PICK status \in Statuses : Set(r, AfterSlice(q, status))
    BY <1>4, Zenon DEF EndSlice
  <2>2. Good(r, AfterSlice(q, status), sess)
    BY <1>1, <1>4, AfterSliceGood, Zenon DEF EndSlice, At, Owning
  <2>3. QED
    BY <1>4, <2>1, <2>2, QuietSet, Zenon DEF EndSlice
<1>5. CASE EndAwait(r)
  <2>1. Good(r, [q EXCEPT !.pc = "slice"], sess)
    BY <1>1, <1>5, GotoGood, Zenon DEF EndAwait, At
  <2>2. QED
    BY <1>5, <2>1, DoneGood, QuietSet, Zenon DEF EndAwait, Goto
<1>6. QED
  BY <1>2, <1>3, <1>4, <1>5, Zenon

\* The end of a slice in a debugger, a detach, and the end of a recorded slice.
LEMMA EndStep ==
    ASSUME IInv, NEW r \in Requests,
           EndDebugSlice(r) \/ Detach(r) \/ EndRecordedSlice(r), UNCHANGED <<cp, delivered>>
    PROVE  IInv'
<1> DEFINE q == req[r]
<1>1. Good(r, q, sess) /\ q \in RequestRecords /\ q.pc \in {"debug", "detach", "record"}
  BY Zenon DEF IInv, RequestsInv, EndDebugSlice, Detach, EndRecordedSlice, At, Good
<1>2. q.dbg \in DOMAIN sess
  BY <1>1, Zenon DEF Good, InDebugger
<1>3. \A status \in Statuses : Good(r, AfterSlice(q, status), sess)
  BY <1>1, AfterSliceGood, Zenon DEF Owning, InDebugger
<1>4. CASE EndDebugSlice(r)
  <2> DEFINE d(status) == [q EXCEPT !.pc = "detach", !.status = status]
  <2>1. StoreInv' /\ Grows(sess, sess')
    BY <1>2, <1>4, LockStep, Zenon DEF EndDebugSlice, IInv
  <2>2. PICK status \in Statuses : Set(r, d(status)) \/ Set(r, AfterSlice(q, status))
    BY <1>4, Zenon DEF EndDebugSlice
  <2>3. Good(r, d(status), sess)
    <3>1. /\ d(status) \in RequestRecords /\ d(status).pc = "detach" /\ d(status).prog = q.prog
          /\ d(status).vm = q.vm /\ d(status).dbg = q.dbg /\ d(status).asked = q.asked
          /\ d(status).blocking = q.blocking /\ d(status).status = status
      BY <1>1, <2>2, Zenon DEF RequestRecords
    <3> HIDE DEF d
    <3>2. q.pc = "debug"
      BY <1>4, Zenon DEF EndDebugSlice, At
    <3>3. QED
      BY <1>1, <1>2, <2>2, <3>1, <3>2, Zenon DEF Good, Owning, InDebugger
  <2> HIDE DEF d
  <2>4. QED
    BY <1>3, <1>4, <2>1, <2>2, <2>3, StoreSet, Zenon DEF EndDebugSlice
<1>5. CASE Detach(r)
  <2>1. StoreInv' /\ Grows(sess, sess')
    BY <1>5, StopIfMatchStep, Zenon DEF Detach, IInv
  <2>2. q.status \in Statuses
    BY <1>1, <1>5, Zenon DEF Good, Detach, At
  <2>3. QED
    BY <1>3, <1>5, <2>1, <2>2, StoreSet, Zenon DEF Detach
<1>6. CASE EndRecordedSlice(r)
  <2>1. StoreInv' /\ Grows(sess, sess')
    BY <1>2, <1>6, PushStep, Zenon DEF EndRecordedSlice, IInv
  <2>2. QED
    BY <1>3, <1>6, <2>1, StoreSet, Zenon DEF EndRecordedSlice
<1>7. QED
  BY <1>4, <1>5, <1>6, Zenon

-----------------------------------------------------------------------------
(* The operator, the control plane's client, and the whole.                *)

\* apply_program and the starts and stops of sessions, by whoever asks.
LEMMA OperatorStep ==
    ASSUME IInv, ClientInv',
           \/ ApplyProgram
           \/ StartSession /\ UNCHANGED <<program, pool, req>>
           \/ StopSession /\ UNCHANGED <<program, pool, req>>
           \/ UNCHANGED <<slot, sess, program, pool, req>>
    PROVE  IInv'
<1>1. CASE ApplyProgram
  <2>1. program' \in 0 .. MaxPrograms /\ UNCHANGED <<slot, sess, pool, req>>
    BY <1>1, RunnerAssumption DEF ApplyProgram, IInv
  <2>2. StoreInv' /\ PoolInv' /\ RequestsInv'
    BY <2>1, NoSetStep, SameGrows, Zenon DEF IInv, StoreInv, RemovedIsClosed, PoolInv
  <2>3. QED
    BY <2>1, <2>2, Zenon DEF IInv
<1>2. CASE StartSession /\ UNCHANGED <<program, pool, req>>
  <2>1. StoreInv' /\ RequestsInv'
    BY <1>2, StartStep, NoSetStep, Zenon DEF IInv
  <2>2. QED
    BY <1>2, <2>1, Zenon DEF IInv, PoolInv
<1>3. CASE StopSession /\ UNCHANGED <<program, pool, req>>
  <2>1. StoreInv' /\ RequestsInv'
    BY <1>3, StopStep, NoSetStep, Zenon DEF IInv
  <2>2. QED
    BY <1>3, <2>1, Zenon DEF IInv, PoolInv
<1>4. CASE UNCHANGED <<slot, sess, program, pool, req>>
  <2>1. StoreInv' /\ PoolInv' /\ RequestsInv'
    BY <1>4, NoSetStep, SameGrows, Zenon DEF IInv, StoreInv, RemovedIsClosed, PoolInv
  <2>2. QED
    BY <1>4, <2>1, Zenon DEF IInv
<1>5. QED
  BY <1>1, <1>2, <1>3, <1>4, Zenon

ClientRecords ==
    [pc : {"poll", "command", "drain", "send"},
     target : Sessions \cup {None}, queue : Outboxes]

LEMMA SendingType ==
    ASSUME NEW queue \in Seq(Artifacts)
    PROVE  /\ Sending(queue) \in ClientRecords
           /\ Sending(queue).pc = "send" => Sending(queue).queue # <<>>
<1>1. queue \in Outboxes
  BY Zenon DEF Outboxes
<1>2. QED
  BY <1>1, Zenon DEF Sending, ClientRecords

\* The poll loop of active_control_plane.rs.
LEMMA ControlPlaneStep == ASSUME IInv, ControlPlane PROVE IInv'
<1>1. cp \in ClientRecords /\ delivered \in Outboxes /\ (cp.pc = "send" => cp.queue # <<>>)
  BY Zenon DEF IInv, ClientInv, ClientRecords, Outboxes
<1>2. ASSUME cp' \in ClientRecords, delivered' \in Outboxes,
             cp'.pc = "send" => cp'.queue # <<>>
      PROVE  ClientInv'
  BY <1>2, Zenon DEF ClientInv, ClientRecords, Outboxes
<1>3. CASE Command
  <2>1. cp' \in ClientRecords /\ cp'.pc = "drain" /\ delivered' = delivered
    BY <1>1, <1>3, Zenon DEF Command, ClientRecords
  <2>2. ClientInv'
    BY <1>1, <1>2, <2>1, Zenon
  <2>3. QED
    BY <1>3, <2>2, OperatorStep, Zenon DEF Command
<1>4. CASE DebugCommand
  <2>1. slot \in Sessions
    BY <1>4, SessionAssumption DEF DebugCommand, IInv, StoreInv, Sessions
  <2>2. cp' \in ClientRecords /\ cp'.pc = "command" /\ delivered' = delivered
    BY <1>1, <1>4, <2>1, Zenon DEF DebugCommand, ClientRecords
  <2>3. ClientInv'
    BY <1>1, <1>2, <2>2, Zenon
  <2>4. QED
    BY <1>4, <2>3, OperatorStep, Zenon DEF DebugCommand
<1>5. CASE DebugAnswer
  <2>1. cp' \in ClientRecords /\ cp'.pc = "drain" /\ delivered' = delivered
    BY <1>1, <1>5, Zenon DEF DebugAnswer, ClientRecords
  <2>2. ClientInv'
    BY <1>1, <1>2, <2>1, Zenon
  <2>3. UNCHANGED <<slot, sess, program, pool>>
    BY <1>5, Zenon DEF DebugAnswer
  <2>4. CASE \E r \in Requests : At(r, "paused") /\ Goto(r, "debug")
    <3>1. PICK r \in Requests : At(r, "paused") /\ Goto(r, "debug")
      BY <2>4, Zenon
    <3>2. Good(r, req[r], sess)
      BY Zenon DEF IInv, RequestsInv
    <3>3. Good(r, [req[r] EXCEPT !.pc = "debug"], sess)
      BY <3>1, <3>2, GotoGood, Zenon DEF At, InDebugger
    <3>4. RequestsInv'
      BY <2>3, <3>1, <3>3, SetStep, SameGrows, Zenon DEF IInv, Goto
    <3>5. QED
      BY <2>2, <2>3, <3>4, Zenon DEF IInv, StoreInv, RemovedIsClosed, PoolInv
  <2>5. CASE UNCHANGED req
    BY <2>2, <2>3, <2>5, OperatorStep, Zenon
  <2>6. QED
    BY <1>5, <2>4, <2>5, Zenon DEF DebugAnswer
<1>6. CASE DrainRecordings
  <2>1. StoreInv' /\ Grows(sess, sess') /\ Drained \in Seq(Artifacts)
    BY <1>6, DrainStep, Zenon DEF DrainRecordings, IInv
  <2>2. ClientInv'
    BY <1>1, <1>2, <1>6, <2>1, SendingType, Zenon DEF DrainRecordings
  <2>3. RequestsInv'
    BY <1>6, <2>1, NoSetStep, Zenon DEF DrainRecordings, IInv
  <2>4. QED
    BY <1>6, <2>1, <2>2, <2>3, Zenon DEF DrainRecordings, IInv, PoolInv
<1>7. CASE SendRecording
  <2>1. cp.queue \in Seq(Artifacts) /\ cp.queue # <<>> /\ delivered \in Seq(Artifacts)
    BY <1>1, <1>7, Zenon DEF SendRecording, ClientRecords, Outboxes
  <2>2. Head(cp.queue) \in Artifacts /\ Tail(cp.queue) \in Seq(Artifacts)
    <3> DEFINE queue == cp.queue
    <3> HIDE DEF queue
    <3>1. queue \in Seq(Artifacts) /\ queue # <<>>
      BY <2>1, Zenon DEF queue
    <3>2. Head(queue) \in Artifacts /\ Tail(queue) \in Seq(Artifacts)
      BY <3>1
    <3>3. QED
      BY <3>2, Zenon DEF queue
  <2>3. delivered' \in Outboxes
    BY <1>7, <2>1, <2>2 DEF SendRecording, Outboxes
  <2>4. ClientInv'
    BY <1>2, <1>7, <2>2, <2>3, SendingType, Zenon DEF SendRecording
  <2>5. QED
    BY <1>7, <2>4, OperatorStep, Zenon DEF SendRecording
<1>8. QED
  BY <1>3, <1>4, <1>5, <1>6, <1>7, Zenon DEF ControlPlane

LEMMA InitInv == ASSUME Init PROVE IInv
<1>1. StoreInv
  BY SessionAssumption DEF Init, StoreInv, RemovedIsClosed
<1>2. RequestsInv
  BY DoneGood, Zenon DEF Init, RequestsInv
<1>3. PoolInv
  BY RunnerAssumption DEF Init, PoolInv
<1>4. ClientInv
  BY DEF Init, ClientInv
<1>5. QED
  BY <1>1, <1>2, <1>3, <1>4, RunnerAssumption DEF Init, IInv

LEMMA NextInv == ASSUME IInv, [Next]_vars PROVE IInv'
<1>1. ASSUME NEW r \in Requests, Request(r) PROVE IInv'
  BY <1>1, PrepareStep, AcquireStep, RecycleStep, BeginStep, DebuggerStep, EndStep, Zenon
  DEF Request, RequestStep
<1>2. CASE AdminApply \/ AdminStart \/ AdminStop
  <2>1. ClientInv'
    BY <1>2, Zenon DEF AdminApply, AdminStart, AdminStop, IInv, ClientInv
  <2>2. QED
    BY <1>2, <2>1, OperatorStep, Zenon DEF AdminApply, AdminStart, AdminStop
<1>3. CASE UNCHANGED vars
  <2>1. ClientInv'
    BY <1>3, Zenon DEF vars, IInv, ClientInv
  <2>2. QED
    BY <1>3, <2>1, OperatorStep, Zenon DEF vars
<1>4. QED
  BY <1>1, <1>2, <1>3, ControlPlaneStep, Zenon DEF Next

LEMMA Invariance == Spec => []IInv
BY InitInv, NextInv, PTL DEF Spec

\* Every variable keeps its type; a bucket of VMs never exceeds its limit
\* (recycle_vm_runner_store).
THEOREM TypeCorrect == Spec => []TypeOK
<1>1. IInv => TypeOK
  <2> SUFFICES ASSUME IInv PROVE TypeOK
    BY Zenon
  <2>1. slot \in Sessions \cup {None} /\ (slot # None => slot \in DOMAIN sess)
    BY SessionAssumption DEF IInv, StoreInv, Sessions
  <2>2. \A s \in DOMAIN sess : sess[s] \in SessionRecords
    BY DEF IInv, StoreInv
  <2>3. req \in [Requests -> RequestRecords]
    <3>1. \A r \in Requests : req[r] \in RequestRecords
      BY Zenon DEF IInv, RequestsInv, Good
    <3>2. req = [r \in Requests |-> req[r]]
      BY Zenon DEF IInv, RequestsInv
    <3>3. QED
      BY <3>1, <3>2, Zenon
  <2>4. QED
    BY <2>1, <2>2, <2>3, Zenon
    DEF TypeOK, IInv, PoolInv, ClientInv, SessionRecords, Outboxes, RequestRecords
<1>2. QED
  BY <1>1, Invariance, PTL

\* A request runs on a VM of the program it took its snapshot of, with its own
\* bridge, and a pooled VM is clean and of its program, whatever is applied,
\* recycled or debugged meanwhile (acquire_vm_runner_store, recycle_vm_runner_store).
THEOREM VmsAreOwned == Spec => []OwnVm
<1>1. IInv => OwnVm
  BY Zenon DEF IInv, RequestsInv, Good, PoolInv, OwnVm
<1>2. QED
  BY <1>1, Invariance, PTL

\* A remote session that left the store has its bridge closed, by a stop or by a
\* detach (stop_debug_session, stop_debug_session_if_match).
THEOREM RemovedAreClosed == Spec => []RemovedIsClosed
<1>1. IInv => RemovedIsClosed
  BY Zenon DEF IInv, StoreInv
<1>2. QED
  BY <1>1, Invariance, PTL

\* A debugger that was in the store when the request asked pauses it on a blocking
\* thread (request_uses_blocking_debugger, run_vm_with_optional_debugger).
THEOREM PausesOnThread == Spec => []PausedOnThread
<1>1. IInv => PausedOnThread
  BY Zenon DEF IInv, RequestsInv, Good, PausedOnThread
<1>2. QED
  BY <1>1, Invariance, PTL

-----------------------------------------------------------------------------
(* The recordings.                                                         *)

\* The artifacts of session s in the sequence o are in the order of their numbers.
Ordered(s, o) ==
    \A i, j \in DOMAIN o :
        o[i].session = s /\ o[j].session = s /\ i < j => o[i].seq < o[j].seq

\* Those in o come before those in p.
Before(s, o, p) ==
    \A i \in DOMAIN o, j \in DOMAIN p :
        o[i].session = s /\ p[j].session = s => o[i].seq < p[j].seq

\* The artifacts delivered, on their way, and in the session's outbox.
Line(s, d, q, o) ==
    /\ Ordered(s, d) /\ Ordered(s, q) /\ Ordered(s, o)
    /\ Before(s, d, q) /\ Before(s, d, o) /\ Before(s, q, o)

\* Each of them was numbered before the number n, and says whether it reached the target.
Marked(a, n) == a.seq < n /\ (a.completed <=> a.seq >= Target)
Numbered(s, n, o) == \A i \in DOMAIN o : o[i].session = s => Marked(o[i], n)

\* Every artifact of o belongs to a session of S.
From(S, o) == \A i \in DOMAIN o : o[i].session \in S

LEMMA HeadTail ==
    ASSUME NEW q \in Seq(Artifacts), q # <<>>
    PROVE  /\ Tail(q) \in Seq(Artifacts) /\ Head(q) \in Artifacts /\ Head(q) = q[1]
           /\ 1 \in DOMAIN q
           /\ \A i \in DOMAIN Tail(q) : i + 1 \in DOMAIN q /\ Tail(q)[i] = q[i + 1] /\ i \in Nat
                                        /\ i + 1 > 1
OBVIOUS

LEMMA AppendLast ==
    ASSUME NEW q \in Seq(Artifacts), NEW a \in Artifacts
    PROVE  /\ Append(q, a) \in Seq(Artifacts)
           /\ \A i \in DOMAIN Append(q, a) :
                \/ i \in DOMAIN q /\ Append(q, a)[i] = q[i] /\ i \in Nat /\ i <= Len(q)
                \/ i = Len(q) + 1 /\ Append(q, a)[i] = a
OBVIOUS

\* One recording is sent, or lost: what remains is in order.
LEMMA LineSend ==
    ASSUME NEW s, NEW d \in Seq(Artifacts), NEW q \in Seq(Artifacts), NEW o \in Seq(Artifacts),
           q # <<>>, Line(s, d, q, o)
    PROVE  Line(s, d, Tail(q), o) /\ Line(s, Append(d, Head(q)), Tail(q), o)
<1> DEFINE t == Tail(q)
           e == Append(d, Head(q))
<1>1. /\ Head(q) = q[1] /\ 1 \in DOMAIN q /\ Head(q) \in Artifacts
      /\ \A i \in DOMAIN t : i + 1 \in DOMAIN q /\ t[i] = q[i + 1] /\ i \in Nat /\ i + 1 > 1
  BY HeadTail, Zenon
<1>2. \A i \in DOMAIN e : \/ i \in DOMAIN d /\ e[i] = d[i] /\ i \in Nat /\ i <= Len(d)
                          \/ i = Len(d) + 1 /\ e[i] = q[1]
  BY <1>1, AppendLast, Zenon
<1>3. Len(d) \in Nat
  OBVIOUS
<1> HIDE DEF t, e
<1>4. Ordered(s, t) /\ Before(s, d, t) /\ Before(s, t, o)
  <2>1. Before(s, d, t) /\ Before(s, t, o)
    BY <1>1, Zenon DEF Line, Before
  <2>2. \A i, j \in DOMAIN t : i < j => i + 1 < j + 1
    BY <1>1
  <2>3. Ordered(s, t)
    BY <1>1, <2>2, Zenon DEF Line, Ordered
  <2> QED BY <2>1, <2>3, Zenon
<1>5. Ordered(s, e)
  <2> SUFFICES ASSUME NEW i \in DOMAIN e, NEW j \in DOMAIN e, e[i].session = s,
                      e[j].session = s, i < j
               PROVE  e[i].seq < e[j].seq
    BY Zenon DEF Ordered
  <2>1. i \in DOMAIN d /\ e[i] = d[i]
    BY <1>2, <1>3
  <2>2. CASE j \in DOMAIN d /\ e[j] = d[j]
    BY <2>1, <2>2, Zenon DEF Line, Ordered
  <2>3. CASE e[j] = q[1]
    BY <1>1, <2>1, <2>3, Zenon DEF Line, Before
  <2> QED BY <1>2, <2>2, <2>3, Zenon
<1>6. Before(s, e, t)
  <2> SUFFICES ASSUME NEW i \in DOMAIN e, NEW j \in DOMAIN t, e[i].session = s,
                      t[j].session = s
               PROVE  e[i].seq < t[j].seq
    BY Zenon DEF Before
  <2>1. CASE i \in DOMAIN d /\ e[i] = d[i]
    BY <1>4, <2>1, Zenon DEF Before
  <2>2. CASE e[i] = q[1]
    BY <1>1, <2>2, Zenon DEF Line, Ordered
  <2> QED BY <1>2, <2>1, <2>2, Zenon
<1>7. Before(s, e, o)
  BY <1>1, <1>2, Zenon DEF Line, Before
<1> QED BY <1>4, <1>5, <1>6, <1>7, Zenon DEF Line, t, e

\* The outbox is drained: that of the session itself, or of another one.
LEMMA LineDrain ==
    ASSUME NEW s, NEW d, NEW o, NEW p, Line(s, d, << >>, o),
           \A i \in DOMAIN p : p[i].session # s
    PROVE  /\ Line(s, d, o, << >>) /\ Line(s, d, << >>, << >>)
           /\ Line(s, d, p, o)
<1>1. DOMAIN << >> = {}
  OBVIOUS
<1> QED BY <1>1, Zenon DEF Line, Ordered, Before

\* A recording is pushed: it has the session's next number.
LEMMA LinePush ==
    ASSUME NEW s, NEW d \in Seq(Artifacts), NEW q \in Seq(Artifacts), NEW o \in Seq(Artifacts),
           Line(s, d, q, o), NEW n \in Nat, NEW a \in Artifacts, a.seq = n,
           Numbered(s, n, d), Numbered(s, n, q), Numbered(s, n, o)
    PROVE  Line(s, d, q, Append(o, a))
<1> DEFINE e == Append(o, a)
<1>1. \A i \in DOMAIN e : \/ i \in DOMAIN o /\ e[i] = o[i] /\ i \in Nat /\ i <= Len(o)
                          \/ i = Len(o) + 1 /\ e[i] = a
  BY AppendLast, Zenon
<1>2. Len(o) \in Nat
  OBVIOUS
<1> HIDE DEF e
<1>3. Before(s, d, e) /\ Before(s, q, e)
  BY <1>1, Zenon DEF Line, Before, Numbered, Marked
<1>4. Ordered(s, e)
  <2> SUFFICES ASSUME NEW i \in DOMAIN e, NEW j \in DOMAIN e, e[i].session = s,
                      e[j].session = s, i < j
               PROVE  e[i].seq < e[j].seq
    BY Zenon DEF Ordered
  <2>1. i \in DOMAIN o /\ e[i] = o[i]
    BY <1>1, <1>2
  <2>2. CASE j \in DOMAIN o /\ e[j] = o[j]
    BY <2>1, <2>2, Zenon DEF Line, Ordered
  <2>3. CASE e[j] = a
    BY <2>1, <2>3, Zenon DEF Numbered, Marked
  <2> QED BY <1>1, <2>2, <2>3, Zenon
<1> QED BY <1>3, <1>4, Zenon DEF Line, e

\* Three sequences in line are one sequence in order.
LEMMA LineJoin ==
    ASSUME NEW s, NEW d \in Seq(Artifacts), NEW q \in Seq(Artifacts), NEW o \in Seq(Artifacts),
           Line(s, d, q, o), NEW n, Numbered(s, n, d), Numbered(s, n, q), Numbered(s, n, o)
    PROVE  Ordered(s, d \o q \o o) /\ Numbered(s, n, d \o q \o o)
<1> DEFINE a == d \o q \o o
           k == Len(d)
           m == Len(q)
<1>1. k \in Nat /\ m \in Nat
  OBVIOUS
<1>2. \A i \in DOMAIN a : \/ i \in DOMAIN d /\ a[i] = d[i] /\ i \in Nat /\ i <= k
                          \/ i - k \in DOMAIN q /\ a[i] = q[i - k] /\ i \in Nat /\ k < i /\ i <= k + m
                          \/ i - (k + m) \in DOMAIN o /\ a[i] = o[i - (k + m)] /\ i \in Nat /\ k + m < i
  <2>1. /\ d \o q \in Seq(Artifacts) /\ Len(d \o q) = k + m
        /\ \A i \in 1 .. k + m : (d \o q)[i] = IF i <= k THEN d[i] ELSE q[i - k]
    OBVIOUS
  <2> DEFINE b == d \o q
  <2> HIDE DEF b
  <2>2. \A i \in DOMAIN (b \o o) : \/ i \in 1 .. Len(b) /\ (b \o o)[i] = b[i]
                                   \/ /\ i - Len(b) \in DOMAIN o /\ i \in Nat /\ i > Len(b)
                                      /\ (b \o o)[i] = o[i - Len(b)]
    BY <2>1 DEF b
  <2>3. Len(b) = k + m
    BY <2>1, Zenon DEF b
  <2>4. \A i \in 1 .. Len(b) : \/ i \in DOMAIN d /\ b[i] = d[i] /\ i \in Nat /\ i <= k
                               \/ /\ i - k \in DOMAIN q /\ b[i] = q[i - k]
                                  /\ i \in Nat /\ k < i /\ i <= k + m
    BY <1>1, <2>1, <2>3 DEF b
  <2>5. a = b \o o
    BY Zenon DEF b
  <2>6. \A i \in DOMAIN a : \/ i \in 1 .. Len(b) /\ a[i] = b[i]
                            \/ /\ i - (k + m) \in DOMAIN o /\ i \in Nat /\ i > k + m
                               /\ a[i] = o[i - (k + m)]
    <3> HIDE DEF a, k, m
    <3> QED BY <2>2, <2>3, <2>5, Zenon
  <2> HIDE DEF a, k, m
  <2> TAKE i \in DOMAIN a
  <2>7. CASE i \in 1 .. Len(b) /\ a[i] = b[i]
    BY <2>4, <2>7, Zenon
  <2>8. CASE i - (k + m) \in DOMAIN o /\ i \in Nat /\ i > k + m /\ a[i] = o[i - (k + m)]
    BY <1>1, <2>8, Zenon
  <2> QED BY <2>6, <2>7, <2>8, Zenon
<1> HIDE DEF a, k, m
<1>3. Numbered(s, n, a)
  BY <1>2, Zenon DEF Numbered
<1>4. Ordered(s, a)
  <2> SUFFICES ASSUME NEW i \in DOMAIN a, NEW j \in DOMAIN a, a[i].session = s,
                      a[j].session = s, i < j
               PROVE  a[i].seq < a[j].seq
    BY Zenon DEF Ordered
  <2> USE DEF Line, Ordered, Before
  <2>1. CASE i \in DOMAIN d /\ a[i] = d[i] /\ i \in Nat /\ i <= k
    BY <1>1, <1>2, <2>1, Zenon
  <2>2. CASE i - k \in DOMAIN q /\ a[i] = q[i - k] /\ i \in Nat /\ k < i /\ i <= k + m
    <3>1. CASE j - k \in DOMAIN q /\ a[j] = q[j - k] /\ j \in Nat
      <4>1. i - k < j - k
        BY <1>1, <2>2, <3>1
      <4> QED BY <2>2, <3>1, <4>1, Zenon
    <3>2. CASE j - (k + m) \in DOMAIN o /\ a[j] = o[j - (k + m)]
      BY <2>2, <3>2, Zenon
    <3> QED BY <1>1, <1>2, <2>2, <3>1, <3>2
  <2>3. CASE i - (k + m) \in DOMAIN o /\ a[i] = o[i - (k + m)] /\ i \in Nat /\ k + m < i
    <3>1. j - (k + m) \in DOMAIN o /\ a[j] = o[j - (k + m)] /\ j \in Nat
      BY <1>1, <1>2, <2>3
    <3>2. i - (k + m) < j - (k + m)
      BY <1>1, <2>3, <3>1
    <3> QED BY <2>3, <3>1, <3>2, Zenon
  <2> QED BY <1>2, <2>1, <2>2, <2>3, Zenon
<1> QED BY <1>3, <1>4, Zenon DEF a

\* The requests about to push a recording to session s.
Recorders(f, s) == {r \in Requests : f[r].pc = "record" /\ f[r].dbg = s}

\* Until the target is reached every request may come to push a recording; from
\* then on only those that already saw the recording unfinished.
Bound(s, c, f) ==
    c < Target \/ c + Cardinality(Recorders(f, s)) <= Target + Cardinality(Requests) - 1

\* What the session x, of number s, has recorded, and where it is.
Log(s, x, q, d) ==
    /\ x.next = x.captured + 1
    /\ x.completed <=> x.captured >= Target
    /\ From({s}, x.outbox)
    /\ Line(s, d, q, x.outbox)
    /\ Numbered(s, x.next, d) /\ Numbered(s, x.next, q) /\ Numbered(s, x.next, x.outbox)

RecInv ==
    /\ cp.pc # "send" => cp.queue = << >>
    /\ From(DOMAIN sess, delivered) /\ From(DOMAIN sess, cp.queue)
    /\ \A s \in DOMAIN sess :
         Log(s, sess[s], cp.queue, delivered) /\ Bound(s, sess[s].captured, req)

SameLog(x, y) ==
    /\ y.captured = x.captured /\ y.next = x.next
    /\ y.completed = x.completed /\ y.outbox = x.outbox

\* The sessions of ss have recorded nothing more in tt, a session new in tt nothing at all.
Quiet(ss, tt) ==
    /\ DOMAIN ss \subseteq DOMAIN tt
    /\ \A s \in DOMAIN ss : SameLog(ss[s], tt[s])
    /\ \A s \in DOMAIN tt : s \notin DOMAIN ss => \E mode, match : tt[s] = NewSession(mode, match)

LEMMA QuietLog ==
    ASSUME NEW s, NEW x, NEW y, NEW q, NEW d, Log(s, x, q, d), SameLog(x, y)
    PROVE  Log(s, y, q, d)
BY Zenon DEF Log, SameLog

LEMMA NewLog ==
    ASSUME NEW s, NEW mode, NEW match, NEW q, NEW d, NEW S, From(S, q), From(S, d), s \notin S
    PROVE  Log(s, NewSession(mode, match), q, d) /\ NewSession(mode, match).captured = 0
<1> DEFINE x == NewSession(mode, match)
<1>1. /\ x.captured = 0 /\ x.next = 1 /\ x.outbox = << >> /\ ~x.completed
  BY Zenon DEF NewSession
<1>2. 0 + 1 = 1 /\ ~(0 >= Target) /\ DOMAIN << >> = {}
  BY SessionAssumption
<1>3. (\A i \in DOMAIN q : q[i].session # s) /\ (\A i \in DOMAIN d : d[i].session # s)
  BY Zenon DEF From
<1> HIDE DEF x
<1> QED BY <1>1, <1>2, <1>3, Zenon DEF Log, Line, Ordered, Before, Numbered, From, x

\* A step that records nothing, drains nothing and sends nothing.
LEMMA QuietRec ==
    ASSUME RecInv, Quiet(sess, sess'), delivered' = delivered, cp'.queue = cp.queue,
           cp'.pc # "send" => cp.pc # "send",
           \A s \in DOMAIN sess : Bound(s, sess[s].captured, req')
    PROVE  RecInv'
<1>1. /\ From(DOMAIN sess', delivered') /\ From(DOMAIN sess', cp'.queue)
      /\ cp'.pc # "send" => cp'.queue = << >>
  BY Zenon DEF RecInv, Quiet, From
<1>2. ASSUME NEW s \in DOMAIN sess'
      PROVE  Log(s, sess'[s], cp'.queue, delivered') /\ Bound(s, sess'[s].captured, req')
  <2>1. CASE s \in DOMAIN sess
    <3>1. SameLog(sess[s], sess'[s]) /\ Log(s, sess[s], cp.queue, delivered)
      BY <2>1, Zenon DEF Quiet, RecInv
    <3>2. sess'[s].captured = sess[s].captured
      BY <3>1, Zenon DEF SameLog
    <3> QED BY <2>1, <3>1, <3>2, QuietLog, Zenon
  <2>2. CASE s \notin DOMAIN sess
    <3>1. PICK mode, match : sess'[s] = NewSession(mode, match)
      BY <1>2, <2>2, Zenon DEF Quiet
    <3>2. From(DOMAIN sess, delivered) /\ From(DOMAIN sess, cp.queue)
      BY Zenon DEF RecInv
    <3>3. Log(s, sess'[s], cp.queue, delivered) /\ sess'[s].captured = 0
      BY <2>2, <3>1, <3>2, NewLog, Zenon
    <3> QED BY <3>3, SessionAssumption DEF Bound
  <2> QED BY <2>1, <2>2, Zenon
<1> QED BY <1>1, <1>2, Zenon DEF RecInv

LEMMA FewerRecorders ==
    ASSUME NEW s, NEW c \in Nat, NEW f, NEW g, Bound(s, c, f), Recorders(g, s) \subseteq Recorders(f, s)
    PROVE  Bound(s, c, g)
<1>1. IsFiniteSet(Requests) /\ Target \in Nat
  BY SessionAssumption, Zenon
<1>2. Recorders(f, s) \in SUBSET Requests
  BY Zenon DEF Recorders
<1>3. IsFiniteSet(Recorders(f, s))
  BY <1>1, <1>2, FS_Subset, Zenon
<1>4. IsFiniteSet(Recorders(g, s)) /\ Cardinality(Recorders(g, s)) <= Cardinality(Recorders(f, s))
  BY <1>3, FS_Subset, Zenon
<1>5. /\ Cardinality(Recorders(f, s)) \in Nat /\ Cardinality(Recorders(g, s)) \in Nat
      /\ Cardinality(Requests) \in Nat
  BY <1>1, <1>3, <1>4, FS_CardinalityType, Zenon
<1> QED BY <1>1, <1>4, <1>5 DEF Bound

\* One request goes to x; unless it begins to record, nobody else does.
LEMMA SetRecorders ==
    ASSUME IInv, RecInv, NEW r \in Requests, NEW x, Set(r, x),
           x.pc = "record" => x.dbg \in DOMAIN sess /\ ~sess[x.dbg].completed
    PROVE  \A s \in DOMAIN sess : Bound(s, sess[s].captured, req')
<1> TAKE s \in DOMAIN sess
<1>1. Bound(s, sess[s].captured, req) /\ sess[s].captured \in Nat
  <2>1. sess[s] \in SessionRecords
    BY DEF IInv, StoreInv
  <2> QED BY <2>1, Zenon DEF RecInv, SessionRecords
<1>2. req' = [req EXCEPT ![r] = x] /\ req = [q \in Requests |-> req[q]]
  BY Zenon DEF IInv, RequestsInv, Set
<1>3. CASE x.pc = "record" /\ x.dbg = s
  <2>1. ~(sess[s].captured >= Target)
    BY <1>3, Zenon DEF RecInv, Log
  <2>2. sess[s].captured < Target
    BY <1>1, <2>1, SessionAssumption
  <2> QED BY <2>2, Zenon DEF Bound
<1>4. CASE ~(x.pc = "record" /\ x.dbg = s)
  <2>1. Recorders(req', s) \subseteq Recorders(req, s)
    BY <1>2, <1>4, Zenon DEF Recorders
  <2> QED BY <1>1, <2>1, FewerRecorders, Zenon
<1> QED BY <1>3, <1>4, Zenon

\* A step of one request that records nothing.
LEMMA QuietRequest ==
    ASSUME IInv, RecInv, NEW r \in Requests, NEW x, Set(r, x), Quiet(sess, sess'),
           x.pc = "record" => x.dbg \in DOMAIN sess /\ ~sess[x.dbg].completed,
           UNCHANGED <<cp, delivered>>
    PROVE  RecInv'
BY SetRecorders, QuietRec, Zenon

LEMMA SameQuiet == ASSUME sess' = sess PROVE Quiet(sess, sess')
BY Zenon DEF Quiet, SameLog

\* The mutex of the debugger and the close of the bridge record nothing.
LEMMA LockQuiet ==
    ASSUME StoreInv, NEW s \in DOMAIN sess, NEW r,
           LockDebugger(s, r) \/ UnlockDebugger(s) \/ Close(s)
    PROVE  Quiet(sess, sess')
<1>1. sess \in Seq(SessionRecords) /\ sess[s] \in SessionRecords
  BY DEF StoreInv
<1>2. CASE LockDebugger(s, r) \/ UnlockDebugger(s)
  <2>1. PICK h : sess' = [sess EXCEPT ![s] = [sess[s] EXCEPT !.holder = h]]
    BY <1>2, Zenon DEF LockDebugger, UnlockDebugger
  <2> DEFINE x == [sess[s] EXCEPT !.holder = h]
  <2>2. SameLog(sess[s], x)
    BY <1>1, Zenon DEF SessionRecords, SameLog
  <2>3. sess' = [sess EXCEPT ![s] = x]
    BY <2>1, Zenon
  <2> HIDE DEF x
  <2> QED BY <1>1, <2>2, <2>3, Zenon DEF Quiet, SameLog
<1>3. CASE Close(s)
  <2> DEFINE x == [sess[s] EXCEPT !.open = @ /\ sess[s].mode # "remote"]
  <2>1. SameLog(sess[s], x)
    BY <1>1, Zenon DEF SessionRecords, SameLog
  <2>2. sess' = [sess EXCEPT ![s] = x]
    BY <1>1, <1>3, Zenon DEF Close
  <2> HIDE DEF x
  <2> QED BY <1>1, <2>1, <2>2, Zenon DEF Quiet, SameLog
<1> QED BY <1>2, <1>3, Zenon

LEMMA StopQuiet == ASSUME StoreInv, StopSession PROVE Quiet(sess, sess')
BY LockQuiet, Zenon DEF StopSession, StoreInv

LEMMA StartQuiet == ASSUME StoreInv, StartSession PROVE Quiet(sess, sess')
<1>1. PICK mode \in Modes, match \in MatchSets : sess' = Append(sess, NewSession(mode, match))
  BY Zenon DEF StartSession
<1> DEFINE x == NewSession(mode, match)
<1> HIDE DEF x
<1>2. sess \in Seq(SessionRecords) /\ sess' = Append(sess, x)
  BY <1>1, Zenon DEF StoreInv, x
<1>3. /\ \A s \in DOMAIN sess : sess'[s] = sess[s]
      /\ DOMAIN sess' = DOMAIN sess \cup {Len(sess) + 1}
      /\ sess'[Len(sess) + 1] = x
  BY <1>2
<1> QED BY <1>3, Zenon DEF Quiet, SameLog, x

\* Where a slice ends, a request does not begin to record.
LEMMA AfterSliceQuiet ==
    ASSUME NEW x \in RequestRecords, NEW status \in Statuses
    PROVE  AfterSlice(x, status).pc # "record" /\ Done.pc # "record"
<1>1. Done.pc = "done"
  BY Zenon DEF Done, NewRequest
<1>2. CASE status = "halted"
  BY <1>2, <1>1, Zenon DEF AfterSlice, Statuses, RequestRecords
<1>3. CASE status = "yielded"
  BY <1>3, <1>1, Zenon DEF AfterSlice, Statuses, RequestRecords
<1>4. CASE status = "waiting"
  BY <1>4, <1>1, Zenon DEF AfterSlice, Statuses, RequestRecords
<1>5. CASE status = "error"
  BY <1>5, <1>1, Zenon DEF AfterSlice
<1> QED BY <1>2, <1>3, <1>4, <1>5, Zenon DEF Statuses

\* The steps of a request but the one that pushes a recording.
LEMMA RequestRec ==
    ASSUME IInv, RecInv, NEW r \in Requests, RequestStep(r), ~EndRecordedSlice(r),
           UNCHANGED <<cp, delivered>>
    PROVE  RecInv'
<1> DEFINE q == req[r]
<1>1. q \in RequestRecords /\ Good(r, q, sess)
  BY Zenon DEF IInv, RequestsInv, Good
<1>2. \A status \in Statuses : AfterSlice(q, status).pc # "record" /\ Done.pc # "record"
  BY <1>1, AfterSliceQuiet, Zenon
<1>3. Done.pc # "record"
  BY Zenon DEF Done, NewRequest
<1>4. \A pc : [q EXCEPT !.pc = pc].pc = pc
  BY <1>1, Zenon DEF RequestRecords
<1>5. CASE Prepare(r)
  <2>1. PICK x \in {Done, [q EXCEPT !.pc = "ask", !.prog = program]} : Set(r, x)
    BY <1>5, Zenon DEF Prepare
  <2>2. x.pc # "record"
    BY <1>1, <1>3, <2>1, Zenon DEF RequestRecords
  <2> QED BY <1>5, <2>1, <2>2, SameQuiet, QuietRequest, Zenon DEF Prepare
<1>6. CASE AskAttach(r)
  <2> DEFINE x == [q EXCEPT !.pc = "askBlocking", !.attach = Attaches(r)]
  <2>1. Set(r, x) /\ x.pc # "record"
    BY <1>1, <1>6, Zenon DEF AskAttach, RequestRecords
  <2> HIDE DEF x
  <2> QED BY <1>6, <2>1, SameQuiet, QuietRequest, Zenon DEF AskAttach
<1>7. CASE AskBlocking(r)
  <2> DEFINE x == [q EXCEPT !.pc = "acquire", !.blocking = Threading \/ Blocks(r), !.asked = slot]
  <2>1. Set(r, x) /\ x.pc # "record"
    BY <1>1, <1>7, Zenon DEF AskBlocking, RequestRecords
  <2> HIDE DEF x
  <2> QED BY <1>7, <2>1, SameQuiet, QuietRequest, Zenon DEF AskBlocking
<1>8. CASE AcquirePooled(r) \/ AcquireFails(r) \/ AcquireNew(r)
  <2>1. PICK v : Set(r, Done) \/ Set(r, [q EXCEPT !.pc = "slice", !.vm = v])
    BY <1>8, Zenon DEF AcquirePooled, AcquireFails, AcquireNew
  <2>2. [q EXCEPT !.pc = "slice", !.vm = v].pc = "slice"
    BY <1>1, Zenon DEF RequestRecords
  <2>3. sess' = sess
    BY <1>8, Zenon DEF AcquirePooled, AcquireFails, AcquireNew
  <2> QED BY <1>3, <2>1, <2>2, <2>3, SameQuiet, QuietRequest, Zenon
<1>9. CASE BeginSlice(r)
  <2> DEFINE begun == [q EXCEPT !.slices = @ + 1, !.vm.clean = FALSE]
             plain == [begun EXCEPT !.pc = "run"]
             lock == [begun EXCEPT !.pc = "lock", !.dbg = slot]
             record == [begun EXCEPT !.pc = "record", !.dbg = slot]
  <2>1. \/ Set(r, plain)
        \/ Set(r, lock)
        \/ Attaches(r) /\ ~RecordingDone(slot) /\ Set(r, record)
    BY <1>9, Zenon DEF BeginSlice
  <2>3. plain.pc = "run" /\ lock.pc = "lock" /\ record.dbg = slot
    BY <1>1, Zenon DEF RequestRecords
  <2>4. sess' = sess
    BY <1>9, Zenon DEF BeginSlice
  <2>5. Attaches(r) => slot \in DOMAIN sess
    BY Zenon DEF Attaches, IInv, StoreInv
  <2>6. ~RecordingDone(slot) => ~sess[slot].completed
    BY Zenon DEF RecordingDone
  <2> HIDE DEF plain, lock, record
  <2>7. CASE Set(r, plain) \/ Set(r, lock)
    BY <2>3, <2>4, <2>7, SameQuiet, QuietRequest, Zenon
  <2>8. CASE Attaches(r) /\ ~RecordingDone(slot) /\ Set(r, record)
    BY <2>3, <2>4, <2>5, <2>6, <2>8, SameQuiet, QuietRequest, Zenon
  <2> QED BY <2>1, <2>7, <2>8, Zenon
<1>10. CASE TakeDebugger(r)
  <2>1. q.dbg \in DOMAIN sess
    BY <1>1, <1>10, Zenon DEF TakeDebugger, At, Good, InDebugger
  <2>2. Quiet(sess, sess')
    BY <1>10, <2>1, LockQuiet, Zenon DEF TakeDebugger, IInv
  <2> QED BY <1>4, <1>10, <2>2, QuietRequest, Zenon DEF TakeDebugger, Goto
<1>11. CASE Pause(r) \/ Resume(r)
  <2>1. PICK pc \in {"paused", "debug"} : Set(r, [q EXCEPT !.pc = pc])
    BY <1>11, Zenon DEF Pause, Resume, Goto
  <2> QED BY <1>4, <1>11, <2>1, SameQuiet, QuietRequest, Zenon DEF Pause, Resume
<1>12. CASE EndSlice(r)
  <2>1. PICK status \in Statuses : Set(r, AfterSlice(q, status))
    BY <1>12, Zenon DEF EndSlice
  <2> QED BY <1>2, <1>12, <2>1, SameQuiet, QuietRequest, Zenon DEF EndSlice
<1>13. CASE EndDebugSlice(r)
  <2>1. q.dbg \in DOMAIN sess
    BY <1>1, <1>13, Zenon DEF EndDebugSlice, At, Good, InDebugger
  <2>2. Quiet(sess, sess')
    BY <1>13, <2>1, LockQuiet, Zenon DEF EndDebugSlice, IInv
  <2>3. PICK status \in Statuses :
          \/ Set(r, [q EXCEPT !.pc = "detach", !.status = status])
          \/ Set(r, AfterSlice(q, status))
    BY <1>13, Zenon DEF EndDebugSlice
  <2>4. [q EXCEPT !.pc = "detach", !.status = status].pc = "detach"
    BY <1>1, Zenon DEF RequestRecords
  <2> QED BY <1>2, <2>2, <2>3, <2>4, QuietRequest, Zenon
<1>14. CASE Detach(r)
  <2>1. Quiet(sess, sess')
    BY <1>14, StopQuiet, SameQuiet, Zenon DEF Detach, StopIfMatch, IInv
  <2>2. q.status \in Statuses
    BY <1>1, <1>14, Zenon DEF Good, Detach, At
  <2> QED BY <1>2, <1>14, <2>1, <2>2, QuietRequest, Zenon DEF Detach
<1>15. CASE EndAwait(r)
  BY <1>3, <1>4, <1>15, SameQuiet, QuietRequest, Zenon DEF EndAwait, Goto
<1>16. CASE Recycle(r)
  BY <1>3, <1>16, SameQuiet, QuietRequest, Zenon DEF Recycle
<1> QED BY <1>5, <1>6, <1>7, <1>8, <1>9, <1>10, <1>11, <1>12, <1>13, <1>14, <1>15, <1>16, Zenon
  DEF RequestStep

\* The session's recordings grow by one, which has its next number.
LEMMA PushLog ==
    ASSUME NEW s \in Sessions, NEW x \in SessionRecords, NEW q \in Seq(Artifacts),
           NEW d \in Seq(Artifacts), Log(s, x, q, d), NEW y, NEW encoded \in BOOLEAN,
           NEW completed \in BOOLEAN, completed <=> x.completed \/ x.captured + 1 >= Target,
           y.captured = x.captured + 1, y.next = x.next + 1, y.completed = completed,
           y.outbox = IF encoded
                      THEN Append(x.outbox, [session |-> s, seq |-> x.next,
                                             completed |-> completed])
                      ELSE x.outbox
    PROVE  Log(s, y, q, d)
<1> DEFINE o == x.outbox
           n == x.next
           a == [session |-> s, seq |-> n, completed |-> completed]
<1>1. o \in Seq(Artifacts) /\ n \in Nat /\ x.captured \in Nat /\ Target \in Nat
  BY SessionAssumption, Zenon DEF SessionRecords, Outboxes
<1>2. a \in Artifacts /\ a.session = s /\ a.seq = n /\ (a.completed <=> completed)
  BY <1>1, Zenon DEF Artifacts
<1>3. completed <=> x.captured + 1 >= Target
  BY <1>1 DEF Log
<1>4. n = x.captured + 1
  BY Zenon DEF Log
<1>5. Marked(a, n + 1)
  BY <1>1, <1>2, <1>3, <1>4 DEF Marked
<1>6. ASSUME NEW p \in Seq(Artifacts), Numbered(s, n, p) PROVE Numbered(s, n + 1, p)
  <2>1. \A i \in DOMAIN p : p[i] \in Artifacts
    OBVIOUS
  <2>2. \A b \in Artifacts : b.seq \in Nat
    BY Zenon DEF Artifacts
  <2> QED BY <1>1, <1>6, <2>1, <2>2 DEF Numbered, Marked
<1>7. Numbered(s, n + 1, d) /\ Numbered(s, n + 1, q) /\ Numbered(s, n + 1, o)
  BY <1>1, <1>6, Zenon DEF Log
<1>8. y.outbox = Append(o, a) \/ y.outbox = o
  BY Zenon
<1> HIDE DEF a
<1>9. /\ From({s}, Append(o, a)) /\ Numbered(s, n + 1, Append(o, a))
      /\ Line(s, d, q, Append(o, a))
  <2>1. \A i \in DOMAIN Append(o, a) : \/ i \in DOMAIN o /\ Append(o, a)[i] = o[i]
                                       \/ Append(o, a)[i] = a
    BY <1>1, <1>2, AppendLast, Zenon
  <2>2. From({s}, Append(o, a))
    BY <1>2, <2>1, Zenon DEF From, Log
  <2>3. Numbered(s, n + 1, Append(o, a))
    BY <1>5, <1>7, <2>1, Zenon DEF Numbered
  <2>4. Line(s, d, q, Append(o, a))
    BY <1>1, <1>2, LinePush, Zenon DEF Log
  <2> QED BY <2>2, <2>3, <2>4, Zenon
<1>10. From({s}, y.outbox) /\ Line(s, d, q, y.outbox) /\ Numbered(s, n + 1, y.outbox)
  BY <1>7, <1>8, <1>9, Zenon DEF Log
<1> QED BY <1>3, <1>4, <1>7, <1>10, Zenon DEF Log

\* Who pushes is no recorder any more: what is captured past the target was announced.
LEMMA PushBound ==
    ASSUME NEW s, NEW c \in Nat, NEW r \in Requests, NEW f, NEW g, Bound(s, c, f),
           r \in Recorders(f, s), Recorders(g, s) \subseteq Recorders(f, s) \ {r}
    PROVE  Bound(s, c + 1, g)
<1> DEFINE A == Recorders(f, s)
           B == Recorders(g, s)
<1>1. IsFiniteSet(Requests) /\ Target \in Nat
  BY SessionAssumption, Zenon
<1>2. A \in SUBSET Requests
  BY Zenon DEF Recorders
<1> HIDE DEF A, B
<1>3. IsFiniteSet(A) /\ Cardinality(A) <= Cardinality(Requests)
  BY <1>1, <1>2, FS_Subset, Zenon
<1>4. IsFiniteSet(A \ {r}) /\ Cardinality(A \ {r}) = Cardinality(A) - 1
  BY <1>3, FS_RemoveElement, Zenon DEF A
<1>5. IsFiniteSet(B) /\ Cardinality(B) <= Cardinality(A \ {r})
  BY <1>4, FS_Subset, Zenon DEF A, B
<1>6. Cardinality(A) \in Nat /\ Cardinality(B) \in Nat /\ Cardinality(Requests) \in Nat
  BY <1>1, <1>3, <1>5, FS_CardinalityType, Zenon
<1> QED BY <1>1, <1>3, <1>4, <1>5, <1>6 DEF Bound, A, B

LEMMA PushRec ==
    ASSUME IInv, RecInv, NEW r \in Requests, EndRecordedSlice(r), UNCHANGED <<cp, delivered>>
    PROVE  RecInv'
<1> DEFINE q == req[r]
           s == q.dbg
           x == sess[s]
<1>1. /\ q \in RequestRecords /\ q.pc = "record" /\ s \in DOMAIN sess /\ s \in Sessions
      /\ x \in SessionRecords /\ sess \in Seq(SessionRecords)
  BY SessionAssumption DEF IInv, StoreInv, RequestsInv, Good, EndRecordedSlice, At, Sessions
<1>2. x.captured \in Nat /\ x.next \in Nat /\ x.completed \in BOOLEAN
  BY <1>1, Zenon DEF SessionRecords
<1>3. PICK encoded \in BOOLEAN : Push(s, encoded)
  BY Zenon DEF EndRecordedSlice
<1> DEFINE captured == x.captured + 1
           completed == x.completed \/ captured >= Target
           o == IF encoded
                THEN Append(x.outbox, [session |-> s, seq |-> x.next, completed |-> completed])
                ELSE x.outbox
           y == [x EXCEPT !.captured = captured, !.next = x.next + 1,
                          !.completed = completed, !.outbox = o]
<1>4. sess' = [sess EXCEPT ![s] = y]
  BY <1>3, Zenon DEF Push
<1>5. completed \in BOOLEAN /\ (completed <=> x.completed \/ x.captured + 1 >= Target)
  BY Zenon
<1>6. /\ y.captured = x.captured + 1 /\ y.next = x.next + 1 /\ y.completed = completed
      /\ y.outbox = o
  <2> HIDE DEF completed, o, captured
  <2>1. /\ y.captured = captured /\ y.next = x.next + 1 /\ y.completed = completed
        /\ y.outbox = o
    BY <1>1, Zenon DEF SessionRecords
  <2> QED BY <2>1, Zenon DEF captured
<1>7. cp.queue \in Seq(Artifacts) /\ delivered \in Seq(Artifacts)
  BY Zenon DEF IInv, ClientInv
<1>8. Log(s, x, cp.queue, delivered) /\ Bound(s, x.captured, req)
  BY <1>1, Zenon DEF RecInv
<1>9. Log(s, y, cp.queue, delivered)
  <2> HIDE DEF x, y, completed
  <2> QED BY <1>1, <1>5, <1>6, <1>7, <1>8, PushLog, Zenon
<1>10. PICK z : Set(r, z) /\ z.pc # "record"
  BY <1>1, AfterSliceQuiet, Zenon DEF EndRecordedSlice
<1>11. req' = [req EXCEPT ![r] = z] /\ req = [k \in Requests |-> req[k]]
  BY <1>10, Zenon DEF Set, IInv, RequestsInv
<1>12. r \in Recorders(req, s) /\ \A k : Recorders(req', k) \subseteq Recorders(req, k) \ {r}
  BY <1>1, <1>10, <1>11, Zenon DEF Recorders
<1> HIDE DEF y
<1>13. Bound(s, y.captured, req')
  BY <1>2, <1>6, <1>8, <1>12, PushBound, Zenon
<1>14. DOMAIN sess' = DOMAIN sess /\ \A k \in DOMAIN sess : sess'[k] = IF k = s THEN y ELSE sess[k]
  BY <1>1, <1>4, Zenon
<1>15. ASSUME NEW k \in DOMAIN sess
       PROVE  Log(k, sess'[k], cp.queue, delivered) /\ Bound(k, sess'[k].captured, req')
  <2>1. CASE k = s
    BY <1>9, <1>13, <1>14, <2>1, Zenon
  <2>2. CASE k # s
    <3>1. sess'[k] = sess[k] /\ Log(k, sess[k], cp.queue, delivered)
            /\ Bound(k, sess[k].captured, req)
      BY <1>14, <2>2, Zenon DEF RecInv
    <3>2. sess[k] \in SessionRecords
      BY <1>1
    <3>3. sess[k].captured \in Nat
      BY <3>2, Zenon DEF SessionRecords
    <3> QED BY <1>12, <3>1, <3>3, FewerRecorders, Zenon
  <2> QED BY <2>1, <2>2, Zenon
<1> QED BY <1>14, <1>15, Zenon DEF RecInv

LEMMA DrainRec == ASSUME IInv, RecInv, DrainRecordings PROVE RecInv'
<1> DEFINE p == Drained
<1>1. /\ cp.pc = "drain" /\ cp.queue = << >> /\ Drain /\ cp' = Sending(p)
      /\ UNCHANGED <<slot, req, delivered>>
  BY Zenon DEF DrainRecordings, RecInv
<1>2. cp'.queue = p /\ (cp'.pc # "send" => p = << >>)
  BY <1>1, Zenon DEF Sending
<1>3. CASE slot = None
  <2>1. p = << >> /\ sess' = sess
    BY <1>1, <1>3, Zenon DEF Drained, Drain
  <2> QED BY <1>1, <1>2, <2>1, Zenon DEF RecInv
<1>4. CASE slot # None
  <2> DEFINE x == sess[slot]
             y == [x EXCEPT !.outbox = << >>]
  <2>1. slot \in DOMAIN sess /\ sess \in Seq(SessionRecords) /\ x \in SessionRecords
    BY <1>4 DEF IInv, StoreInv
  <2>2. sess' = [sess EXCEPT ![slot] = y]
    BY <1>1, <1>4, Zenon DEF Drain
  <2>3. /\ y.captured = x.captured /\ y.next = x.next /\ y.completed = x.completed
        /\ y.outbox = << >>
    BY <2>1, Zenon DEF SessionRecords
  <2>4. p = << >> \/ p = x.outbox
    BY Zenon DEF Drained
  <2> HIDE DEF y, p
  <2>5. /\ DOMAIN sess' = DOMAIN sess
        /\ \A k \in DOMAIN sess : sess'[k] = IF k = slot THEN y ELSE sess[k]
    BY <2>1, <2>2, Zenon
  <2>6. Log(slot, x, << >>, delivered) /\ Bound(slot, x.captured, req)
    BY <1>1, <2>1, Zenon DEF RecInv
  <2>7. From({slot}, p) /\ DOMAIN << >> = {} /\ Numbered(slot, x.next, p)
    BY <2>4, <2>6 DEF Log, From, Numbered
  <2>8. Log(slot, y, p, delivered)
    <3>1. Line(slot, delivered, x.outbox, << >>) /\ Line(slot, delivered, << >>, << >>)
      BY <2>6, LineDrain, <2>7, Zenon DEF Log
    <3>2. Line(slot, delivered, p, << >>)
      BY <2>4, <3>1, Zenon
    <3> QED BY <2>3, <2>6, <2>7, <3>2, Zenon DEF Log, From, Numbered
  <2>9. ASSUME NEW k \in DOMAIN sess
        PROVE  Log(k, sess'[k], p, delivered) /\ Bound(k, sess'[k].captured, req)
    <3>1. CASE k = slot
      BY <2>3, <2>5, <2>6, <2>8, <3>1, Zenon
    <3>2. CASE k # slot
      <4>1. sess'[k] = sess[k] /\ Log(k, sess[k], << >>, delivered)
              /\ Bound(k, sess[k].captured, req)
        BY <1>1, <2>5, <3>2, Zenon DEF RecInv
      <4>2. \A i \in DOMAIN p : p[i].session # k
        BY <2>7, <3>2, Zenon DEF From
      <4>3. Line(k, delivered, p, sess[k].outbox)
        BY <4>1, <4>2, LineDrain, Zenon DEF Log
      <4> QED BY <4>1, <4>2, <4>3, Zenon DEF Log, Numbered
    <3> QED BY <3>1, <3>2, Zenon
  <2>10. From(DOMAIN sess, p) /\ From(DOMAIN sess, delivered)
    BY <2>1, <2>7, Zenon DEF From, RecInv
  <2> QED BY <1>1, <1>2, <2>5, <2>9, <2>10, Zenon DEF RecInv
<1> QED BY <1>3, <1>4, Zenon

LEMMA SendRec == ASSUME IInv, RecInv, SendRecording PROVE RecInv'
<1> DEFINE q == cp.queue
           d == delivered
           t == Tail(q)
           e == Append(d, Head(q))
<1>1. q \in Seq(Artifacts) /\ d \in Seq(Artifacts) /\ q # << >>
  BY Zenon DEF IInv, ClientInv, SendRecording
<1>2. /\ cp' = Sending(t) /\ UNCHANGED <<slot, sess, req>>
      /\ delivered' = d \/ delivered' = e
  BY Zenon DEF SendRecording
<1>3. cp'.queue = t /\ (cp'.pc # "send" => t = << >>)
  BY <1>2, Zenon DEF Sending
<1> HIDE DEF q
<1>4. /\ Head(q) = q[1] /\ 1 \in DOMAIN q /\ Head(q) \in Artifacts
      /\ \A i \in DOMAIN t : i + 1 \in DOMAIN q /\ t[i] = q[i + 1]
  BY <1>1, HeadTail, Zenon
<1>5. \A i \in DOMAIN e : (i \in DOMAIN d /\ e[i] = d[i]) \/ e[i] = q[1]
  BY <1>1, <1>4, AppendLast, Zenon
<1> HIDE DEF t, e
<1>6. From(DOMAIN sess, t) /\ From(DOMAIN sess, delivered')
  BY <1>2, <1>4, <1>5, Zenon DEF RecInv, From, q
<1>7. ASSUME NEW s \in DOMAIN sess PROVE Log(s, sess[s], t, delivered')
  <2> DEFINE o == sess[s].outbox
             n == sess[s].next
  <2>1. Log(s, sess[s], q, d)
    BY Zenon DEF RecInv, q
  <2>2. o \in Seq(Artifacts)
    <3>1. sess[s] \in SessionRecords
      BY DEF IInv, StoreInv
    <3> QED BY <3>1, Zenon DEF SessionRecords, Outboxes
  <2>3. Line(s, d, t, o) /\ Line(s, e, t, o)
    BY <1>1, <2>1, <2>2, LineSend, Zenon DEF Log, t, e
  <2>4. Numbered(s, n, t) /\ Numbered(s, n, e)
    BY <1>4, <1>5, <2>1, Zenon DEF Log, Numbered
  <2> QED BY <1>2, <2>1, <2>3, <2>4, Zenon DEF Log
<1> QED BY <1>2, <1>3, <1>6, <1>7, Zenon DEF RecInv

LEMMA RecInductive == ASSUME IInv, RecInv, [Next]_vars PROVE RecInv'
<1>1. ASSUME NEW r \in Requests, Request(r) PROVE RecInv'
  BY <1>1, RequestRec, PushRec, Zenon DEF Request
<1>2. \A s \in DOMAIN sess : Bound(s, sess[s].captured, req)
  BY Zenon DEF RecInv
<1>3. ASSUME \/ ApplyProgram
             \/ StartSession /\ UNCHANGED <<program, pool, req>>
             \/ StopSession /\ UNCHANGED <<program, pool, req>>
             \/ UNCHANGED <<slot, sess, program, pool, req>>
      PROVE  Quiet(sess, sess') /\ req' = req
  BY <1>3, StartQuiet, StopQuiet, SameQuiet, Zenon DEF ApplyProgram, IInv
<1>4. CASE AdminApply \/ AdminStart \/ AdminStop \/ UNCHANGED vars
  <2>1. Quiet(sess, sess') /\ UNCHANGED <<req, cp, delivered>>
    BY <1>3, <1>4, Zenon DEF AdminApply, AdminStart, AdminStop, vars, ApplyProgram
  <2> QED BY <1>2, <2>1, QuietRec, Zenon
<1>5. cp \in ClientRecords
  BY Zenon DEF IInv, ClientInv, ClientRecords, Outboxes
<1>6. CASE Command
  <2>1. Quiet(sess, sess') /\ UNCHANGED <<req, delivered>> /\ cp.pc = "poll"
    BY <1>3, <1>6, Zenon DEF Command
  <2>2. cp'.queue = cp.queue
    BY <1>5, <1>6, Zenon DEF Command, ClientRecords
  <2> QED BY <1>2, <2>1, <2>2, QuietRec, Zenon
<1>7. CASE DebugCommand
  <2>1. Quiet(sess, sess') /\ UNCHANGED <<req, delivered>> /\ cp.pc = "poll"
    BY <1>7, SameQuiet, Zenon DEF DebugCommand
  <2>2. cp'.queue = cp.queue
    BY <1>5, <1>7, Zenon DEF DebugCommand, ClientRecords
  <2> QED BY <1>2, <2>1, <2>2, QuietRec, Zenon
<1>8. CASE DebugAnswer
  <2>1. Quiet(sess, sess') /\ delivered' = delivered /\ cp.pc = "command"
    BY <1>8, SameQuiet, Zenon DEF DebugAnswer
  <2>2. cp'.queue = cp.queue
    BY <1>5, <1>8, Zenon DEF DebugAnswer, ClientRecords
  <2>3. \A s \in DOMAIN sess : Bound(s, sess[s].captured, req')
    <3>1. CASE \E r \in Requests : Goto(r, "debug")
      <4>1. PICK r \in Requests : Goto(r, "debug")
        BY <3>1, Zenon
      <4>2. req[r] \in RequestRecords
        BY Zenon DEF IInv, RequestsInv, Good
      <4>3. [req[r] EXCEPT !.pc = "debug"].pc = "debug"
        BY <4>2, Zenon DEF RequestRecords
      <4> QED BY <4>1, <4>3, SetRecorders, Zenon DEF Goto
    <3> QED BY <1>2, <1>8, <3>1, Zenon DEF DebugAnswer
  <2> QED BY <2>1, <2>2, <2>3, QuietRec, Zenon
<1> QED BY <1>1, <1>4, <1>6, <1>7, <1>8, DrainRec, SendRec, Zenon DEF Next, ControlPlane

\* The recordings of a session reach the control plane in their order and once,
\* marked from the target on, and requests record past the target no more than
\* once each, however drains, sends and sessions interleave with the requests
\* (drain_recording_artifacts, the push under the recording runtime's lock).
THEOREM RecordingsKeepOrder == Spec => []RecordingsInOrder
<1>1. Init => RecInv
  <2> SUFFICES ASSUME Init PROVE RecInv
    BY Zenon
  <2>1. DOMAIN sess = {} /\ DOMAIN delivered = {} /\ cp.queue = << >> /\ DOMAIN << >> = {}
    BY DEF Init
  <2> QED BY <2>1, Zenon DEF RecInv, From
<1>2. IInv /\ RecInv => RecordingsInOrder
  <2> SUFFICES ASSUME IInv, RecInv, NEW s \in DOMAIN sess
               PROVE  LET all == delivered \o cp.queue \o sess[s].outbox
                          mine == {i \in DOMAIN all : all[i].session = s}
                      IN  /\ \A i, j \in mine : i < j => all[i].seq < all[j].seq
                          /\ \A i \in mine : all[i].completed <=> all[i].seq >= Target
                          /\ sess[s].captured <= Target + Cardinality(Requests) - 1
    BY Zenon DEF RecordingsInOrder
  <2> DEFINE x == sess[s]
             all == delivered \o cp.queue \o x.outbox
  <2>1. x \in SessionRecords
    BY DEF IInv, StoreInv
  <2>2. x.outbox \in Seq(Artifacts) /\ x.captured \in Nat
    BY <2>1, Zenon DEF SessionRecords, Outboxes
  <2>3. cp.queue \in Seq(Artifacts) /\ delivered \in Seq(Artifacts)
    BY Zenon DEF IInv, ClientInv
  <2>4. Log(s, x, cp.queue, delivered) /\ Bound(s, x.captured, req)
    BY Zenon DEF RecInv
  <2>5. Ordered(s, all) /\ Numbered(s, x.next, all)
    BY <2>2, <2>3, <2>4, LineJoin, Zenon DEF Log
  <2>6. x.captured <= Target + Cardinality(Requests) - 1
    <3>1. Recorders(req, s) \in SUBSET Requests /\ IsFiniteSet(Requests) /\ Target \in Nat
      BY SessionAssumption, Zenon DEF Recorders
    <3>2. IsFiniteSet(Recorders(req, s))
      BY <3>1, FS_Subset, Zenon
    <3>3. Cardinality(Recorders(req, s)) \in Nat /\ Cardinality(Requests) \in Nat
      BY <3>1, <3>2, FS_CardinalityType, Zenon
    <3> QED BY <2>2, <2>4, <3>1, <3>3 DEF Bound
  <2> HIDE DEF all
  <2>7. \A i \in DOMAIN all : all[i].session = s => (all[i].completed <=> all[i].seq >= Target)
    BY <2>5, Zenon DEF Numbered, Marked
  <2>8. \A i, j \in DOMAIN all :
           all[i].session = s /\ all[j].session = s /\ i < j => all[i].seq < all[j].seq
    BY <2>5, Zenon DEF Ordered
  <2> QED BY <2>6, <2>7, <2>8, Zenon DEF all
<1> QED BY <1>1, <1>2, Invariance, RecInductive, PTL DEF Spec

\* A request ends only the session it detached from, which matched it and does
\* not record (stop_debug_session_if_match).
THEOREM DetachEndsItsOwn == Spec => DetachKeepsNewer
<1>1. IInv /\ [Next]_vars => [\A r \in Requests : Detach(r) /\ slot' # slot =>
           slot = req[r].dbg /\ Interactive(slot) /\ r \in sess[slot].match]_vars
  <2> SUFFICES ASSUME IInv, NEW r \in Requests, Detach(r), slot' # slot
               PROVE  slot = req[r].dbg /\ Interactive(slot) /\ r \in sess[slot].match
    BY Zenon
  <2>1. slot = req[r].dbg /\ req[r].pc = "detach"
    BY Zenon DEF Detach, StopIfMatch, At
  <2>2. r \in sess[req[r].dbg].match /\ sess[req[r].dbg].mode # "recording"
    BY <2>1, Zenon DEF IInv, RequestsInv, Good
  <2> QED BY <2>1, <2>2, Zenon DEF Interactive
<1> QED BY <1>1, Invariance, PTL DEF Spec, DetachKeepsNewer
=============================================================================
