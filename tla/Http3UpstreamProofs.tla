------------------------- MODULE Http3UpstreamProofs -------------------------
(***************************************************************************)
(* What the pool of upstream HTTP/3 sessions promises, for any number of   *)
(* requests, keys and sessions: StoreAgrees and FallbackBeforeAttach.      *)
(* The inductive invariant says what an entry of the store is in terms of  *)
(* the sessions' records, that a request which needs a session has one of  *)
(* its own key, and that a request which has not attached its stream is in *)
(* no session's map.                                                       *)
(***************************************************************************)
EXTENDS Http3Upstream, DataProofs

StreamMaps == UNION {[D -> StreamFrontiers] : D \in SUBSET Http3Requests}

Dags == {d \in [frontier : SessionFrontiers, goaway : BOOLEAN, streams : StreamMaps] :
            IsFiniteSet(DOMAIN d.streams)}

\* No stream is added, and a session that refused streams still does.
Calmer(d, e) ==
    /\ e \in Dags
    /\ DOMAIN e.streams \subseteq DOMAIN d.streams
    /\ CanAcceptNewStreams(e) => CanAcceptNewStreams(d)

----------------------------------------------------------------------------
(* The records of the sessions.                                            *)

LEMMA DagParts ==
    ASSUME NEW d \in Dags
    PROVE  /\ d = [frontier |-> d.frontier, goaway |-> d.goaway, streams |-> d.streams]
           /\ d.frontier \in SessionFrontiers /\ d.goaway \in BOOLEAN
           /\ DOMAIN d.streams \subseteq Http3Requests /\ IsFiniteSet(DOMAIN d.streams)
           /\ d.streams \in [DOMAIN d.streams -> StreamFrontiers]
           /\ ActiveStreamCount(d) \in Nat
<1>1. d.streams \in StreamMaps /\ IsFiniteSet(DOMAIN d.streams)
  BY Zenon DEF Dags
<1>2. PICK D \in SUBSET Http3Requests : d.streams \in [D -> StreamFrontiers]
  BY <1>1, Zenon DEF StreamMaps
<1>3. ActiveStreamCount(d) \in Nat
  BY <1>1, FS_CardinalityType, Zenon DEF ActiveStreamCount
<1>4. d.frontier \in SessionFrontiers /\ d.goaway \in BOOLEAN
  BY Zenon DEF Dags
<1>5. d = [frontier |-> d.frontier, goaway |-> d.goaway, streams |-> d.streams]
  BY Zenon DEF Dags
<1> QED BY <1>1, <1>2, <1>3, <1>4, <1>5, Zenon

LEMMA DagMade ==
    ASSUME NEW D \in SUBSET Http3Requests, IsFiniteSet(D), NEW m \in [D -> StreamFrontiers],
           NEW f \in SessionFrontiers, NEW g \in BOOLEAN
    PROVE  [frontier |-> f, goaway |-> g, streams |-> m] \in Dags
<1>1. m \in StreamMaps
  BY Zenon DEF StreamMaps
<1>2. DOMAIN m = D
  BY Zenon
<1> QED BY <1>1, <1>2, Zenon DEF Dags

LEMMA NewDagOK == NewDag \in Dags /\ DOMAIN NewDag.streams = {}
<1>1. [x \in {} |-> "Closed"] \in [{} -> StreamFrontiers] /\ IsFiniteSet({})
  BY FS_EmptySet, Zenon
<1>2. NewDag \in Dags
  BY <1>1, DagMade, Zenon DEF NewDag, SessionFrontiers
<1> QED BY <1>2, Zenon DEF NewDag

\* What moves one stream.
LEMMA SetStreamCalms ==
    ASSUME NEW d \in Dags, NEW r, NEW f \in StreamFrontiers
    PROVE  Calmer(d, SetStream(d, r, f)) /\ SetStream(d, r, f).frontier = d.frontier
<1> DEFINE m == [d.streams EXCEPT ![r] = f]
           e == [frontier |-> d.frontier, goaway |-> d.goaway, streams |-> m]
<1>1. CASE r \in DOMAIN d.streams
  <2>1. SetStream(d, r, f) = e
    BY <1>1, DagParts DEF SetStream
  <2>2. m \in [DOMAIN d.streams -> StreamFrontiers]
    BY DagParts, Zenon
  <2>3. e \in Dags
    BY <2>2, DagParts, DagMade, Zenon
  <2>4. e.frontier = d.frontier /\ e.goaway = d.goaway /\ DOMAIN e.streams = DOMAIN d.streams
    BY <2>2, Zenon
  <2> QED BY <2>1, <2>3, <2>4, Zenon DEF Calmer, CanAcceptNewStreams
<1>2. CASE r \notin DOMAIN d.streams
  BY <1>2, Zenon DEF SetStream, Calmer
<1> QED BY <1>1, <1>2, Zenon

LEMMA RetainLiveCalms ==
    ASSUME NEW d \in Dags
    PROVE  Calmer(d, RetainLive(d)) /\ RetainLive(d).frontier = d.frontier
<1> DEFINE D == {q \in DOMAIN d.streams : ~StreamTerminal(d.streams[q])}
           m == [r \in D |-> d.streams[r]]
           e == [frontier |-> d.frontier, goaway |-> d.goaway, streams |-> m]
<1>1. RetainLive(d) = e
  BY DagParts DEF RetainLive
<1>2. D \in SUBSET Http3Requests /\ D \subseteq DOMAIN d.streams
  BY DagParts, Zenon
<1>3. IsFiniteSet(D)
  BY <1>2, DagParts, FS_Subset, Zenon
<1>4. m \in [D -> StreamFrontiers]
  BY DagParts, Zenon
<1>5. d.frontier \in SessionFrontiers /\ d.goaway \in BOOLEAN
  BY DagParts, Zenon
<1> HIDE DEF D
<1>6. e \in Dags
  BY <1>2, <1>3, <1>4, <1>5, DagMade, Zenon
<1>7. e.frontier = d.frontier /\ e.goaway = d.goaway /\ DOMAIN e.streams = D
  BY Zenon
<1> QED BY <1>1, <1>2, <1>6, <1>7, Zenon DEF Calmer, CanAcceptNewStreams

\* A change of the frontier and of the GOAWAY mark.
LEMMA FrontierCalms ==
    ASSUME NEW d \in Dags, NEW f \in SessionFrontiers, NEW g \in BOOLEAN,
           f = "Open" /\ ~g => CanAcceptNewStreams(d)
    PROVE  Calmer(d, [frontier |-> f, goaway |-> g, streams |-> d.streams])
<1> DEFINE e == [frontier |-> f, goaway |-> g, streams |-> d.streams]
<1>1. e \in Dags
  BY DagParts, DagMade, Zenon
<1>2. e.frontier = f /\ e.goaway = g /\ e.streams = d.streams
  BY Zenon
<1>3. CanAcceptNewStreams(e) => CanAcceptNewStreams(d)
  BY <1>2, Zenon DEF CanAcceptNewStreams
<1> QED BY <1>1, <1>2, <1>3, Zenon DEF Calmer

LEMMA CalmerTwice ==
    ASSUME NEW d, NEW e, NEW f, Calmer(d, e), Calmer(e, f) PROVE Calmer(d, f)
  BY Zenon DEF Calmer

LEMMA MarkClosedCalms ==
    ASSUME NEW d \in Dags, NEW r PROVE Calmer(d, MarkStreamClosed(d, r))
<1> DEFINE c == SetStream(d, r, "Closed")
           n == RetainLive(c)
           f == IF n.frontier = "Draining" /\ DOMAIN n.streams = {} THEN "Closed" ELSE n.frontier
<1>1. Calmer(d, c) /\ c \in Dags
  BY SetStreamCalms, Zenon DEF StreamFrontiers, Calmer
<1> HIDE DEF c
<1>2. Calmer(c, n) /\ n \in Dags
  BY <1>1, RetainLiveCalms, Zenon DEF Calmer
<1> HIDE DEF n
<1>3. Calmer(n, [n EXCEPT !.frontier = f])
  <2>1. f \in SessionFrontiers /\ n.goaway \in BOOLEAN
    BY <1>2, DagParts, Zenon DEF SessionFrontiers
  <2>2. f = "Open" /\ ~n.goaway => CanAcceptNewStreams(n)
    BY Zenon DEF CanAcceptNewStreams
  <2>3. [n EXCEPT !.frontier = f] = [frontier |-> f, goaway |-> n.goaway, streams |-> n.streams]
    BY <1>2, DagParts
  <2> DEFINE g == n.goaway
  <2>4. g \in BOOLEAN /\ (f = "Open" /\ ~g => CanAcceptNewStreams(n))
    BY <2>1, <2>2, Zenon
  <2> HIDE DEF f, g
  <2>5. Calmer(n, [frontier |-> f, goaway |-> g, streams |-> n.streams])
    BY <1>2, <2>1, <2>4, FrontierCalms, Zenon
  <2> QED BY <2>3, <2>5, Zenon DEF g
<1> HIDE DEF f
<1>4. MarkStreamClosed(d, r) = [n EXCEPT !.frontier = f]
  BY Zenon DEF MarkStreamClosed, n, c, f
<1> QED BY <1>1, <1>2, <1>3, <1>4, CalmerTwice, Zenon

LEMMA MarkResetCalms ==
    ASSUME NEW d \in Dags, NEW r PROVE Calmer(d, MarkStreamReset(d, r))
<1> DEFINE c == SetStream(d, r, "Reset")
<1>1. Calmer(d, c) /\ c \in Dags
  BY SetStreamCalms, Zenon DEF StreamFrontiers, Calmer
<1> HIDE DEF c
<1>2. Calmer(c, RetainLive(c))
  BY <1>1, RetainLiveCalms, Zenon
<1> QED BY <1>1, <1>2, CalmerTwice, Zenon DEF MarkStreamReset, c

LEMMA ErrorCalms ==
    ASSUME NEW d \in Dags, NEW kind \in ErrorKinds PROVE Calmer(d, ApplyError(d, kind))
<1>1. CASE kind = "goaway"
  <2> DEFINE f == IF SessionTerminal(d.frontier) THEN d.frontier ELSE "Draining"
  <2>1. f \in SessionFrontiers
    BY DagParts, Zenon DEF SessionFrontiers
  <2>2. ApplyError(d, kind) = [frontier |-> f, goaway |-> TRUE, streams |-> d.streams]
    BY <1>1, Zenon DEF ApplyError, MarkGoaway
  <2> HIDE DEF f
  <2> QED BY <2>1, <2>2, FrontierCalms, Zenon
<1>2. CASE kind = "other"
  <2> DEFINE m == [r \in DOMAIN d.streams |->
                     IF StreamTerminal(d.streams[r]) THEN d.streams[r] ELSE "Reset"]
             e == [frontier |-> "Failed", goaway |-> d.goaway, streams |-> m]
  <2>1. ApplyError(d, kind) = e
    <3>1. ApplyError(d, kind) = [d EXCEPT !.frontier = "Failed", !.streams = m]
      BY <1>2, Zenon DEF ApplyError, MarkConnectionFailed
    <3> HIDE DEF m
    <3> QED BY <3>1, DagParts, Zenon
  <2>2. m \in [DOMAIN d.streams -> StreamFrontiers]
    BY DagParts, Zenon DEF StreamFrontiers
  <2>3. e \in Dags
    <3> HIDE DEF m
    <3> QED BY <2>2, DagParts, DagMade, Zenon DEF SessionFrontiers
  <2> QED BY <2>1, <2>3 DEF Calmer, CanAcceptNewStreams
<1> QED BY <1>1, <1>2, Zenon DEF ErrorKinds

LEMMA ConnectionClosedCalms ==
    ASSUME NEW d \in Dags PROVE Calmer(d, MarkConnectionClosed(d))
<1> DEFINE f == CASE d.frontier = "Draining" /\ DOMAIN d.streams = {} -> "Closed"
                  [] d.frontier = "Open" -> "Draining"
                  [] OTHER -> d.frontier
<1>1. f \in SessionFrontiers /\ f # "Open"
  BY DagParts, Zenon DEF SessionFrontiers
<1>2. MarkConnectionClosed(d) = [frontier |-> f, goaway |-> d.goaway, streams |-> d.streams]
  BY DagParts DEF MarkConnectionClosed
<1> HIDE DEF f
<1>3. d.goaway \in BOOLEAN /\ (f = "Open" /\ ~d.goaway => CanAcceptNewStreams(d))
  BY <1>1, DagParts, Zenon
<1> QED BY <1>1, <1>2, <1>3, FrontierCalms, Zenon

LEMMA AttachAdds ==
    ASSUME NEW d \in Dags, NEW r \in Http3Requests
    PROVE  LET e == AttachStream(d, r)
           IN /\ e \in Dags
              /\ DOMAIN e.streams = DOMAIN d.streams \cup {r}
              /\ CanAcceptNewStreams(e) => CanAcceptNewStreams(d)
<1> DEFINE D == DOMAIN d.streams \cup {r}
           m == [q \in D |-> IF q = r THEN "AttachedToExchange" ELSE d.streams[q]]
           e == [frontier |-> d.frontier, goaway |-> d.goaway, streams |-> m]
<1>1. AttachStream(d, r) = e
  BY DagParts DEF AttachStream
<1>2. m \in [D -> StreamFrontiers] /\ D \in SUBSET Http3Requests
  BY DagParts, Zenon DEF StreamFrontiers
<1>3. IsFiniteSet(D)
  BY DagParts, FS_AddElement, Zenon
<1>4. e \in Dags
  <2> HIDE DEF D, m
  <2> QED BY <1>2, <1>3, DagParts, DagMade, Zenon
<1> QED BY <1>1, <1>4 DEF CanAcceptNewStreams

----------------------------------------------------------------------------
(* The store, in terms of the sessions' records dg and keys og.            *)

Accepting(dg) == {s \in 1 .. Len(dg) : CanAcceptNewStreams(dg[s])}

\* The sessions q of an entry: different ones, connected for the key k, at most
\* max_reusable_sessions_per_origin of which accept streams.
EntryOK(k, q, dg, og) ==
    /\ q \in Seq(1 .. Len(dg))
    /\ Distinct(q)
    /\ \A s \in Elems(q) : og[s] = k
    /\ CountIn(q, Accepting(dg)) <= MaxReusable

StoreOK(st, dg, og) ==
    /\ IsStore(st, Http3Keys, Seq(1 .. Len(dg)))
    /\ StoreShape(st, StoreCapacity)
    /\ \A k \in Present(st) : EntryOK(k, st.values[k], dg, og)

\* Sessions may be added, and those there may stop accepting streams.
Ages(dg, og, eg, pg) ==
    /\ Len(dg) \in Nat /\ Len(eg) \in Nat /\ Len(dg) <= Len(eg)
    /\ \A s \in 1 .. Len(dg) :
         /\ pg[s] = og[s]
         /\ CanAcceptNewStreams(eg[s]) => CanAcceptNewStreams(dg[s])

LEMMA EntryAges ==
    ASSUME NEW dg, NEW og, NEW eg, NEW pg, Ages(dg, og, eg, pg),
           NEW k, NEW q, EntryOK(k, q, dg, og)
    PROVE  EntryOK(k, q, eg, pg)
<1> DEFINE A == 1 .. Len(dg)
           B == 1 .. Len(eg)
<1>1. A \subseteq B
  BY DEF Ages
<1>2. q \in Seq(A) /\ Distinct(q) /\ Elems(q) \subseteq A
  BY ElemsType, Zenon DEF EntryOK
<1>3. q \in Seq(B)
  <2> HIDE DEF A, B
  <2> QED BY <1>1, <1>2, SeqWidens, Zenon
<1>4. \A x \in Elems(q) \cap Accepting(eg) : x \in Elems(q) \cap Accepting(dg)
  BY <1>2, Zenon DEF Accepting, Ages
<1>5. CountIn(q, Accepting(eg)) <= CountIn(q, Accepting(dg))
  BY <1>2, <1>4, CountMono, Zenon
<1>6. CountIn(q, Accepting(eg)) \in Nat /\ CountIn(q, Accepting(dg)) \in Nat
  BY <1>2, CountType, Zenon
<1>7. CountIn(q, Accepting(eg)) <= MaxReusable
  BY <1>5, <1>6, Http3Assumption DEF EntryOK
<1>8. \A s \in Elems(q) : pg[s] = k
  BY <1>2, Zenon DEF EntryOK, Ages
<1> QED BY <1>2, <1>3, <1>7, <1>8, Zenon DEF EntryOK

LEMMA StoreAges ==
    ASSUME NEW dg, NEW og, NEW eg, NEW pg, Ages(dg, og, eg, pg),
           NEW st, StoreOK(st, dg, og)
    PROVE  StoreOK(st, eg, pg)
<1>1. \A k \in Present(st) : EntryOK(k, st.values[k], eg, pg)
  BY EntryAges DEF StoreOK
<1>2. \A k \in Present(st) : st.values[k] \in Seq(1 .. Len(eg))
  BY <1>1, Zenon DEF EntryOK
<1>3. /\ st = [values |-> st.values, order |-> st.order]
      /\ Present(st) \subseteq Http3Keys /\ IsFiniteSet(Present(st))
      /\ st.values \in [Present(st) -> Seq(1 .. Len(dg))]
      /\ st.order \in Seq(Http3Keys)
  BY Zenon DEF StoreOK, IsStore
<1> HIDE DEF Present
<1>4. st.values \in [Present(st) -> Seq(1 .. Len(eg))]
  BY <1>2, <1>3, Zenon
<1>5. IsStore(st, Http3Keys, Seq(1 .. Len(eg)))
  BY <1>3, <1>4, Zenon DEF IsStore
<1> QED BY <1>1, <1>5, Zenon DEF StoreOK

LEMMA EntryKept ==
    ASSUME NEW dg, NEW og, NEW k, NEW q, EntryOK(k, q, dg, og), NEW K
    PROVE  EntryOK(k, Kept(q, K), dg, og)
<1> DEFINE A == 1 .. Len(dg)
           p == Kept(q, K)
           R == Accepting(dg)
<1>1. q \in Seq(A) /\ Distinct(q) /\ CountIn(q, R) <= MaxReusable /\ \A s \in Elems(q) : og[s] = k
  BY Zenon DEF EntryOK
<1>2. p \in Seq(A) /\ Distinct(p) /\ Elems(p) = Elems(q) \cap K
  BY <1>1, KeptKeeps, Zenon
<1> HIDE DEF p, R
<1>3. CountIn(p, R) <= CountIn(q, R)
  BY <1>1, <1>2, CountMono, Zenon
<1>4. CountIn(p, R) \in Nat /\ CountIn(q, R) \in Nat
  BY <1>1, <1>2, CountType, Zenon
<1>5. CountIn(p, R) <= MaxReusable
  BY <1>1, <1>3, <1>4, Http3Assumption
<1> QED BY <1>1, <1>2, <1>5, Zenon DEF EntryOK, p, R

LEMMA StoreKept ==
    ASSUME NEW dg, NEW og, NEW st, StoreOK(st, dg, og), NEW L
    PROVE  StoreOK(Retain(st, L), dg, og)
<1> DEFINE t == Retain(st, L)
           V == Seq(1 .. Len(dg))
<1>1. IsStore(st, Http3Keys, V) /\ StoreShape(st, StoreCapacity) /\ StoreCapacity \in Nat
  BY Http3Assumption, Zenon DEF StoreOK
<1>2. /\ IsStore(t, Http3Keys, V) /\ StoreShape(t, StoreCapacity)
      /\ Present(t) = Present(st) \cap L /\ \A k \in Present(t) : t.values[k] = st.values[k]
  <2> HIDE DEF V
  <2> QED BY <1>1, RetainKeeps
<1>3. \A k \in Present(t) : EntryOK(k, t.values[k], dg, og)
  BY <1>2, Zenon DEF StoreOK
<1> QED BY <1>2, <1>3, Zenon DEF StoreOK

LEMMA StorePut ==
    ASSUME NEW dg, NEW og, NEW st, StoreOK(st, dg, og), NEW k \in Present(st),
           NEW q, EntryOK(k, q, dg, og)
    PROVE  StoreOK([st EXCEPT !.values = With(st.values, k, q)], dg, og)
<1> DEFINE t == [st EXCEPT !.values = With(st.values, k, q)]
           V == Seq(1 .. Len(dg))
<1>1. IsStore(st, Http3Keys, V) /\ StoreShape(st, StoreCapacity) /\ q \in V
  BY Zenon DEF StoreOK, EntryOK
<1>2. /\ IsStore(t, Http3Keys, V) /\ StoreShape(t, StoreCapacity)
      /\ Present(t) = Present(st) /\ t.values[k] = q
      /\ \A j \in Present(t) \ {k} : t.values[j] = st.values[j]
  <2> HIDE DEF V
  <2> QED BY <1>1, PutKeeps
<1> HIDE DEF t
<1>3. \A j \in Present(t) : EntryOK(j, t.values[j], dg, og)
  <2> SUFFICES ASSUME NEW j \in Present(t) PROVE EntryOK(j, t.values[j], dg, og)
    BY Zenon
  <2>1. CASE j = k
    BY <1>2, <2>1, Zenon
  <2>2. CASE j # k
    BY <1>2, <2>2, Zenon DEF StoreOK
  <2> QED BY <2>1, <2>2, Zenon
<1> QED BY <1>2, <1>3, Zenon DEF StoreOK, t

LEMMA StoreInsert ==
    ASSUME NEW dg, NEW og, NEW st, StoreOK(st, dg, og), NEW k \in Http3Keys,
           NEW q, EntryOK(k, q, dg, og)
    PROVE  StoreOK(Insert(st, StoreCapacity, k, q), dg, og)
<1> DEFINE t == Insert(st, StoreCapacity, k, q)
           V == Seq(1 .. Len(dg))
<1>1. /\ IsStore(st, Http3Keys, V) /\ StoreShape(st, StoreCapacity) /\ q \in V
      /\ StoreCapacity \in Nat
  BY Http3Assumption, Zenon DEF StoreOK, EntryOK
<1>2. /\ IsStore(t, Http3Keys, V) /\ StoreShape(t, StoreCapacity)
      /\ Present(t) \subseteq Present(st) \cup {k}
      /\ StoreCapacity # 0 => t.values[k] = q
      /\ \A j \in Present(t) \ {k} : t.values[j] = st.values[j]
  <2> HIDE DEF V
  <2> QED BY <1>1, InsertKeeps
<1>3. StoreCapacity = 0 => Present(t) = {}
  <2>1. Cardinality(Present(t)) <= StoreCapacity /\ IsFiniteSet(Present(t))
    BY <1>2, Zenon DEF StoreShape, IsStore
  <2>2. Cardinality(Present(t)) \in Nat
    BY <2>1, FS_CardinalityType, Zenon
  <2>3. StoreCapacity = 0 => Cardinality(Present(t)) = 0
    BY <2>1, <2>2
  <2> QED BY <2>1, <2>3, FS_EmptySet, Zenon
<1> HIDE DEF t
<1>4. \A j \in Present(t) : EntryOK(j, t.values[j], dg, og)
  <2> SUFFICES ASSUME NEW j \in Present(t) PROVE EntryOK(j, t.values[j], dg, og)
    BY Zenon
  <2>1. CASE j = k
    BY <1>2, <1>3, <2>1, Zenon
  <2>2. CASE j # k
    BY <1>2, <2>2, Zenon DEF StoreOK
  <2> QED BY <2>1, <2>2, Zenon
<1> QED BY <1>2, <1>4, Zenon DEF StoreOK, t

\* A session added where there is room for one.
LEMMA EntryGrows ==
    ASSUME NEW dg \in Seq(Dags), NEW og \in Seq(Http3Keys), Len(og) = Len(dg),
           NEW d \in Dags, NEW k \in Http3Keys, NEW q, EntryOK(k, q, dg, og),
           CountIn(q, Accepting(dg)) < MaxReusable
    PROVE  EntryOK(k, Append(q, Len(dg) + 1), Append(dg, d), Append(og, k))
<1> DEFINE n == Len(dg)
           eg == Append(dg, d)
           pg == Append(og, k)
           p == Append(q, n + 1)
<1>1. /\ n \in Nat /\ Len(eg) = n + 1 /\ pg[n + 1] = k
      /\ \A s \in 1 .. n : eg[s] = dg[s] /\ pg[s] = og[s]
  OBVIOUS
<1> HIDE DEF eg, pg, n
<1>2. Ages(dg, og, eg, pg)
  BY <1>1 DEF Ages, n
<1>3. EntryOK(k, q, eg, pg)
  BY <1>2, EntryAges, Zenon
<1>4. q \in Seq(1 .. n) /\ q \in Seq(1 .. n + 1) /\ Distinct(q) /\ n + 1 \in 1 .. n + 1
  BY <1>1, <1>3 DEF EntryOK, n
<1>5. Elems(q) \subseteq 1 .. n
  BY <1>4, ElemsType, Zenon
<1>6. n + 1 \notin Elems(q)
  BY <1>1, <1>5
<1>7. p \in Seq(1 .. n + 1) /\ Distinct(p) /\ Elems(p) = Elems(q) \cup {n + 1}
  BY <1>4, <1>6, AppendKeeps
<1>8. \A s \in Elems(p) : pg[s] = k
  BY <1>1, <1>3, <1>7, Zenon DEF EntryOK
<1>9. CountIn(p, Accepting(eg)) <= CountIn(q, Accepting(eg)) + 1
  BY <1>4, CountAppend, Zenon
<1>10. CountIn(q, Accepting(eg)) <= CountIn(q, Accepting(dg))
  <2>1. \A x \in Elems(q) \cap Accepting(eg) : x \in Elems(q) \cap Accepting(dg)
    BY <1>1, <1>5, Zenon DEF Accepting, n
  <2> QED BY <2>1, <1>4, CountMono, Zenon
<1>11. /\ CountIn(p, Accepting(eg)) \in Nat /\ CountIn(q, Accepting(eg)) \in Nat
       /\ CountIn(q, Accepting(dg)) \in Nat
  BY <1>4, <1>7, CountType, Zenon
<1>12. CountIn(p, Accepting(eg)) <= MaxReusable
  BY <1>9, <1>10, <1>11, Http3Assumption
<1> QED BY <1>1, <1>7, <1>8, <1>12, Zenon DEF EntryOK, n, eg, pg

----------------------------------------------------------------------------
(* The inductive invariant.                                                *)

\* Where a request has a session, and where its stream is not attached.
Holding == {"sending", "attach", "body", "awaiting", "respond", "streaming", "retired"}

Unattached == {"look", "select", "connecting", "relook", "reselect", "sending", "attach",
               "fallback"}

SessionsOK ==
    /\ dag \in Seq(Dags) /\ origin \in Seq(Http3Keys)
    /\ Len(origin) = Len(dag)

RequestOK(r) ==
    /\ phase[r] \in Holding => held[r] # 0
    /\ held[r] # 0 => origin[held[r]] = keyOf[r]
    /\ phase[r] \in Unattached => \A s \in Sessions : r \notin DOMAIN dag[s].streams

RequestsOK ==
    /\ phase \in [Http3Requests -> Steps]
    /\ held \in [Http3Requests -> 0 .. Len(dag)]
    /\ keyOf \in [Http3Requests -> Http3Keys]
    /\ \A r \in Http3Requests : RequestOK(r)

PoolInv == SessionsOK /\ StoreOK(store, dag, origin) /\ RequestsOK

\* The sessions there were are still there, and only r's stream may be new.
Undisturbed(r) ==
    /\ Len(dag) \in Nat /\ Len(dag') \in Nat /\ Len(dag) <= Len(dag')
    /\ \A s \in Sessions : origin'[s] = origin[s]
    /\ \A s \in 1 .. Len(dag') : \A q \in DOMAIN dag'[s].streams \ {r} :
         s \in Sessions /\ q \in DOMAIN dag[s].streams

\* A request that did nothing.
LEMMA OthersKeep ==
    ASSUME PoolInv, NEW r, Undisturbed(r), NEW q \in Http3Requests, q # r,
           phase'[q] = phase[q], held'[q] = held[q], keyOf' = keyOf
    PROVE  RequestOK(q)'
<1>1. RequestOK(q) /\ held[q] \in 0 .. Len(dag)
  BY Zenon DEF PoolInv, RequestsOK
<1>2. phase'[q] \in Holding => held'[q] # 0
  BY <1>1, Zenon DEF RequestOK
<1>3. held'[q] # 0 => origin'[held'[q]] = keyOf'[q]
  BY <1>1 DEF RequestOK, Undisturbed, Sessions
<1>4. phase'[q] \in Unattached => \A s \in 1 .. Len(dag') : q \notin DOMAIN dag'[s].streams
  BY <1>1, Zenon DEF RequestOK, Undisturbed
<1> QED BY <1>2, <1>3, <1>4, Zenon DEF RequestOK, Sessions

\* A step of a request, from what it does to the session, the store and itself.
LEMMA RequestMoves ==
    ASSUME PoolInv, NEW r \in Http3Requests, Undisturbed(r), keyOf' = keyOf,
           SessionsOK', StoreOK(store', dag', origin'),
           NEW p \in Steps, Goto(r, p),
           NEW h \in 0 .. Len(dag'), held' = [held EXCEPT ![r] = h],
           p \in Holding => h # 0, h # 0 => origin'[h] = keyOf[r],
           p \in Unattached => \A s \in 1 .. Len(dag') : r \notin DOMAIN dag'[s].streams
    PROVE  PoolInv'
<1>1. /\ phase \in [Http3Requests -> Steps] /\ held \in [Http3Requests -> 0 .. Len(dag)]
      /\ keyOf \in [Http3Requests -> Http3Keys]
  BY Zenon DEF PoolInv, RequestsOK
<1>2. /\ phase' \in [Http3Requests -> Steps] /\ phase'[r] = p /\ held'[r] = h
      /\ \A q \in Http3Requests \ {r} : phase'[q] = phase[q] /\ held'[q] = held[q]
  BY <1>1, Zenon DEF Goto
<1>3. held' \in [Http3Requests -> 0 .. Len(dag')]
  <2>1. 0 .. Len(dag) \subseteq 0 .. Len(dag')
    BY DEF Undisturbed
  <2> QED BY <1>1, <2>1, Zenon
<1>4. RequestOK(r)'
  BY <1>2, Zenon DEF RequestOK, Sessions
<1>5. \A q \in Http3Requests : RequestOK(q)'
  <2> SUFFICES ASSUME NEW q \in Http3Requests, q # r PROVE RequestOK(q)'
    BY <1>4, Zenon
  <2> QED BY <1>2, OthersKeep, Zenon
<1>6. RequestsOK'
  BY <1>1, <1>2, <1>3, <1>5, Zenon DEF RequestsOK
<1> QED BY <1>6, Zenon DEF PoolInv

\* The same when nothing of the sessions or of what the request holds changes.
LEMMA PhaseMoves ==
    ASSUME PoolInv, NEW r \in Http3Requests, keyOf' = keyOf,
           dag' = dag, origin' = origin, held' = held, StoreOK(store', dag, origin),
           NEW p \in Steps, Goto(r, p),
           p \in Holding => phase[r] \in Holding, p \in Unattached => phase[r] \in Unattached
    PROVE  PoolInv'
<1>1. Len(dag) \in Nat /\ held \in [Http3Requests -> 0 .. Len(dag)] /\ RequestOK(r)
  BY DEF PoolInv, SessionsOK, RequestsOK
<1>2. Undisturbed(r)
  BY <1>1 DEF Undisturbed, Sessions
<1>3. SessionsOK' /\ StoreOK(store', dag', origin')
  BY Zenon DEF PoolInv, SessionsOK
<1>4. held[r] \in 0 .. Len(dag') /\ held' = [held EXCEPT ![r] = held[r]]
  BY <1>1, Zenon
<1>5. (p \in Holding => held[r] # 0) /\ (held[r] # 0 => origin'[held[r]] = keyOf[r])
  BY <1>1, Zenon DEF RequestOK
<1>6. p \in Unattached => \A s \in 1 .. Len(dag') : r \notin DOMAIN dag'[s].streams
  BY <1>1, Zenon DEF RequestOK, Sessions
<1> QED BY <1>2, <1>3, <1>4, <1>5, <1>6, RequestMoves, Zenon

\* A session's record is replaced by a calmer one, or one with r's stream.
LEMMA SetDagKeeps ==
    ASSUME PoolInv, NEW r, NEW s \in Sessions, NEW e \in Dags, SetDag(s, e),
           DOMAIN e.streams \subseteq DOMAIN dag[s].streams \cup {r},
           CanAcceptNewStreams(e) => CanAcceptNewStreams(dag[s]),
           origin' = origin, store' = store
    PROVE  /\ SessionsOK' /\ StoreOK(store', dag', origin') /\ Undisturbed(r)
           /\ Len(dag') = Len(dag) /\ dag'[s] = e
<1>1. dag \in Seq(Dags) /\ Len(dag) \in Nat /\ dag' = [dag EXCEPT ![s] = e]
  BY DEF PoolInv, SessionsOK, SetDag
<1>2. /\ dag' \in Seq(Dags) /\ Len(dag') = Len(dag) /\ dag'[s] = e
      /\ \A t \in Sessions \ {s} : dag'[t] = dag[t]
  BY <1>1 DEF Sessions
<1>3. SessionsOK'
  BY <1>2, Zenon DEF PoolInv, SessionsOK
<1>4. Ages(dag, origin, dag', origin')
  BY <1>1, <1>2 DEF Ages, Sessions
<1>5. StoreOK(store', dag', origin')
  BY <1>4, StoreAges, Zenon DEF PoolInv
<1>6. Undisturbed(r)
  BY <1>1, <1>2 DEF Undisturbed, Sessions
<1> QED BY <1>2, <1>3, <1>5, <1>6, Zenon

\* A step of a request that uses its session.
LEMMA StreamMoves ==
    ASSUME PoolInv, NEW r \in Http3Requests, keyOf' = keyOf, phase[r] \in Holding,
           NEW e \in Dags, SetDag(held[r], e),
           DOMAIN e.streams \subseteq DOMAIN dag[held[r]].streams \cup {r},
           CanAcceptNewStreams(e) => CanAcceptNewStreams(dag[held[r]]),
           origin' = origin, store' = store, held' = held,
           NEW p \in Steps, Goto(r, p),
           p \in Unattached => /\ phase[r] \in Unattached
                               /\ DOMAIN e.streams \subseteq DOMAIN dag[held[r]].streams
    PROVE  PoolInv'
<1>1. held \in [Http3Requests -> 0 .. Len(dag)] /\ RequestOK(r) /\ Len(dag) \in Nat
  BY DEF PoolInv, SessionsOK, RequestsOK
<1>2. held[r] # 0 /\ held[r] \in Sessions
  BY <1>1 DEF RequestOK, Sessions
<1>3. /\ SessionsOK' /\ StoreOK(store', dag', origin') /\ Undisturbed(r)
      /\ Len(dag') = Len(dag) /\ dag'[held[r]] = e
  BY <1>2, SetDagKeeps, Zenon
<1>4. held[r] \in 0 .. Len(dag') /\ held' = [held EXCEPT ![r] = held[r]]
  BY <1>1, <1>3, Zenon
<1>5. (p \in Holding => held[r] # 0) /\ (held[r] # 0 => origin'[held[r]] = keyOf[r])
  BY <1>1, <1>2, Zenon DEF RequestOK
<1>6. p \in Unattached => \A s \in 1 .. Len(dag') : r \notin DOMAIN dag'[s].streams
  <2> SUFFICES ASSUME p \in Unattached, NEW s \in 1 .. Len(dag')
               PROVE  r \notin DOMAIN dag'[s].streams
    BY Zenon
  <2>1. \A t \in Sessions : r \notin DOMAIN dag[t].streams
    BY <1>1, Zenon DEF RequestOK
  <2>2. dag \in Seq(Dags) /\ dag' = [dag EXCEPT ![held[r]] = e]
    BY Zenon DEF PoolInv, SessionsOK, SetDag
  <2>3. CASE s = held[r]
    BY <1>2, <1>3, <2>1, <2>3, Zenon
  <2>4. CASE s # held[r]
    <3>1. dag'[s] = dag[s] /\ s \in Sessions
      BY <1>3, <2>2, <2>4 DEF Sessions
    <3> QED BY <2>1, <3>1, Zenon
  <2> QED BY <2>3, <2>4, Zenon
<1> QED BY <1>3, <1>4, <1>5, <1>6, RequestMoves, Zenon

----------------------------------------------------------------------------
(* acquire_or_open_session.                                                *)

LEMMA ReusableIsCount ==
    ASSUME NEW q \in Seq(Sessions)
    PROVE  ReusableCount(q) = CountIn(q, Accepting(dag))
<1>1. \A i \in DOMAIN q : q[i] \in 1 .. Len(dag)
  BY DEF Sessions
<1>2. \A i \in DOMAIN q : IsReusable(q[i]) <=> q[i] \in Accepting(dag)
  BY <1>1, Zenon DEF IsReusable, Accepting
<1>3. {i \in DOMAIN q : IsReusable(q[i])} = {i \in DOMAIN q : q[i] \in Accepting(dag)}
  BY <1>2, Zenon
<1> QED BY <1>3, Zenon DEF ReusableCount, CountIn

\* select_reusable_session finds one if there is one, so that nothing usable means
\* there is room for another.
LEMMA RoomForAnother ==
    ASSUME dag \in Seq(Dags), NEW q \in Seq(Sessions), Usable(q) = {}
    PROVE  CountIn(q, Accepting(dag)) < MaxReusable
<1> DEFINE I == {i \in DOMAIN q : IsReusable(q[i])}
           a == [i \in I |-> ActiveStreamCount(dag[q[i]])]
           T == {a[i] : i \in I}
<1> SUFFICES ASSUME ~(CountIn(q, Accepting(dag)) < MaxReusable) PROVE FALSE
  BY Zenon
<1>1. ReusableCount(q) = CountIn(q, Accepting(dag)) /\ CountIn(q, Accepting(dag)) \in Nat
  BY ReusableIsCount, CountType, Zenon
<1>2. ReusableCount(q) >= MaxReusable /\ ReusableCount(q) # 0
  BY <1>1, Http3Assumption
<1>3. I # {}
  BY <1>2, FS_EmptySet, Zenon DEF ReusableCount
<1>4. \A i \in DOMAIN q : i \in Nat /\ q[i] \in Sessions
  OBVIOUS
<1>5. \A i \in I : dag[q[i]] \in Dags
  BY <1>4 DEF Sessions
<1>6. \A i \in I : a[i] \in Nat
  BY <1>5, DagParts, Zenon
<1> HIDE DEF a
<1>7. T \in SUBSET Nat /\ T # {}
  BY <1>3, <1>6, Zenon
<1>8. PICK x \in T : \A y \in T : x <= y
  <2> HIDE DEF T
  <2> QED BY <1>7, Least, Zenon
<1> DEFINE J == {i \in I : a[i] = x}
<1>9. J \in SUBSET Nat /\ J # {}
  BY <1>4, <1>8, Zenon
<1>10. PICK j \in J : \A i \in J : j <= i
  <2> HIDE DEF J
  <2> QED BY <1>9, Least, Zenon
<1>11. \A k \in I : a[j] < a[k] \/ (a[j] = a[k] /\ j <= k)
  <2> SUFFICES ASSUME NEW k \in I PROVE a[j] < a[k] \/ (a[j] = a[k] /\ j <= k)
    BY Zenon
  <2>1. a[j] = x /\ a[j] \in Nat /\ a[k] \in Nat /\ j \in I
    BY <1>6, Zenon
  <2>2. x <= a[k]
    BY <1>8, Zenon
  <2>3. CASE a[k] = x
    BY <1>10, <2>1, <2>3, Zenon
  <2>4. CASE a[k] # x
    BY <2>1, <2>2, <2>4
  <2> QED BY <2>3, <2>4, Zenon
<1>12. j \in DOMAIN q /\ IsReusable(q[j])
  BY Zenon
<1>13. \A k \in DOMAIN q : IsReusable(q[k]) =>
         \/ ActiveStreamCount(dag[q[j]]) < ActiveStreamCount(dag[q[k]])
         \/ ActiveStreamCount(dag[q[j]]) = ActiveStreamCount(dag[q[k]]) /\ j <= k
  BY <1>11, <1>12, Zenon DEF a
<1>14. q[j] \in SelectReusable(q)
  BY <1>12, <1>13, Zenon DEF SelectReusable
<1>15. q[j] \in Usable(q)
  BY <1>2, <1>14, Zenon DEF Usable
<1> QED BY <1>15, Zenon

\* What get_mut and retain_sessions leave.
LEMMA TouchKeeps ==
    ASSUME PoolInv, NEW k \in Http3Keys
    PROVE  /\ StoreOK(TouchEntry(k), dag, origin)
           /\ EntryOK(k, EntrySessions(TouchEntry(k), k), dag, origin)
<1> DEFINE V == Seq(1 .. Len(dag))
           s == GetMut(store, k)
           t == TouchEntry(k)
<1>1. IsStore(store, Http3Keys, V) /\ StoreShape(store, StoreCapacity)
  BY Zenon DEF PoolInv, StoreOK
<1>2. CASE k \in Present(store)
  <2>1. IsStore(s, Http3Keys, V) /\ StoreShape(s, StoreCapacity) /\ s.values = store.values
    <3> HIDE DEF V
    <3> QED BY <1>1, <1>2, GetMutKeeps, Zenon
  <2>2. StoreOK(s, dag, origin) /\ k \in Present(s)
    BY <1>2, <2>1, Zenon DEF PoolInv, StoreOK, Present
  <2> DEFINE q == RetainSessions(s.values[k])
  <2>3. EntryOK(k, q, dag, origin)
    BY <2>2, EntryKept, Zenon DEF StoreOK, RetainSessions
  <2>4. t = [s EXCEPT !.values = With(s.values, k, q)]
    BY <2>2, Zenon DEF TouchEntry
  <2> HIDE DEF s, q
  <2>5. StoreOK(t, dag, origin)
    BY <2>2, <2>3, <2>4, StorePut
  <2>6. EntryOK(k, EntrySessions(t, k), dag, origin)
    <3>1. CASE k \in Present(t)
      BY <2>5, <3>1, Zenon DEF StoreOK, EntrySessions
    <3>2. CASE k \notin Present(t)
      <4>1. Present(t) = Present(s)
        <5>1. IsStore(s, Http3Keys, V) /\ StoreShape(s, StoreCapacity) /\ q \in V
          BY <2>2, <2>3, Zenon DEF StoreOK, EntryOK
        <5> HIDE DEF V, t
        <5> QED BY <5>1, <2>2, <2>4, PutKeeps
      <4> QED BY <2>2, <3>2, <4>1, Zenon
    <3> QED BY <3>1, <3>2, Zenon
  <2> QED BY <2>5, <2>6, Zenon
<1>3. CASE k \notin Present(store)
  <2>1. t = store
    BY <1>3, Zenon DEF TouchEntry, GetMut
  <2>2. EntrySessions(t, k) = << >>
    BY <1>3, <2>1, Zenon DEF EntrySessions
  <2>3. EntryOK(k, << >>, dag, origin)
    <3>1. << >> \in Seq(1 .. Len(dag)) /\ DOMAIN << >> = {}
      OBVIOUS
    <3>2. Distinct(<< >>) /\ Elems(<< >>) = {}
      BY <3>1, Zenon DEF Distinct, Elems
    <3>3. {i \in DOMAIN << >> : << >>[i] \in Accepting(dag)} = {}
      BY <3>1, Zenon
    <3>4. CountIn(<< >>, Accepting(dag)) = 0
      BY <3>3, FS_EmptySet, Zenon DEF CountIn
    <3> QED BY <3>1, <3>2, <3>4, Http3Assumption DEF EntryOK
  <2> QED BY <2>1, <2>2, <2>3, Zenon DEF PoolInv
<1> QED BY <1>2, <1>3, Zenon

\* A pooled session that will do.
LEMMA UseKeeps ==
    ASSUME PoolInv, NEW r \in Http3Requests, keyOf' = keyOf, phase[r] \in Unattached,
           NEW u \in Usable(EntrySessions(TouchEntry(keyOf[r]), keyOf[r])), Use(r, u),
           store' = TouchEntry(keyOf[r]), dag' = dag, origin' = origin
    PROVE  PoolInv'
<1> DEFINE k == keyOf[r]
           t == TouchEntry(k)
           q == EntrySessions(t, k)
<1>1. k \in Http3Keys /\ RequestOK(r) /\ Len(dag) \in Nat
  BY DEF PoolInv, RequestsOK, SessionsOK
<1>2. StoreOK(t, dag, origin) /\ EntryOK(k, q, dag, origin)
  BY <1>1, TouchKeeps, Zenon
<1>3. u \in Elems(q)
  BY Zenon DEF Usable, SelectReusable, Elems
<1> HIDE DEF q
<1>4. u \in 1 .. Len(dag) /\ origin[u] = k
  BY <1>2, <1>3, ElemsType, Zenon DEF EntryOK
<1>5. Undisturbed(r) /\ SessionsOK' /\ StoreOK(store', dag', origin')
  BY <1>1, <1>2 DEF Undisturbed, Sessions, PoolInv, SessionsOK
<1>6. Goto(r, "sending") /\ held' = [held EXCEPT ![r] = u] /\ "sending" \in Steps
  BY Zenon DEF Use, Steps, Awaits
<1>7. u \in 0 .. Len(dag') /\ u # 0 /\ origin'[u] = keyOf[r]
  BY <1>1, <1>4
<1>8. \A s \in 1 .. Len(dag') : r \notin DOMAIN dag'[s].streams
  BY <1>1, Zenon DEF RequestOK, Sessions
<1> QED BY <1>5, <1>6, <1>7, <1>8, RequestMoves, Zenon

\* A new session.
LEMMA NewSessionKeeps ==
    ASSUME PoolInv, NEW r \in Http3Requests, keyOf' = keyOf, phase[r] \in Unattached,
           NewSession(r), StoreOK(store', dag', origin')
    PROVE  PoolInv'
<1> DEFINE n == Len(dag)
           k == keyOf[r]
<1>1. /\ k \in Http3Keys /\ RequestOK(r) /\ dag \in Seq(Dags) /\ origin \in Seq(Http3Keys)
      /\ n \in Nat /\ Len(origin) = n
  BY DEF PoolInv, RequestsOK, SessionsOK
<1>2. NewDag \in Dags /\ DOMAIN NewDag.streams = {}
  BY NewDagOK, Zenon
<1>3. dag' = Append(dag, NewDag) /\ origin' = Append(origin, k)
  BY Zenon DEF NewSession
<1>4. /\ Len(dag') = n + 1 /\ dag'[n + 1] = NewDag /\ origin'[n + 1] = k
      /\ \A s \in 1 .. n : dag'[s] = dag[s] /\ origin'[s] = origin[s]
  BY <1>1, <1>2, <1>3
<1>5. SessionsOK'
  BY <1>1, <1>2, <1>3 DEF SessionsOK
<1> HIDE DEF n
<1>6. Undisturbed(r)
  <2>1. \A s \in 1 .. Len(dag') : \A q \in DOMAIN dag'[s].streams \ {r} :
          s \in Sessions /\ q \in DOMAIN dag[s].streams
    <3> SUFFICES ASSUME NEW s \in 1 .. n + 1, NEW q \in DOMAIN dag'[s].streams
                 PROVE  s \in 1 .. n /\ q \in DOMAIN dag[s].streams
      BY <1>4, Zenon DEF Sessions, n
    <3>1. s # n + 1
      BY <1>2, <1>4, Zenon
    <3>2. s \in 1 .. n
      BY <1>1, <3>1
    <3> QED BY <1>4, <3>2, Zenon
  <2> QED BY <1>1, <1>4, <2>1 DEF Undisturbed, Sessions, n
<1>7. Goto(r, "sending") /\ held' = [held EXCEPT ![r] = n + 1] /\ "sending" \in Steps
  BY Zenon DEF NewSession, Steps, Awaits, n
<1>8. n + 1 \in 0 .. Len(dag') /\ n + 1 # 0 /\ origin'[n + 1] = keyOf[r]
  BY <1>1, <1>4
<1>9. \A s \in 1 .. Len(dag') : r \notin DOMAIN dag'[s].streams
  <2> SUFFICES ASSUME NEW s \in 1 .. n + 1 PROVE r \notin DOMAIN dag'[s].streams
    BY <1>4, Zenon
  <2>1. CASE s = n + 1
    BY <1>2, <1>4, <2>1, Zenon
  <2>2. CASE s # n + 1
    <3>1. s \in 1 .. n
      BY <1>1, <2>2
    <3> QED BY <1>1, <1>4, <3>1, Zenon DEF RequestOK, Sessions, n
  <2> QED BY <2>1, <2>2, Zenon
<1> HIDE DEF NewSession
<1> QED BY <1>5, <1>6, <1>7, <1>8, <1>9, RequestMoves, Zenon

LEMMA ReselectKeeps ==
    ASSUME PoolInv, NEW r \in Http3Requests, keyOf' = keyOf, Reselect(r)
    PROVE  PoolInv'
<1> DEFINE k == keyOf[r]
           s == TouchEntry(k)
           q == EntrySessions(s, k)
           n == Len(dag)
<1>1. phase[r] = "reselect" /\ phase[r] \in Unattached
  BY Zenon DEF Reselect, Unattached
<1>2. /\ k \in Http3Keys /\ dag \in Seq(Dags) /\ origin \in Seq(Http3Keys)
      /\ n \in Nat /\ Len(origin) = n
  BY DEF PoolInv, RequestsOK, SessionsOK
<1>3. CASE \E u \in Usable(q) : Use(r, u) /\ store' = s /\ UNCHANGED <<dag, origin, driving>>
  BY <1>1, <1>3, UseKeeps, Zenon
<1>4. ASSUME Usable(q) = {}, NewSession(r),
             store' = IF k \in Present(s)
                      THEN [s EXCEPT !.values = With(s.values, k, Append(s.values[k], n + 1))]
                      ELSE Insert(s, StoreCapacity, k, <<n + 1>>)
      PROVE  PoolInv'
  <2>1. StoreOK(s, dag, origin) /\ EntryOK(k, q, dag, origin)
    BY <1>2, TouchKeeps, Zenon
  <2>2. CountIn(q, Accepting(dag)) < MaxReusable
    BY <1>2, <1>4, <2>1, RoomForAnother, Zenon DEF EntryOK, Sessions
  <2>3. NewDag \in Dags
    BY NewDagOK, Zenon
  <2>4. dag' = Append(dag, NewDag) /\ origin' = Append(origin, k)
    BY <1>4, Zenon DEF NewSession
  <2> HIDE DEF s, q, k
  <2>5. EntryOK(k, Append(q, n + 1), dag', origin')
    BY <1>2, <2>1, <2>2, <2>3, <2>4, EntryGrows, Zenon
  <2>6. Ages(dag, origin, dag', origin')
    BY <1>2, <2>3, <2>4 DEF Ages
  <2>7. StoreOK(s, dag', origin')
    BY <2>1, <2>6, StoreAges, Zenon
  <2>8. CASE k \in Present(s)
    <3>1. q = s.values[k]
      BY <2>8, Zenon DEF q, EntrySessions
    <3>2. StoreOK(store', dag', origin')
      BY <1>4, <2>5, <2>7, <2>8, <3>1, StorePut, Zenon
    <3> QED BY <1>1, <1>4, <3>2, NewSessionKeeps, Zenon
  <2>9. CASE k \notin Present(s)
    <3>1. Append(q, n + 1) = <<n + 1>>
      BY <2>9 DEF q, EntrySessions
    <3>2. StoreOK(store', dag', origin')
      BY <1>2, <1>4, <2>5, <2>7, <2>9, <3>1, StoreInsert, Zenon
    <3> QED BY <1>1, <1>4, <3>2, NewSessionKeeps, Zenon
  <2> QED BY <2>8, <2>9, Zenon
<1> QED BY <1>3, <1>4, Zenon DEF Reselect

\* No step of a request breaks the invariant.
LEMMA StepKeeps ==
    ASSUME PoolInv, NEW r \in Http3Requests, keyOf' = keyOf, Step(r)
    PROVE  PoolInv'
<1> USE DEF Unattached, Holding, Steps, Awaits, Settled
<1>1. StoreOK(store, dag, origin) /\ keyOf[r] \in Http3Keys
  BY Zenon DEF PoolInv, RequestsOK
<1>2. phase[r] \in Holding => dag[held[r]] \in Dags
  BY DEF PoolInv, SessionsOK, RequestsOK, RequestOK
<1>3. ASSUME NEW a, NEW b, LockAndSweep(r, a, b), a \in {"look", "relook"},
             b \in {"select", "reselect"}
      PROVE  PoolInv'
  <2>1. StoreOK(store', dag, origin) /\ phase[r] = a
    BY <1>1, <1>3, StoreKept, Zenon DEF LockAndSweep
  <2>2. dag' = dag /\ origin' = origin /\ held' = held /\ Goto(r, b)
    BY <1>3, Zenon DEF LockAndSweep
  <2> QED BY <1>3, <2>1, <2>2, PhaseMoves, Zenon
<1>4. CASE Look(r) \/ Relook(r)
  BY <1>3, <1>4, Zenon DEF Look, Relook
<1>5. CASE Select(r)
  <2> DEFINE s == TouchEntry(keyOf[r])
             usable == Usable(EntrySessions(s, keyOf[r]))
  <2>1. phase[r] = "select" /\ store' = s /\ dag' = dag /\ origin' = origin
    BY <1>5, Zenon DEF Select
  <2>2. CASE \E u \in usable : Use(r, u)
    BY <2>1, <2>2, UseKeeps, Zenon
  <2>3. CASE Goto(r, "connecting") /\ UNCHANGED held
    <3>1. StoreOK(store', dag, origin)
      BY <1>1, <2>1, TouchKeeps, Zenon
    <3> QED BY <2>1, <2>3, <3>1, PhaseMoves, Zenon
  <2> QED BY <1>5, <2>2, <2>3, Zenon DEF Select
<1>6. CASE Connected(r)
  BY <1>1, <1>6, PhaseMoves, Zenon DEF Connected
<1>7. CASE ConnectSessionFails(r)
  <2>1. PICK p \in {"fallback", "failed"} : Goto(r, p)
    BY <1>7, Zenon DEF ConnectSessionFails
  <2> QED BY <1>1, <1>7, <2>1, PhaseMoves, Zenon DEF ConnectSessionFails
<1>8. CASE StreamOpened(r)
  BY <1>1, <1>8, PhaseMoves, Zenon DEF StreamOpened
<1>9. CASE ZeroLength(r) \/ Finish(r)
  BY <1>1, <1>9, PhaseMoves, Zenon DEF ZeroLength, Finish
<1>10. CASE CancelRequest(r)
  BY <1>1, <1>10, PhaseMoves, Zenon DEF CancelRequest
<1>11. ASSUME NEW e, Calmer(dag[held[r]], e), phase[r] \in Holding, SetDag(held[r], e),
              origin' = origin, store' = store, held' = held,
              NEW p \in Steps, Goto(r, p), p \in Unattached => phase[r] \in Unattached
       PROVE  PoolInv'
  BY <1>11, StreamMoves, Zenon DEF Calmer
<1>12. CASE \E kind \in ErrorKinds : OpenStreamFails(r, kind)
  <2>1. PICK kind \in ErrorKinds : OpenStreamFails(r, kind)
    BY <1>12, Zenon
  <2>2. PICK p \in {"fallback", "failed"} : Goto(r, p)
    BY <2>1, Zenon DEF OpenStreamFails
  <2>3. phase[r] = "sending" /\ Calmer(dag[held[r]], ApplyError(dag[held[r]], kind))
    BY <1>2, <2>1, ErrorCalms, Zenon DEF OpenStreamFails
  <2> QED BY <1>11, <2>1, <2>2, <2>3, Zenon DEF OpenStreamFails
<1>13. CASE Attach(r)
  <2> DEFINE e == AttachStream(dag[held[r]], r)
  <2>1. phase[r] = "attach" /\ dag[held[r]] \in Dags
    BY <1>2, <1>13, Zenon DEF Attach
  <2>2. /\ e \in Dags /\ DOMAIN e.streams = DOMAIN dag[held[r]].streams \cup {r}
        /\ CanAcceptNewStreams(e) => CanAcceptNewStreams(dag[held[r]])
    BY <2>1, AttachAdds, Zenon
  <2> HIDE DEF e
  <2>3. SetDag(held[r], e) /\ Goto(r, "body") /\ UNCHANGED <<store, origin, held>>
    BY <1>13, Zenon DEF Attach, e
  <2> QED BY <2>1, <2>2, <2>3, StreamMoves, Zenon
<1>14. CASE RequestSent(r)
  <2>1. Calmer(dag[held[r]], MarkStreamRequestCommitted(dag[held[r]], r)) /\ phase[r] = "body"
    BY <1>2, <1>14, SetStreamCalms, Zenon
       DEF RequestSent, MarkStreamRequestCommitted, StreamFrontiers
  <2> QED BY <1>11, <1>14, <2>1, Zenon DEF RequestSent
<1>15. CASE RequestBodyUnreadable(r)
  <2>1. Calmer(dag[held[r]], MarkStreamReset(dag[held[r]], r)) /\ phase[r] = "body"
    BY <1>2, <1>15, MarkResetCalms, Zenon DEF RequestBodyUnreadable
  <2> QED BY <1>11, <1>15, <2>1, Zenon DEF RequestBodyUnreadable
<1>16. CASE ResponseHead(r)
  <2>1. /\ Calmer(dag[held[r]], MarkStreamResponseHeadReady(dag[held[r]], r))
        /\ phase[r] = "awaiting"
    BY <1>2, <1>16, SetStreamCalms, Zenon
       DEF ResponseHead, MarkStreamResponseHeadReady, StreamFrontiers
  <2> QED BY <1>11, <1>16, <2>1, Zenon DEF ResponseHead
<1>17. CASE BodyReady(r)
  <2>1. /\ Calmer(dag[held[r]], MarkStreamResponseBodyReady(dag[held[r]], r))
        /\ phase[r] = "respond"
    BY <1>2, <1>17, SetStreamCalms, Zenon
       DEF BodyReady, MarkStreamResponseBodyReady, StreamFrontiers
  <2> QED BY <1>11, <1>17, <2>1, Zenon DEF BodyReady
<1>18. CASE BodyEof(r)
  <2>1. Calmer(dag[held[r]], MarkStreamClosed(dag[held[r]], r)) /\ phase[r] = "streaming"
    BY <1>2, <1>18, MarkClosedCalms, Zenon DEF BodyEof
  <2> QED BY <1>11, <1>18, <2>1, Zenon DEF BodyEof
<1>19. CASE (\E kind \in ErrorKinds : StreamFails(r, kind)) \/ PeerResets(r)
  <2>1. PICK kind \in ErrorKinds, p \in {"failed", "peer_reset"} :
          /\ SetDag(held[r], ApplyError(dag[held[r]], kind)) /\ Goto(r, p)
          /\ UNCHANGED <<store, origin, held>> /\ phase[r] \in Holding
    BY <1>19, Zenon DEF StreamFails, PeerResets, ErrorKinds
  <2>2. Calmer(dag[held[r]], ApplyError(dag[held[r]], kind))
    BY <1>2, <2>1, ErrorCalms, Zenon
  <2> QED BY <1>11, <2>1, <2>2, Zenon
<1> QED BY <1>4, <1>5, <1>6, <1>7, <1>8, <1>9, <1>10, <1>12, <1>13, <1>14, <1>15, <1>16,
           <1>17, <1>18, <1>19, ReselectKeeps, Zenon DEF Step

LEMMA ConnectionEndsKeeps ==
    ASSUME PoolInv, NEW s \in Sessions, keyOf' = keyOf, ConnectionEnds(s)
    PROVE  PoolInv'
<1>1. dag[s] \in Dags /\ Len(dag) \in Nat
  BY DEF PoolInv, SessionsOK, Sessions
<1>2. PICK e : Calmer(dag[s], e) /\ SetDag(s, e)
  <2>1. CASE SetDag(s, MarkConnectionClosed(dag[s]))
    BY <1>1, <2>1, ConnectionClosedCalms, Zenon
  <2>2. CASE \E kind \in ErrorKinds : SetDag(s, ApplyError(dag[s], kind))
    BY <1>1, <2>2, ErrorCalms, Zenon
  <2> QED BY <2>1, <2>2, Zenon DEF ConnectionEnds
<1>3. UNCHANGED <<store, origin, phase, held>>
  BY Zenon DEF ConnectionEnds
<1>4. PICK x : x \notin Http3Requests
  BY NoSetContainsEverything, Zenon
<1>5. /\ SessionsOK' /\ StoreOK(store', dag', origin') /\ Undisturbed(x)
      /\ Len(dag') = Len(dag)
  BY <1>2, <1>3, SetDagKeeps, Zenon DEF Calmer
<1>6. \A q \in Http3Requests : RequestOK(q)'
  BY <1>3, <1>4, <1>5, OthersKeep, Zenon
<1>7. RequestsOK'
  BY <1>3, <1>5, <1>6, Zenon DEF PoolInv, RequestsOK
<1> QED BY <1>5, <1>7, Zenon DEF PoolInv

LEMMA PoolInvHolds == Http3Spec => []PoolInv
<1>1. Http3Init => PoolInv
  <2> SUFFICES ASSUME Http3Init PROVE PoolInv
    BY Zenon
  <2>1. dag = << >> /\ origin = << >> /\ store = EmptyStore
    BY Zenon DEF Http3Init
  <2>2. SessionsOK /\ Len(dag) = 0 /\ Sessions = {}
    BY <2>1 DEF SessionsOK, Sessions
  <2>3. Present(store) = {} /\ IsStore(store, Http3Keys, Seq(1 .. Len(dag)))
    BY <2>1, EmptyStoreKeeps, Zenon
  <2>4. StoreShape(store, StoreCapacity)
    BY <2>1, EmptyStoreKeeps, Http3Assumption, Zenon
  <2>5. StoreOK(store, dag, origin)
    BY <2>3, <2>4, Zenon DEF StoreOK
  <2>6. \A r \in Http3Requests : RequestOK(r)
    BY <2>2, Zenon DEF Http3Init, RequestOK, Holding
  <2>7. RequestsOK
    BY <2>2, <2>6 DEF Http3Init, RequestsOK, Steps
  <2> QED BY <2>2, <2>5, <2>7, Zenon DEF PoolInv
<1>2. PoolInv /\ [Http3Next]_http3Vars => PoolInv'
  <2> SUFFICES ASSUME PoolInv, [Http3Next]_http3Vars PROVE PoolInv'
    BY Zenon
  <2>1. CASE Http3Next
    BY <2>1, StepKeeps, ConnectionEndsKeeps, Zenon DEF Http3Next
  <2>2. CASE UNCHANGED http3Vars
    BY <2>2, Zenon DEF http3Vars, PoolInv, SessionsOK, RequestsOK, RequestOK, Sessions
  <2> QED BY <2>1, <2>2, Zenon
<1> QED BY <1>1, <1>2, PTL DEF Http3Spec

\* StoreAgrees, for any number of requests, keys and sessions and any bounds: an
\* entry of the store never has more than max_reusable_sessions_per_origin sessions
\* that accept streams, however many connects race for it, all its sessions and
\* whatever session a request is given were connected for its own key, and map and
\* recency list agree within the capacity.
THEOREM PoolKeepsItsBounds == Http3Spec => []StoreAgrees
<1>1. PoolInv => StoreAgrees
  <2> SUFFICES ASSUME PoolInv PROVE StoreAgrees
    BY Zenon
  <2>1. StoreShape(store, StoreCapacity)
    BY Zenon DEF PoolInv, StoreOK
  <2>2. ASSUME NEW k \in Present(store)
        PROVE  /\ ReusableCount(store.values[k]) <= MaxReusable
               /\ \A i \in DOMAIN store.values[k] : origin[store.values[k][i]] = k
               /\ Distinct(store.values[k])
    <3>1. EntryOK(k, store.values[k], dag, origin)
      BY Zenon DEF PoolInv, StoreOK
    <3>2. ReusableCount(store.values[k]) <= MaxReusable
      BY <3>1, ReusableIsCount, Zenon DEF EntryOK, Sessions
    <3> QED BY <3>1, <3>2, Zenon DEF EntryOK, Elems
  <2>3. \A r \in Http3Requests : held[r] # 0 => origin[held[r]] = keyOf[r]
    BY Zenon DEF PoolInv, RequestsOK, RequestOK
  <2> QED BY <2>1, <2>2, <2>3, Zenon DEF StoreAgrees
<1> QED BY <1>1, PoolInvHolds, PTL

\* FallbackBeforeAttach, for any number of requests and sessions: a request falls
\* back to an earlier HTTP version only while no session has a stream of it.
THEOREM FallsBackBeforeItsStream == Http3Spec => []FallbackBeforeAttach
<1>1. PoolInv => FallbackBeforeAttach
  BY Zenon DEF PoolInv, RequestsOK, RequestOK, Unattached, FallbackBeforeAttach
<1> QED BY <1>1, PoolInvHolds, PTL
=============================================================================
