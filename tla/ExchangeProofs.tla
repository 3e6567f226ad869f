--------------------------- MODULE ExchangeProofs ---------------------------
(***************************************************************************)
(* What holds of the exchanges of a program and of the native forward, for *)
(* any number of calls and requests and bodies of any length, and of the   *)
(* HTTP/1.1 sender pool they are sent through, for any requests, keys,     *)
(* connections and framings.                                               *)
(***************************************************************************)
EXTENDS Http1SenderPool, Exchange, TLAPS

-----------------------------------------------------------------------------
(* The sender pool (Http1SenderPool).  A pooled connection is at a message *)
(* boundary and in nobody's hands, every request is given its own          *)
(* response, and a streamed body is sent once.  Peers send no interim      *)
(* responses here.                                                         *)

\* The constants: a connection's number is not None, peers use the framings the
\* engine knows, and send no interim responses.
Constants ==
    /\ MaxConns \in Nat
    /\ MaxUnits \in Nat
    /\ PeerFramings \subseteq Framings
    /\ None \notin Conns
    /\ ~SendsInterim

Askeds == Seq(Requests)
Wires == Seq(Units)
LinkRecords == [up : BOOLEAN, asked : Askeds, wire : Wires]
Stacks == Seq(Conns)
Steps == {"acquire", "connecting", "send", "head", "body", "done", "failed"}
Holding == {"send", "head", "body"}

----------------------------------------------------------------------------
(* The invariant.                                                          *)

AtBoundary(l) == l.asked = <<>> /\ l.wire = <<>>

InPool(c) ==
    \/ \E i \in DOMAIN hot : c = hot[i]
    \/ \E k \in PoolKeys : \E i \in DOMAIN other[k] : c = other[k][i]

\* No connection is in the pool twice.
Distinct ==
    /\ \A i, j \in DOMAIN hot : hot[i] = hot[j] => i = j
    /\ \A k \in PoolKeys : \A i \in DOMAIN hot, j \in DOMAIN other[k] : hot[i] # other[k][j]
    /\ \A k, m \in PoolKeys : \A i \in DOMAIN other[k], j \in DOMAIN other[m] :
           other[k][i] = other[m][j] => k = m /\ i = j

PoolInv ==
    /\ hotKey \in PoolKeys \cup {None}
    /\ hot \in Stacks
    /\ other \in [PoolKeys -> Stacks]
    /\ Distinct

\* The end of a chunked body is the last unit of its response.
EndLast(w) == \A i \in 1 .. Len(w) : w[i].part = "end" => i = Len(w)

\* What a request that waits for its head may find: nothing, or its own
\* response, as far as the peer sent it.
IsReply(r, w) ==
    w # <<>> =>
        /\ w[1].to = r
        /\ w[1].framing = "None" => Len(w) = 1
        /\ w[1].framing = "Fixed" => Len(w) <= w[1].len + 1
        /\ w[1].framing = "Chunked" => EndLast(w)

\* What a body may find: no more than its framing will take for its own, unless
\* the connection is not used again.
IsBody(x, w) ==
    /\ x.framing = "Fixed" => Len(w) <= x.left
    /\ x.framing = "Chunked" => EndLast(w)
    /\ x.framing = "CloseDelimited" => ~x.reuse

\* The request r at step p, with lease x, on a connection in state l.
Fits(r, p, x, l) ==
    /\ p = "send" => AtBoundary(l)
    /\ p = "head" => /\ l.asked \in {<<>>, <<r>>}
                     /\ l.asked = <<r>> => l.wire = <<>>
                     /\ IsReply(r, l.wire)
    /\ p = "body" => l.asked = <<>> /\ IsBody(x, l.wire)

\* How often the request was sent, against its tries.
Counts(p, n, t, again) ==
    /\ n <= t
    /\ p \in {"acquire", "connecting", "send"} => n < t
    /\ t = 2 => again

RequestsInv ==
    /\ stage \in [Requests -> Steps]
    /\ poolKey \in [Requests -> PoolKeys]
    /\ replays \in [Requests -> BOOLEAN]
    /\ conn \in [Requests -> Conns \cup {None}]
    /\ tries \in [Requests -> 1 .. 2]
    /\ sent \in [Requests -> 0 .. 2]
    /\ lease \in [Requests -> Leases]
    /\ answer \in [Requests -> Requests \cup {None}]
    /\ \A r \in Requests :
          /\ conn[r] # None <=> stage[r] \in Holding
          /\ conn[r] # None => ~InPool(conn[r]) /\ Fits(r, stage[r], lease[r], link[conn[r]])
          /\ answer[r] \in {r, None}
          /\ Counts(stage[r], sent[r], tries[r], replays[r])
    /\ \A r, q \in Requests : conn[r] # None /\ conn[r] = conn[q] => r = q

IInv ==
    /\ PoolInv
    /\ link \in [Conns -> LinkRecords]
    /\ \A c \in Conns : InPool(c) => AtBoundary(link[c])
    /\ RequestsInv

LEMMA PoolMembers == \A c : c \in AllPooled <=> InPool(c)
BY DEF AllPooled, InPool

LEMMA Consequences ==
    ASSUME Constants, IInv
    PROVE  Http1TypeOK /\ PooledAtBoundary /\ SentAtMost
<1>1. \A c : InPool(c) => c \in Conns
  BY DEF IInv, PoolInv, InPool, Stacks
<1>2. Http1TypeOK
  <2>1. LinkRecords = Links /\ Stacks = Seq(Conns)
    BY Zenon DEF LinkRecords, Links, Askeds, Wires, Stacks
  <2>2. Steps = {"acquire", "connecting", "send", "head", "body"} \cup Over
    BY Zenon DEF Steps, Over
  <2> QED BY <2>1, <2>2, Zenon DEF IInv, PoolInv, RequestsInv, Http1TypeOK
<1>3. /\ \A c \in AllPooled : link[c].asked = <<>> /\ link[c].wire = <<>>
      /\ AllPooled \cap Held = {}
  BY <1>1, PoolMembers DEF IInv, RequestsInv, AtBoundary, Held
<1>4. PooledAtBoundary
  BY <1>3, Zenon DEF IInv, RequestsInv, PooledAtBoundary
<1>5. SentAtMost
  BY DEF IInv, RequestsInv, SentAtMost, Counts
<1> QED BY <1>2, <1>4, <1>5, Zenon

LEMMA InitInv == Constants /\ Http1Init => IInv
<1> SUFFICES ASSUME Constants, Http1Init PROVE IInv
  BY Zenon
<1>1. <<>> \in Stacks /\ <<>> \in Askeds /\ <<>> \in Wires
  BY DEF Stacks, Askeds, Wires
<1>2. PoolInv /\ \A c : ~InPool(c)
  BY <1>1 DEF Http1Init, PoolInv, Distinct, InPool
<1>3. link \in [Conns -> LinkRecords]
  BY <1>1, Zenon DEF Http1Init, Gone, LinkRecords
<1>4. NoLease \in Leases
  BY DEF NoLease, Leases, Framings, Constants
<1>5. RequestsInv
  BY <1>4 DEF Http1Init, RequestsInv, Steps, Holding, Counts
<1> QED BY <1>2, <1>3, <1>5, Zenon DEF IInv

----------------------------------------------------------------------------
(* The pool.                                                               *)

\* take removes one connection, which is then in the pool no more.
LEMMA TakeStep ==
    ASSUME PoolInv, NEW k \in PoolKeys, Take(k), NEW c, c = Pooled(k)[Len(Pooled(k))]
    PROVE  /\ PoolInv' /\ InPool(c) /\ c \in Conns /\ ~InPool(c)'
           /\ \A d : InPool(d)' => InPool(d)
<1> DEFINE s == Pooled(k)
<1>1. s \in Seq(Conns) /\ s # <<>> /\ hot \in Seq(Conns) /\ other \in [PoolKeys -> Seq(Conns)]
  BY Zenon DEF PoolInv, Pooled, Take, Stacks
<1>2. Len(s) \in DOMAIN s /\ c \in Conns /\ c = s[Len(s)]
  BY <1>1
<1>3. /\ Pop(s) \in Seq(Conns) /\ DOMAIN Pop(s) = 1 .. Len(s) - 1
      /\ \A i \in DOMAIN Pop(s) : i \in DOMAIN s /\ i # Len(s) /\ Pop(s)[i] = s[i]
  BY <1>1 DEF Pop
<1>4. CASE hotKey = k
  <2>1. s = hot /\ hot' = Pop(s) /\ other' = other /\ hotKey' = hotKey
    BY <1>4, Zenon DEF Take, Pooled
  <2> HIDE DEF s
  <2>2. PoolInv'
    BY <1>3, <2>1 DEF PoolInv, Distinct, Stacks
  <2>3. InPool(c) /\ (\A d : InPool(d)' => InPool(d))
    BY <1>2, <1>3, <2>1, Zenon DEF InPool
  <2>4. ~InPool(c)'
    BY <1>2, <1>3, <2>1 DEF InPool, PoolInv, Distinct
  <2> QED BY <1>2, <2>2, <2>3, <2>4, Zenon
<1>5. CASE hotKey # k
  <2>1. s = other[k] /\ hot' = hot /\ other' = [other EXCEPT ![k] = Pop(s)] /\ hotKey' = hotKey
    BY <1>5, Zenon DEF Take, Pooled
  <2> HIDE DEF s
  <2>2. \A m \in PoolKeys : other'[m] = IF m = k THEN Pop(s) ELSE other[m]
    BY <1>1, <2>1, Zenon
  <2>3. other' \in [PoolKeys -> Stacks]
    BY <1>1, <1>3, <2>1, Zenon DEF Stacks
  <2>4. Distinct'
    BY <1>3, <2>1, <2>2 DEF PoolInv, Distinct
  <2>5. PoolInv'
    BY <2>1, <2>3, <2>4, Zenon DEF PoolInv
  <2>6. InPool(c) /\ (\A d : InPool(d)' => InPool(d))
    BY <1>2, <1>3, <2>1, <2>2 DEF InPool
  <2>7. ~InPool(c)'
    BY <1>2, <1>3, <2>1, <2>2 DEF InPool, PoolInv, Distinct
  <2> QED BY <1>2, <2>5, <2>6, <2>7, Zenon
<1> QED BY <1>4, <1>5, Zenon

\* put adds one.
LEMMA PutStep ==
    ASSUME PoolInv, NEW k \in PoolKeys, NEW c \in Conns, ~InPool(c), Put(k, c)
    PROVE  PoolInv' /\ \A d : InPool(d)' => InPool(d) \/ d = c
<1>1. hot \in Seq(Conns) /\ other \in [PoolKeys -> Seq(Conns)]
  BY Zenon DEF PoolInv, Stacks
<1>2. \A s \in Seq(Conns) :
         /\ Append(s, c) \in Seq(Conns) /\ DOMAIN Append(s, c) = DOMAIN s \cup {Len(s) + 1}
         /\ Len(s) + 1 \notin DOMAIN s
         /\ Append(s, c)[Len(s) + 1] = c
         /\ \A i \in DOMAIN s : Append(s, c)[i] = s[i]
  OBVIOUS
<1>3. CASE hotKey \in {k, None} /\ hotKey' = k /\ hot' = Append(hot, c) /\ other' = other
  <2>1. Distinct'
    BY <1>1, <1>2, <1>3 DEF PoolInv, Distinct, InPool
  <2>2. PoolInv'
    BY <1>1, <1>2, <1>3, <2>1, Zenon DEF PoolInv, Stacks
  <2>3. \A d : InPool(d)' => InPool(d) \/ d = c
    BY <1>1, <1>2, <1>3 DEF InPool
  <2> QED BY <2>2, <2>3, Zenon
<1>4. CASE hotKey' = hotKey /\ hot' = hot /\ other' = [other EXCEPT ![k] = Append(other[k], c)]
  <2>1. \A m \in PoolKeys : other'[m] = IF m = k THEN Append(other[k], c) ELSE other[m]
    BY <1>1, <1>4, Zenon
  <2>2. /\ DOMAIN Append(other[k], c) = DOMAIN other[k] \cup {Len(other[k]) + 1}
        /\ Len(other[k]) + 1 \notin DOMAIN other[k]
        /\ Append(other[k], c)[Len(other[k]) + 1] = c
        /\ \A i \in DOMAIN other[k] : Append(other[k], c)[i] = other[k][i]
    BY <1>1, <1>2, Zenon
  <2>3. other' \in [PoolKeys -> Stacks]
    BY <1>1, <1>2, <1>4, Zenon DEF Stacks
  <2>4. Distinct'
    BY <1>4, <2>1, <2>2 DEF PoolInv, Distinct, InPool
  <2>5. PoolInv'
    BY <1>4, <2>3, <2>4, Zenon DEF PoolInv
  <2>6. \A d : InPool(d)' => InPool(d) \/ d = c
    BY <1>4, <2>1, <2>2 DEF InPool
  <2> QED BY <2>5, <2>6, Zenon
<1> QED BY <1>3, <1>4, Zenon DEF Put

\* Of the other connections a release changes nothing; the one it gives back
\* goes into the pool at a boundary, or is closed.
LEMMA ReleaseStep ==
    ASSUME IInv, NEW k \in PoolKeys, NEW c \in Conns, ~InPool(c), NEW reuse \in BOOLEAN,
           NEW l \in LinkRecords, reuse => AtBoundary(l), Release(k, c, reuse, l)
    PROVE  /\ PoolInv'
           /\ link' \in [Conns -> LinkRecords]
           /\ \A d \in Conns : InPool(d)' => AtBoundary(link'[d])
           /\ \A d \in Conns : d # c => link'[d] = link[d] /\ (InPool(d)' => InPool(d))
<1>1. Gone \in LinkRecords
  BY DEF Gone, LinkRecords, Askeds, Wires
<1>2. PoolInv /\ link \in [Conns -> LinkRecords] /\ \A d \in Conns : InPool(d) => AtBoundary(link[d])
  BY Zenon DEF IInv
<1>3. CASE reuse /\ Put(k, c) /\ link' = [link EXCEPT ![c] = l]
  <2>1. PoolInv' /\ \A d : InPool(d)' => InPool(d) \/ d = c
    BY <1>2, <1>3, PutStep, Zenon
  <2>2. link' \in [Conns -> LinkRecords] /\ link'[c] = l /\ \A d \in Conns : d # c => link'[d] = link[d]
    BY <1>2, <1>3, Zenon
  <2> QED BY <1>2, <1>3, <2>1, <2>2, Zenon
<1>4. CASE link' = [link EXCEPT ![c] = Gone] /\ UNCHANGED pool
  <2>1. PoolInv' /\ \A d : InPool(d)' <=> InPool(d)
    BY <1>2, <1>4 DEF pool, PoolInv, Distinct, InPool
  <2>2. link' \in [Conns -> LinkRecords] /\ \A d \in Conns : d # c => link'[d] = link[d]
    BY <1>1, <1>2, <1>4, Zenon
  <2> QED BY <1>2, <2>1, <2>2, Zenon
<1> QED BY <1>3, <1>4, Zenon DEF Release, Drop

----------------------------------------------------------------------------
(* What is on the wire.                                                    *)

LEMMA TailOf ==
    ASSUME NEW w \in Wires, w # <<>>
    PROVE  /\ Tail(w) \in Wires /\ Len(Tail(w)) = Len(w) - 1 /\ Len(w) \in Nat
           /\ Head(w) = w[1] /\ Head(w) \in Units
           /\ EndLast(w) => EndLast(Tail(w))
<1>1. Tail(w) \in Wires /\ Len(Tail(w)) = Len(w) - 1 /\ Len(w) \in Nat
        /\ \A i \in 1 .. Len(w) - 1 : Tail(w)[i] = w[i + 1]
  BY DEF Wires
<1>2. Head(w) = w[1] /\ w[1] \in Units
  BY DEF Wires
<1>3. ASSUME EndLast(w) PROVE EndLast(Tail(w))
  <2> DEFINE v == Tail(w)
  <2>1. Len(v) = Len(w) - 1 /\ Len(w) \in Nat /\ \A i \in 1 .. Len(w) - 1 : v[i] = w[i + 1]
    BY <1>1, Zenon
  <2> HIDE DEF v
  <2>2. ASSUME NEW i \in 1 .. Len(v), v[i].part = "end" PROVE i = Len(v)
    <3>1. i \in Int /\ i + 1 \in 1 .. Len(w) /\ w[i + 1].part = "end"
      BY <2>1, <2>2
    <3>2. i + 1 = Len(w)
      BY <1>3, <3>1, Zenon DEF EndLast
    <3> QED BY <2>1, <3>1, <3>2
  <2> QED BY <2>2, Zenon DEF EndLast, v
<1> QED BY <1>1, <1>2, <1>3, Zenon

\* A connection that closes early has sent a part of what it had to send.
LEMMA PrefixFits ==
    ASSUME NEW r, NEW p, NEW x \in Leases, NEW l \in LinkRecords, Fits(r, p, x, l),
           NEW n \in 0 .. Len(l.wire), NEW m \in LinkRecords,
           m.asked = l.asked, m.wire = SubSeq(l.wire, 1, n), Constants
    PROVE  Fits(r, p, x, m) /\ (AtBoundary(l) => AtBoundary(m))
<1> DEFINE w == l.wire
           v == m.wire
<1>1. w \in Seq(Units) /\ v \in Seq(Units) /\ Len(w) \in Nat /\ n \in 0 .. Len(w)
  BY DEF LinkRecords, Wires
<1>2. Len(v) = n /\ \A i \in 1 .. n : v[i] = w[i]
  BY <1>1
<1> HIDE DEF w, v
<1>3. (w = <<>> => v = <<>>) /\ (v # <<>> => w # <<>> /\ v[1] = w[1] /\ Len(v) >= 1)
  BY <1>1, <1>2
<1>4. ASSUME EndLast(w) PROVE EndLast(v)
  <2> SUFFICES ASSUME NEW i \in 1 .. Len(v), v[i].part = "end" PROVE i = Len(v)
    BY Zenon DEF EndLast
  <2>1. i \in 1 .. Len(w) /\ w[i].part = "end"
    BY <1>1, <1>2
  <2>2. i = Len(w)
    BY <1>4, <2>1, Zenon DEF EndLast
  <2> QED BY <1>1, <1>2, <2>2
<1>5. AtBoundary(l) => AtBoundary(m)
  BY <1>3, Zenon DEF AtBoundary, w, v
<1>6. ASSUME IsReply(r, w) PROVE IsReply(r, v)
  <2>1. w # <<>> => w[1] \in Units
    BY <1>1
  <2>2. w # <<>> => w[1].len \in Nat
    BY <2>1 DEF Units, Constants
  <2> QED BY <1>1, <1>2, <1>3, <1>4, <1>6, <2>2 DEF IsReply
<1>7. ASSUME IsBody(x, w) PROVE IsBody(x, v)
  <2>1. x.left \in Nat
    BY DEF Leases, Constants
  <2> QED BY <1>1, <1>2, <1>4, <1>7, <2>1 DEF IsBody
<1> QED BY <1>3, <1>5, <1>6, <1>7, Zenon DEF Fits, w, v

\* The peer's answer is a response to the request it was asked.
LEMMA ReplyFits ==
    ASSUME Constants, NEW r \in Requests, NEW framing \in PeerFramings, NEW keep \in BOOLEAN,
           NEW len \in 0 .. MaxUnits, NEW units \in BodyUnits(r, framing, len)
    PROVE  LET w == <<HeadUnit(r, framing, keep, len)>> \o units
           IN  w \in Wires /\ units \in Wires /\ IsReply(r, w)
<1> DEFINE h == HeadUnit(r, framing, keep, len)
           w == <<h>> \o units
           data == [i \in 1 .. len |-> Unit(r, "data")]
<1>1. /\ h \in Units /\ h.part = "head" /\ h.to = r /\ h.framing = framing /\ h.len = len
  BY Zenon DEF HeadUnit, Units, Constants
<1>2. \A q \in {"data", "end", "bad"} : Unit(r, q) \in Units /\ Unit(r, q).part = q
  BY DEF Unit, Units, Framings, Constants
<1>3. data \in Seq(Units) /\ Len(data) = len /\ \A i \in 1 .. len : data[i] = Unit(r, "data")
  BY <1>2 DEF Constants
<1>4. \/ framing = "Chunked" /\ \E q \in {"end", "bad"} : units = Append(data, Unit(r, q))
      \/ framing = "None" /\ units = <<>>
      \/ framing \notin {"Chunked", "None"} /\ units = data
  BY Zenon DEF BodyUnits
<1> HIDE DEF h, data
<1>5. units \in Seq(Units)
  <2>1. \A q \in {"end", "bad"} : Append(data, Unit(r, q)) \in Seq(Units)
    BY <1>2, <1>3
  <2>2. <<>> \in Seq(Units)
    OBVIOUS
  <2> QED BY <1>3, <1>4, <2>1, <2>2, Zenon
<1>6. /\ w \in Seq(Units) /\ Len(w) = Len(units) + 1 /\ w[1] = h
      /\ \A i \in 2 .. Len(w) : w[i] = units[i - 1]
  BY <1>1, <1>5
<1> HIDE DEF w
<1>7. framing = "None" => Len(w) = 1
  BY <1>4, <1>6
<1>8. framing = "Fixed" => Len(w) <= len + 1
  BY <1>3, <1>4, <1>6
<1>9. ASSUME framing = "Chunked" PROVE EndLast(w)
  <2>1. PICK q \in {"end", "bad"} : units = Append(data, Unit(r, q))
    BY <1>4, <1>9, Zenon
  <2>2. Len(units) = len + 1 /\ \A i \in 1 .. len : units[i].part = "data"
    BY <1>2, <1>3, <2>1
  <2>3. \A i \in 1 .. Len(w) : i # Len(w) => w[i].part # "end"
    BY <1>1, <1>6, <2>2
  <2> QED BY <2>3, Zenon DEF EndLast
<1>10. IsReply(r, w)
  BY <1>1, <1>6, <1>7, <1>8, <1>9, Zenon DEF IsReply
<1> QED BY <1>5, <1>6, <1>10, Zenon DEF w, h, Wires

----------------------------------------------------------------------------
(* The steps.                                                              *)

\* The request r goes to step p with connection c, lease x, answer a, and has then
\* made t tries and been sent n times.
Moves(r, p, c, x, a, t, n) ==
    /\ stage' = [stage EXCEPT ![r] = p]
    /\ conn' = [conn EXCEPT ![r] = c]
    /\ lease' = [lease EXCEPT ![r] = x]
    /\ answer' = [answer EXCEPT ![r] = a]
    /\ tries' = [tries EXCEPT ![r] = t]
    /\ sent' = [sent EXCEPT ![r] = n]
    /\ poolKey' = poolKey /\ replays' = replays

\* No connection changes but the ones r had and has, and the pool stays in order.
Carries(r, c) ==
    /\ PoolInv'
    /\ link' \in [Conns -> LinkRecords]
    /\ \A d \in Conns : InPool(d)' => AtBoundary(link'[d])
    /\ \A d \in Conns : d \notin {conn[r], c} =>
           link'[d] = link[d] /\ (InPool(d)' => InPool(d))

\* The connection is r's alone and fits the step.
Places(r, p, c, x) ==
    /\ c # None <=> p \in Holding
    /\ c # None => ~InPool(c)' /\ Fits(r, p, x, link'[c])
    /\ c # None => \A q \in Requests \ {r} : conn[q] # c

LEMMA MoveStep ==
    ASSUME IInv, NEW r \in Requests, NEW p \in Steps, NEW c \in Conns \cup {None},
           NEW x \in Leases, NEW a \in {r, None}, NEW t \in 1 .. 2, NEW n \in 0 .. 2,
           Moves(r, p, c, x, a, t, n), Carries(r, c), Places(r, p, c, x),
           Counts(p, n, t, replays[r])
    PROVE  IInv'
<1> USE DEF Moves, Carries, Places
<1>1. /\ stage' \in [Requests -> Steps] /\ conn' \in [Requests -> Conns \cup {None}]
      /\ lease' \in [Requests -> Leases] /\ answer' \in [Requests -> Requests \cup {None}]
      /\ tries' \in [Requests -> 1 .. 2] /\ sent' \in [Requests -> 0 .. 2]
      /\ poolKey' \in [Requests -> PoolKeys] /\ replays' \in [Requests -> BOOLEAN]
  BY DEF IInv, RequestsInv
<1>2. /\ stage'[r] = p /\ conn'[r] = c /\ lease'[r] = x /\ answer'[r] = a /\ tries'[r] = t
      /\ sent'[r] = n
      /\ \A q \in Requests \ {r} :
            /\ stage'[q] = stage[q] /\ conn'[q] = conn[q] /\ lease'[q] = lease[q]
            /\ answer'[q] = answer[q] /\ tries'[q] = tries[q] /\ sent'[q] = sent[q]
  BY DEF IInv, RequestsInv
<1>3. ASSUME NEW q \in Requests \ {r}, conn[q] # None
      PROVE  ~InPool(conn[q])' /\ Fits(q, stage[q], lease[q], link'[conn[q]])
  <2>1. conn[q] \in Conns /\ conn[q] \notin {conn[r], c}
    BY <1>3 DEF IInv, RequestsInv
  <2>2. ~InPool(conn[q]) /\ Fits(q, stage[q], lease[q], link[conn[q]])
    BY <1>3, Zenon DEF IInv, RequestsInv
  <2>3. conn'[q] = conn[q] /\ link'[conn[q]] = link[conn[q]]
    BY <1>2, <2>1, Zenon
  <2>4. ASSUME NEW d \in Conns, d = conn[q] PROVE ~InPool(d)'
    BY <2>1, <2>2, <2>4, Zenon
  <2> QED BY <2>1, <2>2, <2>3, <2>4, Zenon
<1>4. \A q \in Requests :
         /\ conn'[q] # None <=> stage'[q] \in Holding
         /\ answer'[q] \in {q, None}
         /\ Counts(stage'[q], sent'[q], tries'[q], replays'[q])
  BY <1>2 DEF IInv, RequestsInv
<1>5. \A q \in Requests : conn'[q] # None =>
         ~InPool(conn[q])' /\ Fits(q, stage'[q], lease'[q], link'[conn'[q]])
  BY <1>2, <1>3
<1>6. \A q, s \in Requests : conn'[q] # None /\ conn'[q] = conn'[s] => q = s
  BY <1>2 DEF IInv, RequestsInv
<1>7. RequestsInv'
  BY <1>1, <1>4, <1>5, <1>6, Zenon DEF RequestsInv
<1> QED BY <1>7, Zenon DEF IInv

\* What the invariant says of one request's values, and that an assignment of the
\* value it has is none.
LEMMA Values ==
    ASSUME IInv, NEW r \in Requests
    PROVE  /\ stage[r] \in Steps /\ poolKey[r] \in PoolKeys /\ conn[r] \in Conns \cup {None}
           /\ lease[r] \in Leases /\ answer[r] \in {r, None} /\ replays[r] \in BOOLEAN
           /\ tries[r] \in 1 .. 2 /\ sent[r] \in 0 .. 2
           /\ conn[r] # None <=> stage[r] \in Holding
           /\ conn[r] # None => /\ conn[r] \in Conns /\ ~InPool(conn[r])
                                /\ link[conn[r]] \in LinkRecords
                                /\ Fits(r, stage[r], lease[r], link[conn[r]])
                                /\ \A q \in Requests \ {r} : conn[q] # conn[r]
           /\ Counts(stage[r], sent[r], tries[r], replays[r])
           /\ lease = [lease EXCEPT ![r] = lease[r]] /\ answer = [answer EXCEPT ![r] = answer[r]]
           /\ tries = [tries EXCEPT ![r] = tries[r]] /\ sent = [sent EXCEPT ![r] = sent[r]]
           /\ conn = [conn EXCEPT ![r] = conn[r]] /\ stage = [stage EXCEPT ![r] = stage[r]]
<1>1. /\ stage[r] \in Steps /\ poolKey[r] \in PoolKeys /\ conn[r] \in Conns \cup {None}
      /\ lease[r] \in Leases /\ answer[r] \in {r, None} /\ replays[r] \in BOOLEAN
      /\ tries[r] \in 1 .. 2 /\ sent[r] \in 0 .. 2
      /\ conn[r] # None <=> stage[r] \in Holding
      /\ Counts(stage[r], sent[r], tries[r], replays[r])
  BY Zenon DEF IInv, RequestsInv
<1>2. conn[r] # None => /\ conn[r] \in Conns /\ ~InPool(conn[r])
                        /\ link[conn[r]] \in LinkRecords
                        /\ Fits(r, stage[r], lease[r], link[conn[r]])
                        /\ \A q \in Requests \ {r} : conn[q] # conn[r]
  BY Zenon DEF IInv, RequestsInv
<1>3. /\ lease = [lease EXCEPT ![r] = lease[r]] /\ answer = [answer EXCEPT ![r] = answer[r]]
      /\ tries = [tries EXCEPT ![r] = tries[r]] /\ sent = [sent EXCEPT ![r] = sent[r]]
      /\ conn = [conn EXCEPT ![r] = conn[r]] /\ stage = [stage EXCEPT ![r] = stage[r]]
  BY Zenon DEF IInv, RequestsInv
<1> QED BY <1>1, <1>2, <1>3, Zenon

LEMMA SamePool ==
    ASSUME IInv, UNCHANGED pool
    PROVE  PoolInv' /\ \A d : InPool(d)' <=> InPool(d)
BY DEF IInv, pool, PoolInv, Distinct, InPool

\* A step that leaves the pool alone and one connection, in nobody's pool, in state l.
LEMMA LinkStep ==
    ASSUME IInv, UNCHANGED pool, NEW c \in Conns, ~InPool(c), NEW l \in LinkRecords,
           link' = [link EXCEPT ![c] = l]
    PROVE  /\ PoolInv'
           /\ link' \in [Conns -> LinkRecords] /\ link'[c] = l
           /\ \A d \in Conns : InPool(d)' => AtBoundary(link'[d])
           /\ \A d \in Conns : d # c => link'[d] = link[d] /\ (InPool(d)' => InPool(d))
           /\ ~InPool(c)'
<1>1. PoolInv' /\ \A d : InPool(d)' <=> InPool(d)
  BY SamePool, Zenon
<1>2. /\ link' \in [Conns -> LinkRecords] /\ link'[c] = l
      /\ \A d \in Conns : d # c => link'[d] = link[d]
  BY Zenon DEF IInv
<1> QED BY <1>1, <1>2, Zenon DEF IInv

\* No connection is touched: a miss, and the ways a connect comes to nothing.
LEMMA NoConnectionStep ==
    ASSUME IInv, NEW r \in Requests, TakeMisses(r) \/ ConnectFails(r)
                 \/ (stage[r] = "connecting" /\ stage' = [stage EXCEPT ![r] = "failed"]
                     /\ UNCHANGED <<pool, link, poolKey, replays, conn, tries, sent, lease, answer>>)
    PROVE  IInv'
<1>1. PICK p \in {"connecting", "failed"} :
        /\ stage' = [stage EXCEPT ![r] = p] /\ stage[r] \in {"acquire", "connecting"}
        /\ UNCHANGED <<pool, link, poolKey, replays, conn, tries, sent, lease, answer>>
  BY Zenon DEF TakeMisses, ConnectFails
<1>2. conn[r] = None /\ Counts(p, sent[r], tries[r], replays[r])
  BY <1>1, Values, Zenon DEF Holding, Counts
<1>3. p \in Steps /\ p \notin Holding
  BY <1>1, Zenon DEF Steps, Holding
<1>4. Carries(r, None)
  BY <1>1, SamePool, Zenon DEF IInv, Carries
<1>5. Moves(r, p, None, lease[r], answer[r], tries[r], sent[r])
  BY <1>1, <1>2, Values, Zenon DEF Moves
<1>6. Places(r, p, None, lease[r])
  BY <1>3, Zenon DEF Places
<1> QED BY <1>2, <1>3, <1>4, <1>5, <1>6, Values, MoveStep

LEMMA TakePooledStep == ASSUME Constants, IInv, NEW r \in Requests, TakePooled(r) PROVE IInv'
<1>1. PICK c : c = Pooled(poolKey[r])[Len(Pooled(poolKey[r]))]
  BY Zenon
<1>2. /\ Take(poolKey[r]) /\ stage[r] = "acquire" /\ conn' = [conn EXCEPT ![r] = c]
      /\ stage' = [stage EXCEPT ![r] = "send"]
      /\ UNCHANGED <<link, poolKey, replays, tries, sent, lease, answer>>
  BY <1>1, Zenon DEF TakePooled
<1>3. /\ PoolInv' /\ InPool(c) /\ c \in Conns /\ ~InPool(c)' /\ \A d : InPool(d)' => InPool(d)
  BY <1>1, <1>2, Values, TakeStep, Zenon DEF IInv
<1>4. c # None /\ Fits(r, "send", lease[r], link'[c])
  BY <1>2, <1>3, Zenon DEF Constants, IInv, Fits
<1>5. \A q \in Requests : conn[q] # c
  BY <1>3, <1>4 DEF IInv, RequestsInv
<1>6. Counts("send", sent[r], tries[r], replays[r])
  BY <1>2, Values, Zenon DEF Counts
<1>7. "send" \in Steps /\ "send" \in Holding
  BY Zenon DEF Steps, Holding
<1>8. Carries(r, c)
  BY <1>2, <1>3, Zenon DEF IInv, Carries
<1>9. Moves(r, "send", c, lease[r], answer[r], tries[r], sent[r])
  BY <1>2, Values, Zenon DEF Moves
<1>10. Places(r, "send", c, lease[r])
  BY <1>3, <1>4, <1>5, <1>7, Zenon DEF Places
<1> QED BY <1>3, <1>6, <1>7, <1>8, <1>9, <1>10, Values, MoveStep, Zenon

LEMMA ConnectStep == ASSUME Constants, IInv, NEW r \in Requests, Connect(r) PROVE IInv'
<1>1. PICK c \in Free : conn' = [conn EXCEPT ![r] = c] /\ link' = [link EXCEPT ![c] = Fresh]
  BY Zenon DEF Connect
<1>2. /\ stage[r] = "connecting" /\ stage' = [stage EXCEPT ![r] = "send"]
      /\ UNCHANGED <<pool, poolKey, replays, tries, sent, lease, answer>>
  BY Zenon DEF Connect
<1>3. c \in Conns /\ ~InPool(c) /\ c # None /\ \A q \in Requests : conn[q] # c
  BY PoolMembers, Zenon DEF Free, Held, Constants
<1>4. Fresh \in LinkRecords /\ Fits(r, "send", lease[r], Fresh)
  BY DEF Fresh, LinkRecords, Askeds, Wires, Fits, AtBoundary
<1>5. /\ PoolInv'
      /\ link' \in [Conns -> LinkRecords] /\ link'[c] = Fresh
      /\ \A d \in Conns : InPool(d)' => AtBoundary(link'[d])
      /\ \A d \in Conns : d # c => link'[d] = link[d] /\ (InPool(d)' => InPool(d))
      /\ ~InPool(c)'
  BY <1>1, <1>2, <1>3, <1>4, LinkStep, Zenon
<1>6. Counts("send", sent[r], tries[r], replays[r])
  BY <1>2, Values, Zenon DEF Counts
<1>7. "send" \in Steps /\ "send" \in Holding
  BY Zenon DEF Steps, Holding
<1>8. Carries(r, c)
  BY <1>5, Zenon DEF Carries
<1>9. Moves(r, "send", c, lease[r], answer[r], tries[r], sent[r])
  BY <1>1, <1>2, Values, Zenon DEF Moves
<1>10. Places(r, "send", c, lease[r])
  BY <1>3, <1>4, <1>5, <1>7, Zenon DEF Places
<1> QED BY <1>3, <1>6, <1>7, <1>8, <1>9, <1>10, Values, MoveStep, Zenon

\* The request gives its connection up and the connection is closed.
LEMMA DropStep ==
    ASSUME Constants, IInv, NEW r \in Requests, stage[r] \in Holding, Drop(conn[r]), UNCHANGED pool,
           NEW p \in Steps \ Holding, NEW x \in Leases, NEW t \in 1 .. 2,
           Moves(r, p, None, x, answer[r], t, sent[r]), Counts(p, sent[r], t, replays[r])
    PROVE  IInv'
<1>1. PICK c \in Conns : c = conn[r] /\ ~InPool(c)
  BY Values, Zenon
<1>2. Gone \in LinkRecords /\ link' = [link EXCEPT ![c] = Gone]
  BY <1>1 DEF Gone, LinkRecords, Askeds, Wires, Drop
<1>3. /\ PoolInv'
      /\ link' \in [Conns -> LinkRecords] /\ link'[c] = Gone
      /\ \A d \in Conns : InPool(d)' => AtBoundary(link'[d])
      /\ \A d \in Conns : d # c => link'[d] = link[d] /\ (InPool(d)' => InPool(d))
  BY <1>1, <1>2, LinkStep, Zenon
<1>4. Carries(r, None) /\ Places(r, p, None, x)
  BY <1>1, <1>3, Zenon DEF Carries, Places
<1> QED BY <1>4, Values, MoveStep, Zenon

LEMMA FailStep ==
    ASSUME Constants, IInv, NEW r \in Requests, stage[r] \in Holding, FailWithConnection(r)
    PROVE  IInv'
<1>1. NoLease \in Leases
  BY DEF NoLease, Leases, Framings, Constants
<1>2. Moves(r, "failed", None, NoLease, answer[r], tries[r], sent[r])
  BY Values, Zenon DEF Moves, FailWithConnection
<1>3. "failed" \in Steps \ Holding /\ Counts("failed", sent[r], tries[r], replays[r])
  BY Values, Zenon DEF Steps, Holding, Counts
<1>4. Drop(conn[r]) /\ UNCHANGED pool
  BY Zenon DEF FailWithConnection
<1> QED BY <1>1, <1>2, <1>3, <1>4, Values, DropStep, Zenon

LEMMA FailureStep ==
    ASSUME Constants, IInv, NEW r \in Requests,
           MakeRequestFails(r) \/ AttemptFails(r) \/ PullFails(r) \/ Cancel(r)
    PROVE  IInv'
<1>1. CASE stage[r] \in Holding /\ FailWithConnection(r)
  BY <1>1, FailStep, Zenon
<1>2. CASE /\ stage[r] = "connecting" /\ stage' = [stage EXCEPT ![r] = "failed"]
           /\ UNCHANGED <<pool, link, poolKey, replays, conn, tries, sent, lease, answer>>
  BY <1>2, NoConnectionStep, Zenon
<1> QED
  BY <1>1, <1>2, Zenon
  DEF MakeRequestFails, AttemptFails, AttemptError, PullFails, AtEof, Readable, Cancel, Holding

LEMMA RetryStep == ASSUME Constants, IInv, NEW r \in Requests, RetryAttempt(r) PROVE IInv'
<1>1. /\ stage[r] \in {"send", "head"} /\ replays[r] /\ tries[r] = 1
      /\ Drop(conn[r]) /\ UNCHANGED pool
      /\ stage' = [stage EXCEPT ![r] = "acquire"] /\ conn' = [conn EXCEPT ![r] = None]
      /\ tries' = [tries EXCEPT ![r] = 2] /\ UNCHANGED <<poolKey, replays, sent, lease, answer>>
  BY Zenon DEF RetryAttempt, AttemptError
<1>2. Moves(r, "acquire", None, lease[r], answer[r], 2, sent[r])
  BY <1>1, Values, Zenon DEF Moves
<1>3. Counts("acquire", sent[r], 2, replays[r])
  BY <1>1, Values DEF Counts
<1>4. stage[r] \in Holding /\ "acquire" \in Steps \ Holding
  BY <1>1, Zenon DEF Steps, Holding
<1>5. Drop(conn[r]) /\ UNCHANGED pool /\ lease[r] \in Leases /\ 2 \in 1 .. 2
  BY <1>1, Values
<1> QED BY <1>2, <1>3, <1>4, <1>5, DropStep, Zenon

\* The request keeps its connection c, which is then in state l.
LEMMA KeepStep ==
    ASSUME Constants, IInv, NEW r \in Requests, NEW c \in Conns, c = conn[r], UNCHANGED pool,
           NEW l \in LinkRecords, link' = [link EXCEPT ![c] = l],
           NEW p \in Holding, NEW x \in Leases, NEW a \in {r, None}, NEW n \in 0 .. 2,
           Moves(r, p, c, x, a, tries[r], n), Counts(p, n, tries[r], replays[r]), Fits(r, p, x, l)
    PROVE  IInv'
<1>1. ~InPool(c) /\ c # None /\ \A q \in Requests \ {r} : conn[q] # c
  BY Values, Zenon DEF Constants
<1>2. /\ PoolInv'
      /\ link' \in [Conns -> LinkRecords] /\ link'[c] = l
      /\ \A d \in Conns : InPool(d)' => AtBoundary(link'[d])
      /\ \A d \in Conns : d # c => link'[d] = link[d] /\ (InPool(d)' => InPool(d))
      /\ ~InPool(c)'
  BY <1>1, LinkStep, Zenon
<1>3. Carries(r, c) /\ Places(r, p, c, x) /\ p \in Steps
  BY <1>1, <1>2, Zenon DEF Carries, Places, Holding, Steps
<1> QED BY <1>3, Values, MoveStep, Zenon

LEMMA SendStep == ASSUME Constants, IInv, NEW r \in Requests, SendRequest(r) PROVE IInv'
<1>1. stage[r] = "send" /\ "send" \in Holding /\ "head" \in Holding
  BY Zenon DEF SendRequest, Holding
<1>2. PICK c \in Conns : c = conn[r]
  BY <1>1, Values, Zenon
<1>3. PICK l : l = [link[c] EXCEPT !.asked = Append(link[c].asked, r)]
  BY Zenon
<1>4. link[c] \in LinkRecords /\ AtBoundary(link[c])
  BY <1>1, <1>2, Values, Zenon DEF Fits
<1>5. l \in LinkRecords /\ l.asked = <<r>> /\ l.wire = <<>>
  <2>1. link[c].asked = <<>> /\ link[c].wire = <<>>
    BY <1>4, Zenon DEF AtBoundary
  <2>2. Append(<<>>, r) = <<r>> /\ <<r>> \in Askeds
    BY DEF Askeds
  <2>3. l = [link[c] EXCEPT !.asked = <<r>>]
    BY <1>3, <2>1, <2>2, Zenon
  <2> QED BY <1>4, <2>1, <2>2, <2>3, Zenon DEF LinkRecords
<1>6. Fits(r, "head", lease[r], l)
  BY <1>5, Zenon DEF Fits, IsReply
<1>7. /\ link' = [link EXCEPT ![c] = l] /\ stage' = [stage EXCEPT ![r] = "head"]
      /\ sent' = [sent EXCEPT ![r] = sent[r] + 1]
      /\ UNCHANGED pool /\ UNCHANGED <<poolKey, replays, conn, tries, lease, answer>>
  BY <1>2, <1>3, Zenon DEF SendRequest
<1>8. sent[r] + 1 \in 0 .. 2 /\ Counts("head", sent[r] + 1, tries[r], replays[r])
  BY <1>1, Values DEF Counts
<1>9. Moves(r, "head", c, lease[r], answer[r], tries[r], sent[r] + 1)
  BY <1>2, <1>7, Values, Zenon DEF Moves
<1>10. lease[r] \in Leases /\ answer[r] \in {r, None}
  BY Values, Zenon
<1> QED BY <1>1, <1>2, <1>5, <1>6, <1>7, <1>8, <1>9, <1>10, KeepStep, Zenon

\* What is left of a connection once its first unit is read.
LEMMA ReadOne ==
    ASSUME NEW l \in LinkRecords, l.wire # <<>>, NEW m, m = [l EXCEPT !.wire = Tail(l.wire)]
    PROVE  /\ m \in LinkRecords /\ m.asked = l.asked /\ m.wire = Tail(l.wire)
           /\ Len(m.wire) = Len(l.wire) - 1 /\ Len(l.wire) \in Nat
           /\ Head(l.wire) = l.wire[1] /\ Head(l.wire) \in Units
           /\ EndLast(l.wire) => EndLast(m.wire)
<1>1. l.wire \in Wires
  BY Zenon DEF LinkRecords
<1>2. Tail(l.wire) \in Wires
  BY <1>1, TailOf, Zenon
<1>3. m \in LinkRecords /\ m.asked = l.asked /\ m.wire = Tail(l.wire)
  BY <1>2, Zenon DEF LinkRecords
<1> QED BY <1>1, <1>3, TailOf, Zenon

LEMMA ReadHeadStep == ASSUME Constants, IInv, NEW r \in Requests, ReadHead(r) PROVE IInv'
<1>1. stage[r] = "head" /\ "head" \in Holding /\ "body" \in Holding
  BY Zenon DEF ReadHead, Holding
<1>2. PICK c \in Conns : c = conn[r]
  BY <1>1, Values, Zenon
<1>3. PICK l : l = [link[c] EXCEPT !.wire = Tail(link[c].wire)]
  BY Zenon
<1>4. PICK u : u = Head(link[c].wire)
  BY Zenon
<1>5. PICK x : x = [framing |-> u.framing,
                    left  |-> IF u.framing = "Fixed" THEN u.len ELSE 0,
                    reuse |-> u.keep /\ u.framing # "CloseDelimited"]
  BY Zenon
<1>6. /\ link[c].wire # <<>> /\ u.part = "head" /\ u.framing # "None"
      /\ link' = [link EXCEPT ![c] = l] /\ stage' = [stage EXCEPT ![r] = "body"]
      /\ answer' = [answer EXCEPT ![r] = u.to] /\ lease' = [lease EXCEPT ![r] = x]
      /\ UNCHANGED pool /\ UNCHANGED <<poolKey, replays, conn, tries, sent>>
  BY <1>2, <1>3, <1>4, <1>5, Zenon DEF ReadHead
<1>7. link[c] \in LinkRecords /\ Fits(r, "head", lease[r], link[c])
  BY <1>1, <1>2, Values, Zenon
<1>8. /\ link[c].asked \in {<<>>, <<r>>}
      /\ link[c].asked = <<r>> => link[c].wire = <<>>
      /\ IsReply(r, link[c].wire)
  BY <1>7, Zenon DEF Fits
<1>9. /\ l \in LinkRecords /\ l.asked = link[c].asked
      /\ Len(l.wire) = Len(link[c].wire) - 1 /\ Len(link[c].wire) \in Nat
      /\ u = link[c].wire[1] /\ u \in Units
      /\ EndLast(link[c].wire) => EndLast(l.wire)
  BY <1>3, <1>4, <1>6, <1>7, ReadOne, Zenon
<1>10. /\ u.to \in {r, None} /\ l.asked = <<>>
       /\ u.framing = "Fixed" => Len(link[c].wire) <= u.len + 1
       /\ u.framing = "Chunked" => EndLast(link[c].wire)
  BY <1>6, <1>8, <1>9, Zenon DEF IsReply
<1>11. u.framing \in Framings /\ u.len \in 0 .. MaxUnits /\ u.keep \in BOOLEAN
  BY <1>9, Zenon DEF Units
<1>12. /\ x \in Leases /\ x.framing = u.framing
       /\ x.framing = "Fixed" => x.left = u.len
       /\ x.framing = "CloseDelimited" => ~x.reuse
  <2>1. (u.keep /\ u.framing # "CloseDelimited") \in BOOLEAN
    BY Zenon
  <2>2. (IF u.framing = "Fixed" THEN u.len ELSE 0) \in 0 .. MaxUnits
    BY <1>11 DEF Constants
  <2>3. x \in Leases
    BY <1>5, <1>11, <2>1, <2>2, Zenon DEF Leases
  <2> QED BY <1>5, <2>3, Zenon
<1>13. Fits(r, "body", x, l)
  <2>1. IsBody(x, l.wire)
    BY <1>9, <1>10, <1>11, <1>12 DEF IsBody, Constants
  <2> QED BY <1>10, <2>1, Zenon DEF Fits
<1>14. Counts("body", sent[r], tries[r], replays[r]) /\ sent[r] \in 0 .. 2
  BY Values, Zenon DEF Counts
<1>15. Moves(r, "body", c, x, u.to, tries[r], sent[r])
  BY <1>2, <1>6, Values, Zenon DEF Moves
<1> QED BY <1>1, <1>2, <1>6, <1>9, <1>10, <1>12, <1>13, <1>14, <1>15, KeepStep, Zenon

LEMMA PullChunkStep == ASSUME Constants, IInv, NEW r \in Requests, PullChunk(r) PROVE IInv'
<1>1. stage[r] = "body" /\ "body" \in Holding
  BY Zenon DEF PullChunk, Readable, Holding
<1>2. PICK c \in Conns : c = conn[r]
  BY <1>1, Values, Zenon
<1>3. PICK l : l = [link[c] EXCEPT !.wire = Tail(link[c].wire)]
  BY Zenon
<1>4. PICK n : n = IF lease[r].framing = "Fixed" THEN lease[r].left - 1 ELSE lease[r].left
  BY Zenon
<1>5. PICK x : x = [lease[r] EXCEPT !.left = n]
  BY Zenon
<1>6. /\ link[c].wire # <<>> /\ link' = [link EXCEPT ![c] = l]
      /\ lease' = [lease EXCEPT ![r] = x]
      /\ lease[r].framing = "Fixed" => lease[r].left > 1
      /\ UNCHANGED pool /\ UNCHANGED <<stage, poolKey, replays, conn, tries, sent, answer>>
  BY <1>2, <1>3, <1>4, <1>5, Zenon DEF PullChunk, Readable
<1>7. link[c] \in LinkRecords /\ Fits(r, "body", lease[r], link[c]) /\ lease[r] \in Leases
  BY <1>1, <1>2, Values, Zenon
<1>8. link[c].asked = <<>> /\ IsBody(lease[r], link[c].wire)
  BY <1>7, Zenon DEF Fits
<1>9. /\ l \in LinkRecords /\ l.asked = link[c].asked
      /\ Len(l.wire) = Len(link[c].wire) - 1 /\ Len(link[c].wire) \in Nat
      /\ EndLast(link[c].wire) => EndLast(l.wire)
  BY <1>3, <1>6, <1>7, ReadOne, Zenon
<1>10. lease[r].left \in 0 .. MaxUnits
  BY <1>7, Zenon DEF Leases
<1>11. n \in 0 .. MaxUnits /\ (lease[r].framing = "Fixed" => n = lease[r].left - 1)
  BY <1>4, <1>6, <1>10 DEF Constants
<1>12. /\ x \in Leases /\ x.framing = lease[r].framing /\ x.reuse = lease[r].reuse /\ x.left = n
  BY <1>5, <1>7, <1>11, Zenon DEF Leases
<1>13. Fits(r, "body", x, l)
  <2>1. IsBody(x, l.wire)
    BY <1>8, <1>9, <1>10, <1>11, <1>12 DEF IsBody, Constants
  <2> QED BY <1>8, <1>9, <2>1, Zenon DEF Fits
<1>14. /\ Counts("body", sent[r], tries[r], replays[r]) /\ sent[r] \in 0 .. 2
       /\ answer[r] \in {r, None}
  BY <1>1, Values, Zenon DEF Counts
<1>15. Moves(r, "body", c, x, answer[r], tries[r], sent[r])
  BY <1>1, <1>2, <1>6, Values, Zenon DEF Moves
<1> QED BY <1>1, <1>2, <1>6, <1>9, <1>12, <1>13, <1>14, <1>15, KeepStep, Zenon

\* The response is over and the lease released, with the connection in state l.
LEMMA GiveBackStep ==
    ASSUME Constants, IInv, NEW r \in Requests, NEW c \in Conns, c = conn[r],
           NEW reuse \in BOOLEAN, NEW l \in LinkRecords, reuse => AtBoundary(l),
           Release(poolKey[r], c, reuse, l), NEW x \in Leases, NEW a \in {r, None},
           Moves(r, "done", None, x, a, tries[r], sent[r])
    PROVE  IInv'
<1>1. ~InPool(c) /\ poolKey[r] \in PoolKeys
  BY Values, Zenon DEF Constants
<1>2. /\ PoolInv'
      /\ link' \in [Conns -> LinkRecords]
      /\ \A d \in Conns : InPool(d)' => AtBoundary(link'[d])
      /\ \A d \in Conns : d # c => link'[d] = link[d] /\ (InPool(d)' => InPool(d))
  BY <1>1, ReleaseStep, Zenon
<1>3. Carries(r, None) /\ Places(r, "done", None, x) /\ "done" \in Steps
  BY <1>2, Zenon DEF Carries, Places, Steps, Holding
<1>4. Counts("done", sent[r], tries[r], replays[r]) /\ tries[r] \in 1 .. 2 /\ sent[r] \in 0 .. 2
  BY Values, Zenon DEF Counts
<1> QED BY <1>3, <1>4, MoveStep, Zenon

LEMMA ReadHeadOnlyStep == ASSUME Constants, IInv, NEW r \in Requests, ReadHeadOnly(r) PROVE IInv'
<1>1. stage[r] = "head" /\ "head" \in Holding
  BY Zenon DEF ReadHeadOnly, Holding
<1>2. PICK c \in Conns : c = conn[r]
  BY <1>1, Values, Zenon
<1>3. PICK l : l = [link[c] EXCEPT !.wire = Tail(link[c].wire)]
  BY Zenon
<1>4. PICK u : u = Head(link[c].wire)
  BY Zenon
<1>5. /\ link[c].wire # <<>> /\ u.framing = "None" /\ Release(poolKey[r], c, u.keep, l)
      /\ stage' = [stage EXCEPT ![r] = "done"] /\ conn' = [conn EXCEPT ![r] = None]
      /\ answer' = [answer EXCEPT ![r] = u.to] /\ UNCHANGED <<poolKey, replays, tries, sent, lease>>
  BY <1>2, <1>3, <1>4, Zenon DEF ReadHeadOnly
<1>6. link[c] \in LinkRecords /\ Fits(r, "head", lease[r], link[c])
  BY <1>1, <1>2, Values, Zenon
<1>7. /\ link[c].asked \in {<<>>, <<r>>}
      /\ link[c].asked = <<r>> => link[c].wire = <<>>
      /\ IsReply(r, link[c].wire)
  BY <1>6, Zenon DEF Fits
<1>8. /\ l \in LinkRecords /\ l.asked = link[c].asked
      /\ Len(l.wire) = Len(link[c].wire) - 1
      /\ u = link[c].wire[1] /\ u \in Units
  BY <1>3, <1>4, <1>5, <1>6, ReadOne, Zenon
<1>9. u.to = r /\ l.asked = <<>> /\ Len(l.wire) = 0 /\ u.keep \in BOOLEAN
  BY <1>5, <1>7, <1>8 DEF IsReply, Units
<1>10. AtBoundary(l)
  BY <1>8, <1>9 DEF AtBoundary, LinkRecords, Wires
<1>11. Moves(r, "done", None, lease[r], u.to, tries[r], sent[r]) /\ lease[r] \in Leases
  BY <1>5, Values, Zenon DEF Moves
<1>12. u.to \in {r, None}
  BY <1>9, Zenon
<1> QED BY <1>2, <1>5, <1>8, <1>9, <1>10, <1>11, <1>12, GiveBackStep, Zenon

LEMMA PullEndStep == ASSUME Constants, IInv, NEW r \in Requests, PullLast(r) \/ PullEof(r) PROVE IInv'
<1>1. stage[r] = "body" /\ "body" \in Holding
  BY Zenon DEF PullLast, PullEof, AtEof, Readable, Holding
<1>2. PICK c \in Conns : c = conn[r]
  BY <1>1, Values, Zenon
<1>3. link[c] \in LinkRecords /\ Fits(r, "body", lease[r], link[c]) /\ lease[r] \in Leases
  BY <1>1, <1>2, Values, Zenon
<1>4. link[c].asked = <<>> /\ IsBody(lease[r], link[c].wire)
  BY <1>3, Zenon DEF Fits
<1>5. lease[r].reuse \in BOOLEAN /\ lease[r].left \in 0 .. MaxUnits
  BY <1>3, Zenon DEF Leases
<1>6. ASSUME NEW l \in LinkRecords, FinishBody(r, l), lease[r].reuse => AtBoundary(l)
      PROVE  IInv'
  <2>1. NoLease \in Leases
    BY DEF NoLease, Leases, Framings, Constants
  <2>2. Moves(r, "done", None, NoLease, answer[r], tries[r], sent[r])
    BY <1>6, Values, Zenon DEF FinishBody, Moves
  <2>3. Release(poolKey[r], c, lease[r].reuse, l) /\ answer[r] \in {r, None}
    BY <1>2, <1>6, Values, Zenon DEF FinishBody
  <2> QED BY <1>2, <1>5, <1>6, <2>1, <2>2, <2>3, GiveBackStep, Zenon
<1>7. CASE PullLast(r)
  <2>1. PICK l : l = [link[c] EXCEPT !.wire = Tail(link[c].wire)]
    BY Zenon
  <2>2. /\ link[c].wire # <<>> /\ FinishBody(r, l)
        /\ \/ lease[r].framing = "Fixed" /\ lease[r].left = 1
           \/ lease[r].framing = "Chunked" /\ Head(link[c].wire).part = "end"
    BY <1>2, <1>7, <2>1, Zenon DEF PullLast, Readable, Part
  <2>3. /\ l \in LinkRecords /\ l.asked = link[c].asked
        /\ Len(l.wire) = Len(link[c].wire) - 1 /\ Len(link[c].wire) \in Nat
        /\ Head(link[c].wire) = link[c].wire[1]
    BY <1>3, <2>1, <2>2, ReadOne, Zenon
  <2>4. l.wire \in Seq(Units)
    BY <2>3, Zenon DEF LinkRecords, Wires
  <2>5. Len(link[c].wire) <= 1
    <3>1. CASE lease[r].framing = "Fixed" /\ lease[r].left = 1
      BY <1>4, <3>1, Zenon DEF IsBody
    <3>2. CASE lease[r].framing = "Chunked" /\ Head(link[c].wire).part = "end"
      <4>1. EndLast(link[c].wire)
        BY <1>4, <3>2, Zenon DEF IsBody
      <4> QED BY <2>3, <3>2, <4>1 DEF EndLast
    <3> QED BY <2>2, <3>1, <3>2, Zenon
  <2>6. Len(l.wire) = 0
    <3>1. Len(l.wire) \in Nat
      BY <2>4
    <3>2. \A i, j \in Nat : i = j - 1 /\ j <= 1 => i = 0
      OBVIOUS
    <3> QED BY <2>3, <2>5, <3>1, <3>2, Zenon
  <2>7. AtBoundary(l)
    BY <1>4, <2>3, <2>4, <2>6 DEF AtBoundary
  <2> QED BY <1>6, <2>2, <2>3, <2>7, Zenon
<1>8. CASE PullEof(r)
  <2>1. FinishBody(r, link[c]) /\ lease[r].framing = "CloseDelimited"
    BY <1>2, <1>8, Zenon DEF PullEof
  <2>2. ~lease[r].reuse
    BY <1>4, <2>1, Zenon DEF IsBody
  <2> QED BY <1>3, <1>6, <2>1, <2>2, Zenon
<1> QED BY <1>7, <1>8, Zenon

----------------------------------------------------------------------------
(* The peer.                                                               *)

\* Only what the engine can see of the connection c changes.
LEMMA PeerStep ==
    ASSUME IInv, NEW c \in Conns, link' \in [Conns -> LinkRecords],
           \A d \in Conns \ {c} : link'[d] = link[d],
           AtBoundary(link[c]) => AtBoundary(link'[c]),
           \A r \in Requests : conn[r] = c => Fits(r, stage[r], lease[r], link'[c]),
           UNCHANGED <<pool, stage, poolKey, replays, conn, tries, sent, lease, answer>>
    PROVE  IInv'
<1>1. PoolInv' /\ \A d : InPool(d)' <=> InPool(d)
  BY SamePool, Zenon
<1>2. \A d \in Conns : InPool(d)' => AtBoundary(link'[d])
  BY <1>1, Zenon DEF IInv
<1>3. \A r \in Requests : conn[r] # None => Fits(r, stage[r], lease[r], link'[conn[r]])
  BY Zenon DEF IInv, RequestsInv
<1>4. \A r \in Requests : conn[r] # None => ~InPool(conn[r])'
  <2> SUFFICES ASSUME NEW r \in Requests, conn[r] # None PROVE ~InPool(conn[r])'
    BY Zenon
  <2>1. PICK d \in Conns : d = conn[r] /\ ~InPool(d)
    BY Values, Zenon
  <2>2. conn'[r] = d /\ ~InPool(d)'
    BY <1>1, <2>1, Zenon
  <2> QED BY <2>2, Zenon
<1>5. RequestsInv'
  BY <1>3, <1>4, Zenon DEF IInv, RequestsInv
<1> QED BY <1>1, <1>2, <1>5, Zenon DEF IInv

LEMMA PeerClosesStep == ASSUME Constants, IInv, NEW c \in Conns, PeerCloses(c) PROVE IInv'
<1>1. PICK n \in 0 .. Len(link[c].wire) :
         link' = [link EXCEPT ![c].up = FALSE, ![c].wire = SubSeq(@, 1, n)]
  BY Zenon DEF PeerCloses
<1>2. UNCHANGED <<pool, stage, poolKey, replays, conn, tries, sent, lease, answer>>
  BY Zenon DEF PeerCloses
<1>3. link \in [Conns -> LinkRecords] /\ link[c] \in LinkRecords
  BY Zenon DEF IInv
<1>4. SubSeq(link[c].wire, 1, n) \in Wires
  BY <1>3 DEF LinkRecords, Wires
<1>5. /\ link' \in [Conns -> LinkRecords]
      /\ link'[c].asked = link[c].asked /\ link'[c].wire = SubSeq(link[c].wire, 1, n)
      /\ \A d \in Conns \ {c} : link'[d] = link[d]
  BY <1>1, <1>3, <1>4, Zenon DEF LinkRecords
<1>6. PICK l \in LinkRecords, m \in LinkRecords : l = link[c] /\ m = link'[c]
  BY <1>3, <1>5, Zenon
<1>7. m.asked = l.asked /\ m.wire = SubSeq(l.wire, 1, n) /\ n \in 0 .. Len(l.wire)
  BY <1>1, <1>5, <1>6, Zenon
<1>8. \A r \in Requests : conn[r] = c => Fits(r, stage[r], lease[r], m)
  <2> SUFFICES ASSUME NEW r \in Requests, conn[r] = c PROVE Fits(r, stage[r], lease[r], m)
    BY Zenon
  <2>1. lease[r] \in Leases /\ Fits(r, stage[r], lease[r], l)
    BY <1>6, Values, Zenon DEF Constants
  <2> QED BY <1>7, <2>1, PrefixFits, Zenon
<1>9. AtBoundary(l) => AtBoundary(m)
  <2>1. NoLease \in Leases /\ Fits(None, "done", NoLease, l)
    BY DEF NoLease, Leases, Framings, Constants, Fits
  <2> QED BY <1>7, <2>1, PrefixFits, Zenon
<1> QED BY <1>2, <1>5, <1>6, <1>8, <1>9, PeerStep, Zenon

\* The request a connection was asked waits for its head, and nothing is before
\* the answer.
LEMMA AskedHolder ==
    ASSUME Constants, IInv, NEW c \in Conns, link[c].asked # <<>>, NEW r \in Requests, conn[r] = c
    PROVE  stage[r] = "head" /\ link[c].asked = <<r>> /\ link[c].wire = <<>>
<1>1. conn[r] # None /\ stage[r] \in Holding /\ Fits(r, stage[r], lease[r], link[c])
  BY Values, Zenon DEF Constants
<1> QED BY <1>1, Zenon DEF Fits, AtBoundary, Holding

LEMMA PeerRepliesStep == ASSUME Constants, IInv, NEW c \in Conns, PeerReplies(c) PROVE IInv'
<1> DEFINE q == Head(link[c].asked)
           interims == IF SendsInterim THEN {<<>>, <<Unit(q, "interim")>>} ELSE {<<>>}
<1>1. interims = {<<>>}
  BY Zenon DEF Constants
<1>2. link[c].asked # <<>> /\ UNCHANGED <<pool, stage, poolKey, replays, conn, tries, sent, lease, answer>>
  BY Zenon DEF PeerReplies
<1>3. PICK framing \in PeerFramings, keep \in BOOLEAN, len \in 0 .. MaxUnits, interim \in interims :
         /\ framing = "None" => len = 0
         /\ framing = "Fixed" => len > 0
         /\ \E units \in BodyUnits(q, framing, len) :
               link' = [link EXCEPT
                   ![c].wire = @ \o interim \o <<HeadUnit(q, framing, keep, len)>> \o units,
                   ![c].asked = Tail(@)]
  BY Zenon DEF PeerReplies
<1>4. PICK units \in BodyUnits(q, framing, len) :
         link' = [link EXCEPT
             ![c].wire = @ \o <<>> \o <<HeadUnit(q, framing, keep, len)>> \o units,
             ![c].asked = Tail(@)]
  <2>1. interim = <<>>
    BY <1>1, <1>3, Zenon
  <2> HIDE DEF interims
  <2> QED BY <1>3, <2>1, Zenon
<1> HIDE DEF interims
<1>5. link \in [Conns -> LinkRecords] /\ link[c].asked \in Askeds /\ link[c].wire \in Wires
  BY Zenon DEF IInv, LinkRecords
<1>6. q \in Requests /\ Tail(link[c].asked) \in Askeds
  BY <1>2, <1>5 DEF Askeds
<1>7. PICK h : h = <<HeadUnit(q, framing, keep, len)>>
  BY Zenon
<1>8. h \o units \in Wires /\ units \in Wires /\ IsReply(q, h \o units)
  BY <1>6, <1>7, ReplyFits, Zenon
<1>9. h \in Seq(Units) /\ units \in Seq(Units)
  <2>1. framing \in Framings
    BY Zenon DEF Constants
  <2>2. HeadUnit(q, framing, keep, len) \in Units
    BY <1>6, <2>1, Zenon DEF HeadUnit, Units
  <2> QED BY <1>7, <1>8, <2>2 DEF Wires
<1>10. PICK v \in Wires : v = link[c].wire \o <<>> \o h \o units
  <2>1. <<>> \in Seq(Units) /\ \A a, b \in Seq(Units) : a \o b \in Seq(Units)
    OBVIOUS
  <2> QED BY <1>5, <1>9, <2>1, Zenon DEF Wires
<1>11. link[c].wire = <<>> => v = h \o units
  <2>1. <<>> \o <<>> = <<>> /\ <<>> \o h = h
    BY <1>9
  <2> QED BY <1>10, <2>1, Zenon
<1>12. /\ link' \in [Conns -> LinkRecords]
       /\ link'[c].asked = Tail(link[c].asked) /\ link'[c].wire = v
       /\ \A d \in Conns \ {c} : link'[d] = link[d]
  BY <1>4, <1>5, <1>6, <1>7, <1>10, Zenon DEF LinkRecords
<1>13. ASSUME NEW r \in Requests, conn[r] = c PROVE Fits(r, stage[r], lease[r], link'[c])
  <2>1. stage[r] = "head" /\ link[c].asked = <<r>> /\ link[c].wire = <<>>
    BY <1>2, <1>13, AskedHolder, Zenon
  <2>2. q = r /\ Tail(link[c].asked) = <<>>
    BY <2>1
  <2>3. IsReply(r, link'[c].wire) /\ link'[c].asked = <<>>
    BY <1>8, <1>11, <1>12, <2>1, <2>2, Zenon
  <2>4. <<>> # <<r>>
    BY Zenon
  <2> QED BY <2>1, <2>3, <2>4, Zenon DEF Fits
<1>14. ~AtBoundary(link[c])
  BY <1>2, Zenon DEF AtBoundary
<1> QED BY <1>2, <1>12, <1>13, <1>14, PeerStep, Zenon

----------------------------------------------------------------------------
(* The theorems.                                                           *)

LEMMA NextInv == ASSUME Constants, IInv, [Http1Next]_http1Vars PROVE IInv'
<1>1. CASE UNCHANGED http1Vars
  BY <1>1 DEF http1Vars, IInv, PoolInv, Distinct, InPool, RequestsInv
<1>2. CASE \E r \in Requests : RequestStep(r)
  <2>1. PICK r \in Requests : RequestStep(r)
    BY <1>2, Zenon
  <2>2. CASE TakePooled(r)
    BY <2>2, TakePooledStep, Zenon
  <2>3. CASE TakeMisses(r) \/ ConnectFails(r)
    BY <2>3, NoConnectionStep, Zenon
  <2>4. CASE Connect(r)
    BY <2>4, ConnectStep, Zenon
  <2>5. CASE MakeRequestFails(r) \/ AttemptFails(r) \/ PullFails(r) \/ Cancel(r)
    BY <2>5, FailureStep, Zenon
  <2>6. CASE SendRequest(r)
    BY <2>6, SendStep, Zenon
  <2>7. CASE RetryAttempt(r)
    BY <2>7, RetryStep, Zenon
  <2>8. CASE ReadHeadOnly(r)
    BY <2>8, ReadHeadOnlyStep, Zenon
  <2>9. CASE ReadHead(r)
    BY <2>9, ReadHeadStep, Zenon
  <2>10. CASE PullChunk(r)
    BY <2>10, PullChunkStep, Zenon
  <2>11. CASE PullLast(r) \/ PullEof(r)
    BY <2>11, PullEndStep, Zenon
  <2> QED
    BY <2>1, <2>2, <2>3, <2>4, <2>5, <2>6, <2>7, <2>8, <2>9, <2>10, <2>11, Zenon DEF RequestStep
<1>3. CASE \E c \in Conns : PeerReplies(c) \/ PeerCloses(c)
  BY <1>3, PeerRepliesStep, PeerClosesStep, Zenon
<1> QED BY <1>1, <1>2, <1>3, Zenon DEF Http1Next

LEMMA AlwaysInv == ASSUME Constants PROVE Http1Spec => []IInv
<1>1. Http1Init => IInv
  BY InitInv, Zenon
<1>2. IInv /\ [Http1Next]_http1Vars => IInv'
  BY NextInv, Zenon
<1> QED BY <1>1, <1>2, PTL DEF Http1Spec

\* The pool, the connections, the leases and the counters of every request keep
\* their types: a request is tried and sent at most twice, and the remaining
\* length of a Fixed body is never negative.
THEOREM TypeCorrect == ASSUME Constants PROVE Http1Spec => []Http1TypeOK
<1>1. IInv => Http1TypeOK
  BY Consequences, Zenon
<1> QED BY <1>1, AlwaysInv, PTL

\* A connection that PlainHttp1SenderPool can hand out is at a message boundary
\* and in nobody's hands, and each request is given its own response, for any
\* number of requests, connections and keys, any capacity and any framings and
\* lengths of the responses, wherever peers close and clients go away.
THEOREM PoolIsAtBoundary == ASSUME Constants PROVE Http1Spec => []PooledAtBoundary
<1>1. IInv => PooledAtBoundary
  BY Consequences, Zenon
<1> QED BY <1>1, AlwaysInv, PTL

\* The retry of forward_serialized_via_sender_pool sends a body that is a stream
\* once, and any other at most twice.
THEOREM RetriesAreBounded == ASSUME Constants PROVE Http1Spec => []SentAtMost
<1>1. IInv => SentAtMost
  BY Consequences, Zenon
<1> QED BY <1>1, AlwaysInv, PTL

-----------------------------------------------------------------------------
(* The exchanges and the native forward (Exchange).                        *)

Uses == {"observe", "read", "apply", "native", "graph", "shortcut"}
Vias == {"h1", "h2", "h3", "attached"}
ViaSeqs == Seq(Vias) \ {<<>>}

InboundRecords ==
    [length : Nat, arrives : Nat, buffered : Nat, offset : Nat, eof : BOOLEAN, told : BOOLEAN]
ExchRecords ==
    [target : BOOLEAN, via : ViaSeqs, custom : BOOLEAN, own : BOOLEAN, attached : BOOLEAN,
     response : Nat, read : BOOLEAN]
RequestRecords ==
    [h : ExchangeHandles, via : Vias, own : BOOLEAN, body : Seq(Nat), shared : BOOLEAN,
     upload : {"open", "done", "failed"}]
Bodies == [kind : {"bytes", "stream"}, bytes : Seq(Nat)]
RunningCalls ==
    [pc : {"try", "await"}, h : ExchangeHandles, use : Uses, via : ViaSeqs, body : Bodies,
     beside : BOOLEAN]
EndedCalls == [pc : {"over"}, use : {"error", "graph", "shortcut"}]

ExchangeTypes ==
    /\ inbound \in InboundRecords
    /\ exch \in [ExchangeHandles -> ExchRecords]
    /\ native \in [active : BOOLEAN, stored : Nat]
    /\ call \in {Idle} \cup RunningCalls \cup EndedCalls
    /\ requests \in Seq(RequestRecords) /\ Len(requests) <= MaxRequests
    /\ latest \in Nat /\ reply \in Nat
    /\ source.of \in ExchangeHandles \cup {"none"}

\* Response r answers a request of exchange h, of the requests q.
Of(q, r, h) == r \in DOMAIN q /\ q[r].h = h

Ready == native.stored \notin {NoResponse, Failed}

Running == call.pc \in {"try", "await"}

\* A native response and the default exchange's are told apart by age: a native one
\* that is ready is the latest, and without it the exchange's is.
AnswerInv ==
    /\ \A h \in ExchangeHandles : exch[h].response # NoResponse => Of(requests, exch[h].response, h)
    /\ Ready => Of(requests, native.stored, Default)
    /\ native.stored # NoResponse => native.active
    /\ call.pc # "over" =>
         /\ reply = NoResponse
         /\ Ready => native.stored = latest
         /\ exch[Default].response # NoResponse /\ ~Ready => exch[Default].response = latest
    /\ Running /\ call.h = Default =>
         /\ native.stored = NoResponse
         /\ call.use # "native" => exch[Default].response = NoResponse
    /\ Running /\ call.use = "native" => call.h = Default
    /\ call.pc = "await" => Of(requests, Newest, call.h)
    /\ reply \in DOMAIN requests /\ requests[reply].h = Default
          => reply = latest \/ (call.use = "shortcut" /\ exch[Default].read)

\* The inbound body ends for its readers: all of it arrives, or one was told.
UpTo(n) == [i \in 1 .. n |-> i]
EndKnown(b) == b.arrives = b.length \/ b.told

\* The body a request carries to its end.
Carried(body, own, h, b) ==
    IF own THEN body = OwnBody
    ELSE IF h # Default THEN body = <<>>
    ELSE body = UpTo(b.arrives) /\ EndKnown(b)

InboundOK(b) ==
    /\ b.offset <= b.buffered /\ b.buffered <= b.arrives /\ b.arrives <= b.length
    /\ b.eof => b.buffered = b.arrives /\ EndKnown(b)

\* The inbound body c is b after a step of a reader.
Follows(b, c) == c.length = b.length /\ c.arrives = b.arrives /\ (b.told => c.told)

\* An upload that nobody else read beside has sent what was read of the body.
RequestOK(s, b) ==
    ~s.shared =>
      /\ s.upload = "done" => Carried(s.body, s.own, s.h, b)
      /\ s.upload = "open" => ~s.own /\ s.h = Default /\ s.body = UpTo(b.offset)

\* A request that is about to stream the body finds it unread.
TryOK(c, own, b) ==
    /\ c.body.kind = "bytes" => Carried(c.body.bytes, own, c.h, b)
    /\ c.body.kind = "stream" =>
         c.body.bytes = <<>> /\ c.h = Default /\ ~own /\ (~c.beside => b.offset = 0)

NoUpload(q) == \A k \in DOMAIN q : q[k].upload # "open"

BodyInv ==
    /\ InboundOK(inbound)
    /\ \A k \in DOMAIN requests : RequestOK(requests[k], inbound)
    /\ call.pc = "try" =>
         TryOK(call, exch[call.h].own, inbound) /\ (~call.beside => NoUpload(requests))

ExchangeInv == ExchangeTypes /\ AnswerInv /\ BodyInv

-----------------------------------------------------------------------------
\* The call of a state, by its stage.
LEMMA CallKinds ==
    ASSUME ExchangeTypes
    PROVE  /\ call.pc \in {"idle", "try", "await", "over"}
           /\ call.pc = "idle" => call = Idle
           /\ call.pc = "over" => call \in EndedCalls
           /\ Running => call \in RunningCalls
           /\ Idle.pc = "idle"
  BY DEF ExchangeTypes, RunningCalls, EndedCalls, Idle, Running

LEMMA SentFacts ==
    ASSUME ExchangeTypes
    PROVE  /\ Len(requests) \in Nat /\ DOMAIN requests = 1 .. Len(requests) /\ MaxRequests \in Nat
           /\ \A k \in DOMAIN requests : requests[k] \in RequestRecords /\ k \in Nat /\ k # 0
           /\ Failed \notin DOMAIN requests /\ NoResponse \notin DOMAIN requests /\ Failed \in Nat
  BY ExchangeAssumption DEF ExchangeTypes, Failed, NoResponse

\* Steps that change neither a response nor who waits for one.
LEMMA AnswerQuiet ==
    ASSUME ExchangeTypes, AnswerInv,
           \A g \in ExchangeHandles : /\ exch'[g].response = exch[g].response
                                      /\ exch[g].read => exch'[g].read,
           Len(requests') = Len(requests), DOMAIN requests' = DOMAIN requests,
           \A k \in DOMAIN requests : requests'[k].h = requests[k].h,
           native' = native, latest' = latest, reply' = reply,
           \/ call' = call
           \/ call.pc = "try" /\ call'.pc = "try" /\ call'.h = call.h /\ call'.use = call.use
    PROVE  AnswerInv'
<1>1. \A r, h : Of(requests', r, h) <=> Of(requests, r, h)
  BY Zenon DEF Of
<1>2. Ready' = Ready /\ Newest' = Newest
  BY Zenon DEF Ready, Newest, NoResponse, Failed
<1>3. /\ call'.pc = call.pc
      /\ Running => call'.h = call.h /\ call'.use = call.use
      /\ call.pc = "over" => call'.use = call.use
  BY Zenon DEF Running
<1>4. Running' = Running
  BY <1>3, Zenon DEF Running
<1>5. Default \in ExchangeHandles
  BY Zenon DEF ExchangeHandles
<1>6. call.pc # "over" => reply' \notin DOMAIN requests'
  BY SentFacts, Zenon DEF AnswerInv
<1>7. \A h \in ExchangeHandles : exch'[h].response # NoResponse => Of(requests', exch'[h].response, h)
  BY <1>1 DEF AnswerInv
<1>8. (Ready => Of(requests, native.stored, Default))' /\ (native.stored # NoResponse => native.active)'
  BY <1>1, <1>2, Zenon DEF AnswerInv, NoResponse
<1>9. (call.pc # "over" =>
         /\ reply = NoResponse
         /\ Ready => native.stored = latest
         /\ exch[Default].response # NoResponse /\ ~Ready => exch[Default].response = latest)'
  BY <1>2, <1>3, <1>5, Zenon DEF AnswerInv, NoResponse
<1>10. (Running /\ call.h = Default =>
         /\ native.stored = NoResponse
         /\ call.use # "native" => exch[Default].response = NoResponse)'
  BY <1>3, <1>4, <1>5, Zenon DEF AnswerInv, NoResponse
<1>11. (Running /\ call.use = "native" => call.h = Default)'
  BY <1>3, <1>4, Zenon DEF AnswerInv
<1>12. (call.pc = "await" => Of(requests, Newest, call.h))'
  BY <1>1, <1>2, <1>3, Zenon DEF AnswerInv, Running
<1>13. (reply \in DOMAIN requests /\ requests[reply].h = Default
          => reply = latest \/ (call.use = "shortcut" /\ exch[Default].read))'
  BY <1>3, <1>5, <1>6, Zenon DEF AnswerInv
<1> QED BY <1>7, <1>8, <1>9, <1>10, <1>11, <1>12, <1>13, Zenon DEF AnswerInv, NoResponse

\* A host error ends the program.
LEMMA AnswerError ==
    ASSUME ExchangeTypes, AnswerInv, HostError,
           \A g \in ExchangeHandles : exch'[g].response = exch[g].response,
           DOMAIN requests' = DOMAIN requests,
           \A k \in DOMAIN requests : requests'[k].h = requests[k].h,
           native'.stored \in {native.stored, NoResponse}, native'.active = native.active
    PROVE  AnswerInv'
<1>1. \A r, h : Of(requests', r, h) <=> Of(requests, r, h)
  BY Zenon DEF Of
<1>2. call'.pc = "over" /\ reply' = Failed
  BY Zenon DEF HostError
<1>3. reply' \notin DOMAIN requests'
  BY <1>2, SentFacts, Zenon
<1>4. Ready' => Ready /\ native'.stored = native.stored
  BY Zenon DEF Ready, NoResponse, Failed
<1>5. ~Running'
  BY <1>2, Zenon DEF Running
<1>6. \A h \in ExchangeHandles : exch'[h].response # NoResponse => Of(requests', exch'[h].response, h)
  BY <1>1, Zenon DEF AnswerInv
<1>7. (Ready => Of(requests, native.stored, Default))' /\ (native.stored # NoResponse => native.active)'
  BY <1>1, <1>4, Zenon DEF AnswerInv, NoResponse
<1> QED BY <1>2, <1>3, <1>5, <1>6, <1>7, Zenon DEF AnswerInv, NoResponse

-----------------------------------------------------------------------------
LEMMA ExchUpdate ==
    ASSUME ExchangeTypes, NEW h \in ExchangeHandles, NEW e \in ExchRecords,
           exch' = [exch EXCEPT ![h] = e]
    PROVE  /\ exch' \in [ExchangeHandles -> ExchRecords] /\ exch'[h] = e
           /\ \A g \in ExchangeHandles : g # h => exch'[g] = exch[g]
  BY Zenon DEF ExchangeTypes

LEMMA BodyStill ==
    ASSUME BodyInv, inbound' = inbound, requests' = requests, call'.pc # "try"
    PROVE  BodyInv'
  BY Zenon DEF BodyInv

\* The program's configuration of an exchange.
LEMMA SettingKeeps ==
    ASSUME ExchangeInv, NEW h \in ExchangeHandles,
           SetTarget(h) \/ SetVersion(h) \/ SetBody(h) \/ Attach(h)
    PROVE  ExchangeInv'
<1>0. ExchangeTypes /\ AnswerInv /\ BodyInv
  BY Zenon DEF ExchangeInv
<1>1. /\ call.pc = "idle" /\ UNCHANGED <<inbound, native, requests, latest, source>>
  BY Zenon DEF SetTarget, SetVersion, SetBody, Attach, Call, CanCall
<1>2. exch[h] \in ExchRecords
  BY <1>0, Zenon DEF ExchangeTypes
<1>3. \/ HostError /\ UNCHANGED exch
      \/ /\ UNCHANGED <<call, reply>>
         /\ \E e \in ExchRecords : /\ exch' = [exch EXCEPT ![h] = e]
                                   /\ e.response = exch[h].response /\ e.read = exch[h].read
  <2>1. CASE SetTarget(h)
    <3> DEFINE e == [exch[h] EXCEPT !.target = TRUE]
    <3>1. e \in ExchRecords /\ e.response = exch[h].response /\ e.read = exch[h].read
      BY <1>2, Zenon DEF ExchRecords
    <3> QED BY <2>1, <3>1, Zenon DEF SetTarget
  <2>2. CASE SetVersion(h)
    <3>1. PICK via \in Transports, custom \in BOOLEAN :
            exch' = [exch EXCEPT ![h].via = via, ![h].custom = custom]
      BY <2>2, Zenon DEF SetVersion
    <3> DEFINE e == [exch[h] EXCEPT !.via = via, !.custom = custom]
    <3>2. via \in ViaSeqs
      BY ExchangeAssumption DEF ViaSeqs, Vias
    <3>3. e \in ExchRecords /\ e.response = exch[h].response /\ e.read = exch[h].read
      BY <1>2, <3>2, Zenon DEF ExchRecords
    <3>4. exch' = [exch EXCEPT ![h] = e]
      BY <1>0, <3>1, Zenon DEF ExchangeTypes
    <3> QED BY <2>2, <3>3, <3>4, Zenon DEF SetVersion
  <2>3. CASE SetBody(h)
    <3> DEFINE e == [exch[h] EXCEPT !.own = TRUE]
    <3>1. e \in ExchRecords /\ e.response = exch[h].response /\ e.read = exch[h].read
      BY <1>2, Zenon DEF ExchRecords
    <3> QED BY <2>3, <3>1, Zenon DEF SetBody
  <2>4. CASE Attach(h)
    <3> DEFINE e == [exch[h] EXCEPT !.attached = TRUE]
    <3>1. e \in ExchRecords /\ e.response = exch[h].response /\ e.read = exch[h].read
      BY <1>2, Zenon DEF ExchRecords
    <3> QED BY <2>4, <3>1, Zenon DEF Attach
  <2> QED BY <2>1, <2>2, <2>3, <2>4, Zenon
<1>4. CASE HostError /\ UNCHANGED exch
  <2>1. AnswerInv'
    BY <1>0, <1>1, <1>4, AnswerError, Zenon
  <2>2. call' \in EndedCalls /\ call'.pc = "over" /\ reply' \in Nat
    BY <1>0, <1>4, SentFacts, Zenon DEF HostError, EndedCalls
  <2>3. BodyInv'
    BY <1>0, <1>1, <2>2, BodyStill, Zenon
  <2> QED BY <1>0, <1>1, <1>4, <2>1, <2>2, <2>3, Zenon DEF ExchangeInv, ExchangeTypes
<1>5. CASE /\ UNCHANGED <<call, reply>>
           /\ \E e \in ExchRecords : /\ exch' = [exch EXCEPT ![h] = e]
                                     /\ e.response = exch[h].response /\ e.read = exch[h].read
  <2>1. PICK e \in ExchRecords : /\ exch' = [exch EXCEPT ![h] = e]
                                 /\ e.response = exch[h].response /\ e.read = exch[h].read
    BY <1>5, Zenon
  <2>2. /\ exch' \in [ExchangeHandles -> ExchRecords]
        /\ \A g \in ExchangeHandles : exch'[g].response = exch[g].response
                                      /\ exch'[g].read = exch[g].read
    BY <1>0, <2>1, ExchUpdate, Zenon
  <2>3. AnswerInv'
    BY <1>0, <1>1, <1>5, <2>2, AnswerQuiet, Zenon
  <2>4. BodyInv'
    BY <1>0, <1>1, <1>5, BodyStill, Zenon
  <2> QED BY <1>0, <1>1, <1>5, <2>2, <2>3, <2>4, Zenon DEF ExchangeInv, ExchangeTypes
<1> QED BY <1>3, <1>4, <1>5, Zenon

-----------------------------------------------------------------------------
(* The inbound body.                                                       *)

\* What one chunk of the body is.
LEMMA ChunkFacts ==
    ASSUME inbound \in InboundRecords, InboundOK(inbound), AtBreak => inbound.told
    PROVE  /\ AfterChunk \in InboundRecords /\ InboundOK(AfterChunk)
           /\ Follows(inbound, AfterChunk)
           /\ NextChunk \in Seq(Nat)
           /\ UpTo(inbound.offset) \o NextChunk = UpTo(AfterChunk.offset)
           /\ NextChunk = <<>> =>
                /\ AfterChunk.offset = inbound.offset /\ inbound.offset = inbound.arrives
                /\ EndKnown(inbound)
<1> DEFINE r == Available
           n == r.buffered
<1>0. /\ inbound.length \in Nat /\ inbound.buffered \in Nat /\ inbound.offset \in Nat
      /\ inbound.arrives \in Nat /\ inbound.arrives <= inbound.length
      /\ inbound.offset <= inbound.buffered /\ inbound.buffered <= inbound.arrives
      /\ inbound.eof => inbound.buffered = inbound.arrives /\ EndKnown(inbound)
  BY Zenon DEF InboundRecords, InboundOK
<1>1. /\ r \in InboundRecords /\ r.offset = inbound.offset
      /\ Follows(inbound, r) /\ InboundOK(r)
      /\ r.buffered = inbound.offset => inbound.offset = inbound.arrives /\ EndKnown(inbound)
  <2>1. CASE inbound.offset < inbound.buffered \/ inbound.eof
    <3>1. r = inbound
      BY <2>1, Zenon DEF Available
    <3>2. Follows(inbound, inbound)
      BY Zenon DEF Follows
    <3>3. inbound.buffered = inbound.offset => inbound.eof
      BY <1>0, <2>1
    <3> QED BY <1>0, <3>1, <3>2, <3>3, Zenon
  <2>2. CASE ~(inbound.offset < inbound.buffered \/ inbound.eof)
             /\ inbound.buffered < inbound.arrives
    <3> DEFINE m == inbound.buffered + 1
    <3>1. r = [inbound EXCEPT !.buffered = m]
      BY <2>2, Zenon DEF Available
    <3>2. m \in Nat /\ m <= inbound.arrives /\ inbound.offset < m /\ inbound.offset <= m
          /\ m # inbound.offset
      BY <1>0, <2>2
    <3> HIDE DEF m, r
    <3>3. /\ r \in InboundRecords /\ r.length = inbound.length /\ r.offset = inbound.offset
          /\ r.buffered = m /\ r.eof = inbound.eof /\ r.arrives = inbound.arrives
          /\ r.told = inbound.told
      BY <3>1, <3>2, Zenon DEF InboundRecords
    <3> QED BY <1>0, <2>2, <3>2, <3>3, Zenon DEF InboundOK, Follows
  <2>3. CASE ~(inbound.offset < inbound.buffered \/ inbound.eof)
             /\ ~(inbound.buffered < inbound.arrives)
    <3>1. r = [inbound EXCEPT !.eof = TRUE]
      BY <2>3, Zenon DEF Available
    <3> HIDE DEF r
    <3>2. /\ r \in InboundRecords /\ r.length = inbound.length /\ r.offset = inbound.offset
          /\ r.buffered = inbound.buffered /\ r.arrives = inbound.arrives
          /\ r.told = inbound.told
      BY <3>1, Zenon DEF InboundRecords
    <3>3. inbound.offset = inbound.buffered /\ inbound.buffered = inbound.arrives
      BY <1>0, <2>3
    <3>4. inbound.arrives < inbound.length \/ inbound.arrives = inbound.length
      BY <1>0
    <3>5. EndKnown(inbound)
      BY <2>3, <3>3, <3>4, Zenon DEF AtBreak, Short, EndKnown
    <3> QED BY <1>0, <3>2, <3>3, <3>5, Zenon DEF InboundOK, Follows, EndKnown
  <2> QED BY <2>1, <2>2, <2>3, Zenon
<1>2. AfterChunk = [r EXCEPT !.offset = n]
  BY Zenon DEF AfterChunk
<1>3. NextChunk = [i \in 1 .. n - inbound.offset |-> inbound.offset + i]
  BY Zenon DEF NextChunk
<1>4. n \in Nat /\ inbound.offset <= n
  BY <1>1, Zenon DEF InboundRecords, InboundOK
<1> HIDE DEF r
<1>5. /\ AfterChunk \in InboundRecords /\ AfterChunk.length = r.length
      /\ AfterChunk.arrives = r.arrives /\ AfterChunk.told = r.told
      /\ AfterChunk.offset = n /\ AfterChunk.buffered = n /\ AfterChunk.eof = r.eof
  BY <1>1, <1>2, <1>4, Zenon DEF InboundRecords
<1>6. InboundOK(AfterChunk)
  <2>1. n <= n
    BY <1>4
  <2> QED BY <1>1, <1>5, <2>1, Zenon DEF InboundOK, EndKnown
<1> HIDE DEF n
<1> DEFINE m == inbound.offset
<1>7. m \in Nat /\ m <= n /\ n \in Nat
  BY <1>0, <1>4, Zenon
<1> HIDE DEF m
<1> DEFINE c == [i \in 1 .. n - m |-> m + i]
<1>8. n - m \in Nat /\ \A i \in 1 .. n - m : m + i \in Nat
  BY <1>7
<1>9. c \in Seq(Nat) /\ Len(c) = n - m /\ \A i \in 1 .. n - m : c[i] = m + i
  BY <1>8
<1>10. UpTo(m) \in Seq(Nat) /\ Len(UpTo(m)) = m /\ \A i \in 1 .. m : UpTo(m)[i] = i
  BY <1>7 DEF UpTo
<1>11. UpTo(n) \in Seq(Nat) /\ Len(UpTo(n)) = n /\ \A i \in 1 .. n : UpTo(n)[i] = i
  BY <1>7 DEF UpTo
<1> HIDE DEF c
<1>12. UpTo(m) \o c = UpTo(n)
  <2> DEFINE u == UpTo(m)
             v == UpTo(n)
  <2>1. u \in Seq(Nat) /\ v \in Seq(Nat)
    BY <1>10, <1>11, Zenon
  <2> HIDE DEF u, v
  <2>2. u \o c \in Seq(Nat) /\ Len(u \o c) = Len(u) + Len(c)
        /\ \A i \in 1 .. Len(u) + Len(c) :
             (u \o c)[i] = IF i <= Len(u) THEN u[i] ELSE c[i - Len(u)]
    <3>1. \A x, y \in Seq(Nat) :
            x \o y \in Seq(Nat) /\ Len(x \o y) = Len(x) + Len(y)
            /\ \A i \in 1 .. Len(x) + Len(y) :
                 (x \o y)[i] = IF i <= Len(x) THEN x[i] ELSE y[i - Len(x)]
      OBVIOUS
    <3> QED BY <1>9, <2>1, <3>1, Zenon
  <2>3. Len(u \o c) = Len(v)
    BY <1>7, <1>9, <1>10, <1>11, <2>2 DEF u, v
  <2>4. ASSUME NEW i \in 1 .. n PROVE (u \o c)[i] = v[i]
    <3>1. v[i] = i
      BY <1>11, Zenon DEF v
    <3>2. Len(u) = m /\ Len(c) = n - m /\ i \in 1 .. Len(u) + Len(c)
      BY <1>7, <1>9, <1>10 DEF u
    <3>3. CASE i <= m
      <4>1. i \in 1 .. m
        BY <1>7, <3>3
      <4>2. u[i] = i
        BY <1>10, <4>1, Zenon DEF u
      <4> QED BY <2>2, <3>1, <3>2, <3>3, <4>2, Zenon
    <3>4. CASE ~(i <= m)
      <4>1. i - m \in 1 .. n - m /\ m + (i - m) = i
        BY <1>7, <3>4
      <4>2. c[i - m] = i
        BY <1>9, <4>1, Zenon
      <4> QED BY <2>2, <3>1, <3>2, <3>4, <4>2, Zenon
    <3> QED BY <3>3, <3>4, Zenon
  <2>5. Len(v) = n
    BY <1>11, Zenon DEF v
  <2>6. \A x, y \in Seq(Nat) : Len(x) = Len(y) /\ (\A i \in 1 .. Len(y) : x[i] = y[i]) => x = y
    BY SMTT(30)
  <2>7. \A i \in 1 .. Len(v) : (u \o c)[i] = v[i]
    BY <2>4, <2>5, Zenon
  <2>8. u \o c = v
    BY <2>1, <2>2, <2>3, <2>6, <2>7, Zenon
  <2> QED BY <2>8, Zenon DEF u, v
<1>13. NextChunk = c
  BY <1>3, Zenon DEF c, m
<1>14. c = <<>> => n = m
  BY <1>7, <1>9
<1>15. Follows(inbound, r) /\ (n = m => m = inbound.arrives /\ EndKnown(inbound))
  BY <1>1, Zenon DEF n, m
<1>16. Follows(inbound, AfterChunk) /\ AfterChunk.offset = n
  BY <1>5, <1>15, Zenon DEF Follows
<1>17. NextChunk \in Seq(Nat) /\ UpTo(m) \o NextChunk = UpTo(AfterChunk.offset)
  BY <1>9, <1>12, <1>13, <1>16, Zenon
<1>18. NextChunk = <<>> => AfterChunk.offset = m /\ m = inbound.arrives /\ EndKnown(inbound)
  BY <1>13, <1>14, <1>15, <1>16, Zenon
<1> QED BY <1>5, <1>6, <1>16, <1>17, <1>18, Zenon DEF m

\* The whole body is read, or a reader is told that the client failed.
LEMMA AllFacts ==
    ASSUME inbound \in InboundRecords, InboundOK(inbound)
    PROVE  /\ ReadAll = UpTo(inbound.arrives) /\ ReadAll \in Seq(Nat)
           /\ (Short => inbound.told) =>
                /\ AfterAll \in InboundRecords /\ InboundOK(AfterAll)
                /\ Follows(inbound, AfterAll) /\ AfterAll.offset = inbound.offset
                /\ EndKnown(inbound)
           /\ \A b \in {AfterError, AfterAllError} :
                /\ b \in InboundRecords /\ InboundOK(b)
                /\ Follows(inbound, b) /\ b.offset = inbound.offset
<1>0. /\ inbound.length \in Nat /\ inbound.buffered \in Nat /\ inbound.offset \in Nat
      /\ inbound.arrives \in Nat /\ inbound.arrives <= inbound.length
      /\ inbound.offset <= inbound.buffered /\ inbound.buffered <= inbound.arrives
      /\ inbound.eof => inbound.buffered = inbound.arrives /\ EndKnown(inbound)
  BY Zenon DEF InboundRecords, InboundOK
<1>1. inbound.offset <= inbound.arrives /\ inbound.arrives <= inbound.arrives
      /\ (inbound.arrives < inbound.length \/ inbound.arrives = inbound.length)
  BY <1>0
<1>2. (Short => inbound.told) => EndKnown(inbound)
  BY <1>0, <1>1, Zenon DEF Short, EndKnown
<1>3. /\ AfterAll \in InboundRecords
      /\ AfterAll.length = inbound.length /\ AfterAll.offset = inbound.offset
      /\ AfterAll.buffered = inbound.arrives /\ AfterAll.arrives = inbound.arrives
      /\ AfterAll.told = inbound.told
  BY <1>0, Zenon DEF AfterAll, InboundRecords
<1>4. EndKnown(inbound) => InboundOK(AfterAll)
  BY <1>0, <1>1, <1>3, Zenon DEF InboundOK, EndKnown
<1>5. /\ AfterError \in InboundRecords
      /\ AfterError.length = inbound.length /\ AfterError.offset = inbound.offset
      /\ AfterError.buffered = inbound.buffered /\ AfterError.arrives = inbound.arrives
      /\ AfterError.told /\ AfterError.eof = inbound.eof
  BY <1>0, Zenon DEF AfterError, InboundRecords
<1>6. InboundOK(AfterError)
  BY <1>0, <1>5, Zenon DEF InboundOK, EndKnown
<1>7. AfterAllError = [AfterError EXCEPT !.buffered = inbound.arrives]
  BY Zenon DEF AfterAllError
<1>8. /\ AfterAllError \in InboundRecords
      /\ AfterAllError.length = inbound.length /\ AfterAllError.offset = inbound.offset
      /\ AfterAllError.buffered = inbound.arrives /\ AfterAllError.arrives = inbound.arrives
      /\ AfterAllError.told
  BY <1>0, <1>5, <1>7, Zenon DEF InboundRecords
<1>9. InboundOK(AfterAllError)
  BY <1>0, <1>1, <1>8, Zenon DEF InboundOK, EndKnown
<1>10. ReadAll = UpTo(inbound.arrives)
  BY Zenon DEF ReadAll, Arrived, UpTo
<1>11. ReadAll \in Seq(Nat)
  <2> DEFINE n == inbound.arrives
  <2>1. n \in Nat /\ \A i \in 1 .. n : i \in Nat
    BY <1>0
  <2> HIDE DEF n
  <2>2. [i \in 1 .. n |-> i] \in Seq(Nat)
    BY <2>1
  <2> QED BY <2>2, Zenon DEF n, ReadAll, Arrived
<1>12. Follows(inbound, AfterAll) /\ Follows(inbound, AfterError) /\ Follows(inbound, AfterAllError)
  BY <1>3, <1>5, <1>8, Zenon DEF Follows
<1> QED BY <1>2, <1>3, <1>4, <1>5, <1>6, <1>8, <1>9, <1>10, <1>11, <1>12, Zenon

\* What was carried stays so, and what reads ahead of the cursor disturbs no upload.
LEMMA FollowsKeeps ==
    ASSUME NEW b, NEW c, Follows(b, c)
    PROVE  /\ \A body, own, h : Carried(body, own, h, b) => Carried(body, own, h, c)
           /\ c.offset = b.offset =>
                /\ \A s : RequestOK(s, b) => RequestOK(s, c)
                /\ \A d, own : TryOK(d, own, b) => TryOK(d, own, c)
<1>1. \A body, own, h : Carried(body, own, h, b) => Carried(body, own, h, c)
  BY Zenon DEF Follows, Carried, EndKnown
<1> QED BY <1>1, Zenon DEF RequestOK, TryOK

\* A sequence with its elements replaced.
LEMMA Replaced ==
    ASSUME NEW q \in Seq(RequestRecords), NEW p,
           p = [k \in DOMAIN q |-> p[k]], \A k \in DOMAIN q : p[k] \in RequestRecords
    PROVE  p \in Seq(RequestRecords) /\ Len(p) = Len(q) /\ DOMAIN p = DOMAIN q
<1>1. DOMAIN q = 1 .. Len(q) /\ Len(q) \in Nat
  OBVIOUS
<1>2. p \in [1 .. Len(q) -> RequestRecords]
  BY <1>1, Zenon
<1> QED BY <1>1, <1>2

\* Requests that are not touched keep what the cursor's readers leave them.
LEMMA MissedFacts ==
    ASSUME ExchangeTypes, BodyInv, NEW k \in DOMAIN requests, AtBreak => inbound.told
    PROVE  /\ Missed(k) \in RequestRecords /\ Missed(k).h = requests[k].h
           /\ Missed(k).upload = requests[k].upload
           /\ RequestOK(Missed(k), AfterChunk)
<1> DEFINE s == requests[k]
           t == Missed(k)
           x == s.shared \/ (Uploading(k) /\ NextChunk # <<>>)
<1>0. inbound \in InboundRecords /\ InboundOK(inbound) /\ RequestOK(s, inbound)
      /\ s \in RequestRecords
  BY SentFacts, Zenon DEF ExchangeTypes, BodyInv
<1>1. /\ Follows(inbound, AfterChunk)
      /\ NextChunk = <<>> => AfterChunk.offset = inbound.offset
  BY <1>0, ChunkFacts, Zenon
<1>2. x \in BOOLEAN /\ t = [s EXCEPT !.shared = x]
  BY <1>0, Zenon DEF Missed, RequestRecords, Uploading
<1>3. (x <=> (s.shared \/ (s.upload = "open" /\ NextChunk # <<>>)))
  BY Zenon DEF Uploading
<1> HIDE DEF x, t, s
<1>4. /\ t \in RequestRecords /\ t.h = s.h /\ t.upload = s.upload /\ t.own = s.own
      /\ t.body = s.body /\ t.shared = x
  BY <1>0, <1>2, Zenon DEF RequestRecords
<1>5. RequestOK(t, AfterChunk)
  BY <1>0, <1>1, <1>3, <1>4, FollowsKeeps, Zenon DEF RequestOK
<1> QED BY <1>4, <1>5, Zenon DEF s, t

\* A host error that leaves the requests alone.
LEMMA ErrorKeeps ==
    ASSUME ExchangeInv, HostError, UNCHANGED <<exch, requests, latest, source>>,
           inbound' \in InboundRecords, InboundOK(inbound'), Follows(inbound, inbound'),
           inbound'.offset = inbound.offset,
           native' \in [active : BOOLEAN, stored : Nat],
           native'.stored \in {native.stored, NoResponse}, native'.active = native.active
    PROVE  ExchangeInv'
<1>0. ExchangeTypes /\ AnswerInv /\ BodyInv
  BY Zenon DEF ExchangeInv
<1>1. call' \in EndedCalls /\ call'.pc = "over" /\ reply' \in Nat
  BY <1>0, SentFacts, Zenon DEF HostError, EndedCalls
<1>2. AnswerInv'
  BY <1>0, AnswerError, Zenon
<1>3. \A k \in DOMAIN requests : RequestOK(requests[k], inbound')
  BY <1>0, FollowsKeeps, Zenon DEF BodyInv
<1>4. BodyInv'
  BY <1>1, <1>3, Zenon DEF BodyInv
<1> QED BY <1>0, <1>1, <1>2, <1>4, Zenon DEF ExchangeInv, ExchangeTypes

\* The program reads the inbound body, or fails to.
LEMMA ReadingKeeps ==
    ASSUME ExchangeInv, ReadChunk \/ ReadBody \/ ReadFails
    PROVE  ExchangeInv'
<1>0. ExchangeTypes /\ AnswerInv /\ BodyInv /\ inbound \in InboundRecords
      /\ InboundOK(inbound)
  BY Zenon DEF ExchangeInv, ExchangeTypes, BodyInv
<1>1. CASE ReadChunk
  <2>1. /\ call.pc = "idle" /\ inbound' = AfterChunk
        /\ requests' = [k \in DOMAIN requests |-> Missed(k)] /\ (AtBreak => inbound.told)
        /\ UNCHANGED <<exch, native, call, latest, source, reply>>
    BY <1>1, Zenon DEF ReadChunk, Call, CanCall
  <2>2. AfterChunk \in InboundRecords /\ InboundOK(AfterChunk)
    BY <1>0, <2>1, ChunkFacts, Zenon
  <2>3. \A k \in DOMAIN requests : /\ requests'[k] \in RequestRecords /\ requests'[k].h = requests[k].h
                               /\ RequestOK(requests'[k], AfterChunk)
    BY <1>0, <2>1, MissedFacts, Zenon
  <2>4. requests' \in Seq(RequestRecords) /\ Len(requests') = Len(requests) /\ DOMAIN requests' = DOMAIN requests
    BY <1>0, <2>1, <2>3, Replaced, Zenon DEF ExchangeTypes
  <2>5. AnswerInv'
    BY <1>0, <2>1, <2>3, <2>4, AnswerQuiet, Zenon
  <2>6. BodyInv'
    BY <2>1, <2>2, <2>3, <2>4, Zenon DEF BodyInv
  <2> QED BY <1>0, <2>1, <2>2, <2>4, <2>5, <2>6, Zenon DEF ExchangeInv, ExchangeTypes
<1>2. CASE ReadBody
  <2>1. /\ call.pc = "idle" /\ inbound' = AfterAll /\ (Short => inbound.told)
        /\ UNCHANGED <<exch, native, call, requests, latest, source, reply>>
    BY <1>2, Zenon DEF ReadBody, Call, CanCall
  <2>2. AfterAll \in InboundRecords /\ InboundOK(AfterAll)
        /\ Follows(inbound, AfterAll) /\ AfterAll.offset = inbound.offset
    BY <1>0, <2>1, AllFacts, Zenon
  <2>3. AnswerInv'
    BY <1>0, <2>1, AnswerQuiet, Zenon
  <2>4. \A k \in DOMAIN requests : RequestOK(requests[k], AfterAll)
    BY <1>0, <2>2, FollowsKeeps, Zenon DEF BodyInv
  <2>5. BodyInv'
    BY <2>1, <2>2, <2>4, Zenon DEF BodyInv
  <2> QED BY <1>0, <2>1, <2>2, <2>3, <2>5, Zenon DEF ExchangeInv, ExchangeTypes
<1>3. CASE ReadFails
  <2>1. /\ inbound' \in {AfterError, AfterAllError} /\ HostError
        /\ UNCHANGED <<exch, native, requests, latest, source>>
    BY <1>3, Zenon DEF ReadFails
  <2>2. /\ inbound' \in InboundRecords /\ InboundOK(inbound')
        /\ Follows(inbound, inbound') /\ inbound'.offset = inbound.offset
    BY <1>0, <2>1, AllFacts, Zenon
  <2> QED BY <1>0, <2>1, <2>2, ErrorKeeps, Zenon DEF ExchangeTypes
<1> QED BY <1>1, <1>2, <1>3, Zenon

\* An upload of the requests q has failed in p.
UploadEnds(q, p) ==
    /\ p \in Seq(RequestRecords) /\ Len(p) = Len(q) /\ DOMAIN p = DOMAIN q
    /\ \A j \in DOMAIN q : p[j].h = q[j].h
    /\ \A j \in DOMAIN q, b \in InboundRecords : RequestOK(q[j], b) => RequestOK(p[j], b)
    /\ NoUpload(q) => NoUpload(p)

LEMMA EndedUpload ==
    ASSUME ExchangeTypes, NEW k \in DOMAIN requests, requests' = [requests EXCEPT ![k].upload = "failed"]
    PROVE  UploadEnds(requests, requests')
<1> DEFINE s == requests[k]
           t == [s EXCEPT !.upload = "failed"]
<1>1. s \in RequestRecords
  BY SentFacts, Zenon
<1>2. requests' = [j \in DOMAIN requests |-> IF j = k THEN t ELSE requests[j]]
  BY Zenon DEF ExchangeTypes
<1> HIDE DEF s
<1>3. t \in RequestRecords /\ t.h = s.h /\ t.upload = "failed"
  BY <1>1, Zenon DEF RequestRecords
<1> HIDE DEF t
<1>4. \A b \in InboundRecords : RequestOK(t, b)
  BY <1>3, Zenon DEF RequestOK
<1>5. ASSUME NEW j \in DOMAIN requests
      PROVE  /\ requests'[j] \in RequestRecords /\ requests'[j].h = requests[j].h
             /\ \A b \in InboundRecords : RequestOK(requests[j], b) => RequestOK(requests'[j], b)
             /\ requests[j].upload # "open" => requests'[j].upload # "open"
  <2>1. CASE j = k
    BY <1>2, <1>3, <1>4, <2>1, Zenon DEF s
  <2>2. CASE j # k
    <3>1. requests'[j] = requests[j]
      BY <1>2, <2>2, Zenon
    <3> QED BY <3>1, SentFacts, Zenon
  <2> QED BY <2>1, <2>2, Zenon
<1>6. requests' \in Seq(RequestRecords) /\ Len(requests') = Len(requests) /\ DOMAIN requests' = DOMAIN requests
  <2>1. requests' = [j \in DOMAIN requests |-> requests'[j]]
    BY <1>2, Zenon
  <2>2. requests \in Seq(RequestRecords) /\ \A j \in DOMAIN requests : requests'[j] \in RequestRecords
    BY <1>5, Zenon DEF ExchangeTypes
  <2>3. PICK p : p = requests'
    BY Zenon
  <2>4. p = [j \in DOMAIN requests |-> p[j]] /\ \A j \in DOMAIN requests : p[j] \in RequestRecords
    BY <2>1, <2>2, <2>3, Zenon
  <2>5. p \in Seq(RequestRecords) /\ Len(p) = Len(requests) /\ DOMAIN p = DOMAIN requests
    BY <2>2, <2>4, Replaced, Zenon
  <2> QED BY <2>3, <2>5, Zenon
<1>7. NoUpload(requests) => NoUpload(requests')
  BY <1>5, <1>6, Zenon DEF NoUpload
<1> QED BY <1>5, <1>6, <1>7, Zenon DEF UploadEnds

\* The uploads that run.
LEMMA UploadingKeeps ==
    ASSUME ExchangeInv, UploadChunk \/ UploadBreaks \/ UploadFails
    PROVE  ExchangeInv'
<1>0. ExchangeTypes /\ AnswerInv /\ BodyInv /\ inbound \in InboundRecords
      /\ InboundOK(inbound)
  BY Zenon DEF ExchangeInv, ExchangeTypes, BodyInv
<1>1. CASE UploadChunk
  <2>1. PICK k \in DOMAIN requests :
          /\ requests[k].upload = "open" /\ inbound' = AfterChunk /\ (AtBreak => inbound.told)
          /\ requests' = [j \in DOMAIN requests |->
                       IF j # k THEN Missed(j)
                       ELSE [requests[k] EXCEPT
                                !.body = @ \o NextChunk,
                                !.upload = IF NextChunk = <<>> THEN "done" ELSE "open"]]
          /\ UNCHANGED <<exch, native, call, latest, source, reply>>
    BY <1>1, Zenon DEF UploadChunk, Uploading
  <2>2. /\ AfterChunk \in InboundRecords /\ InboundOK(AfterChunk)
        /\ Follows(inbound, AfterChunk)
        /\ NextChunk \in Seq(Nat)
        /\ UpTo(inbound.offset) \o NextChunk = UpTo(AfterChunk.offset)
        /\ NextChunk = <<>> =>
             /\ AfterChunk.offset = inbound.offset /\ inbound.offset = inbound.arrives
             /\ EndKnown(inbound)
    BY <1>0, <2>1, ChunkFacts, Zenon
  <2> DEFINE s == requests[k]
             b == s.body \o NextChunk
             u == IF NextChunk = <<>> THEN "done" ELSE "open"
             t == [s EXCEPT !.body = b, !.upload = u]
  <2>3. s \in RequestRecords /\ RequestOK(s, inbound) /\ s.upload = "open"
    BY <1>0, <2>1, SentFacts, Zenon DEF BodyInv
  <2>4. b \in Seq(Nat) /\ u \in {"done", "open"}
    BY <2>2, <2>3 DEF RequestRecords
  <2>5. requests'[k] = t
    BY <2>1, Zenon
  <2>6. ~s.shared => s.body = UpTo(inbound.offset) /\ ~s.own /\ s.h = Default
    BY <2>3, Zenon DEF RequestOK
  <2>7. ~s.shared => b = UpTo(AfterChunk.offset)
    BY <2>2, <2>6, Zenon
  <2>8. u = "done" => AfterChunk.offset = AfterChunk.arrives /\ EndKnown(AfterChunk)
    BY <2>2, Zenon DEF Follows, EndKnown
  <2> HIDE DEF s, b, u
  <2>9. t \in RequestRecords /\ t.h = s.h /\ t.own = s.own /\ t.shared = s.shared
        /\ t.body = b /\ t.upload = u
    BY <2>3, <2>4, Zenon DEF RequestRecords
  <2> HIDE DEF t
  <2>10. RequestOK(t, AfterChunk)
    BY <2>6, <2>7, <2>8, <2>9, Zenon DEF RequestOK, Carried
  <2>11. \A j \in DOMAIN requests : /\ requests'[j] \in RequestRecords /\ requests'[j].h = requests[j].h
                                /\ RequestOK(requests'[j], AfterChunk)
    <3> SUFFICES ASSUME NEW j \in DOMAIN requests
                 PROVE  /\ requests'[j] \in RequestRecords /\ requests'[j].h = requests[j].h
                        /\ RequestOK(requests'[j], AfterChunk)
      BY Zenon
    <3>1. CASE j = k
      BY <2>5, <2>9, <2>10, <3>1, Zenon DEF s
    <3>2. CASE j # k
      <4>1. requests'[j] = Missed(j)
        BY <2>1, <3>2, Zenon
      <4> QED BY <1>0, <2>1, <4>1, MissedFacts, Zenon
    <3> QED BY <3>1, <3>2, Zenon
  <2>12. requests' \in Seq(RequestRecords) /\ Len(requests') = Len(requests) /\ DOMAIN requests' = DOMAIN requests
    <3>1. requests' = [j \in DOMAIN requests |-> requests'[j]]
      BY <2>1, Zenon
    <3> QED BY <1>0, <2>11, <3>1, Replaced, Zenon DEF ExchangeTypes
  <2>13. AnswerInv'
    BY <1>0, <2>1, <2>11, <2>12, AnswerQuiet, Zenon
  <2>14. ~NoUpload(requests)
    BY <2>1, Zenon DEF NoUpload
  <2>15. call.pc = "try" => call.beside /\ TryOK(call, exch[call.h].own, AfterChunk)
    <3>1. \A body, own, h : Carried(body, own, h, inbound) => Carried(body, own, h, AfterChunk)
      BY <2>2, FollowsKeeps, Zenon
    <3>2. call.pc = "try" => call.beside /\ TryOK(call, exch[call.h].own, inbound)
      BY <1>0, <2>14, Zenon DEF BodyInv
    <3> QED BY <3>1, <3>2, Zenon DEF TryOK
  <2>16. BodyInv'
    BY <2>1, <2>2, <2>11, <2>12, <2>15, Zenon DEF BodyInv
  <2> QED BY <1>0, <2>1, <2>2, <2>12, <2>13, <2>16, Zenon DEF ExchangeInv, ExchangeTypes
<1>2. CASE UploadBreaks \/ UploadFails
  <2>1. PICK k \in DOMAIN requests :
          /\ requests' = [requests EXCEPT ![k].upload = "failed"]
          /\ inbound' = inbound \/ inbound' = AfterError
          /\ UNCHANGED <<exch, native, call, latest, source, reply>>
    BY <1>2, Zenon DEF UploadBreaks, UploadFails
  <2>2. UploadEnds(requests, requests')
    BY <1>0, <2>1, EndedUpload, Zenon
  <2>3. AnswerInv'
    BY <1>0, <2>1, <2>2, AnswerQuiet, Zenon DEF UploadEnds
  <2>4. /\ inbound' \in InboundRecords /\ InboundOK(inbound')
        /\ Follows(inbound, inbound') /\ inbound'.offset = inbound.offset
    <3>1. Follows(inbound, inbound)
      BY Zenon DEF Follows
    <3> QED BY <1>0, <2>1, <3>1, AllFacts, Zenon
  <2>5. \A j \in DOMAIN requests : RequestOK(requests'[j], inbound')
    BY <1>0, <2>2, <2>4, FollowsKeeps, Zenon DEF BodyInv, UploadEnds
  <2>6. call.pc = "try" => TryOK(call, exch[call.h].own, inbound')
    BY <1>0, <2>4, FollowsKeeps, Zenon DEF BodyInv
  <2>7. BodyInv'
    BY <1>0, <2>1, <2>2, <2>4, <2>5, <2>6, Zenon DEF BodyInv, UploadEnds
  <2> QED BY <1>0, <2>1, <2>2, <2>3, <2>4, <2>7, Zenon DEF ExchangeInv, ExchangeTypes, UploadEnds
<1> QED BY <1>1, <1>2, Zenon

-----------------------------------------------------------------------------
(* Responses.                                                              *)

\* A response becomes that of exchange c.h.
LEMMA ObservedKeeps ==
    ASSUME ExchangeInv, NEW c, NEW r \in Nat, NEW attached \in BOOLEAN,
           c.h \in ExchangeHandles, c.use \in Uses \ {"native"}, call.pc # "over",
           Observed(c, r, attached), inbound' = inbound, requests' = requests, Of(requests, r, c.h),
           native' \in [active : BOOLEAN, stored : Nat],
           native'.stored # NoResponse => native' = native,
           latest' \in Nat, Ready' => native'.stored = latest',
           c.h # Default /\ exch[Default].response # NoResponse /\ ~Ready'
             => exch[Default].response = latest',
           c.h = Default => \/ r = latest'
                            \/ Ready' /\ (c.use = "shortcut" => exch[Default].read)
                               /\ c.use # "graph"
    PROVE  ExchangeInv'
<1>0. ExchangeTypes /\ AnswerInv /\ BodyInv
  BY Zenon DEF ExchangeInv
<1> DEFINE h == c.h
           x == exch[h].read \/ c.use = "read"
           e == [exch[h] EXCEPT !.response = r, !.attached = attached, !.read = x]
<1>1. exch[h] \in ExchRecords
  BY <1>0, Zenon DEF ExchangeTypes
<1>2. x \in BOOLEAN /\ (exch[h].read => x)
  BY <1>1, Zenon DEF ExchRecords
<1>3. exch' = [exch EXCEPT ![h] = e]
  BY <1>0, Zenon DEF Observed, ExchangeTypes
<1> HIDE DEF x
<1>4. e \in ExchRecords /\ e.response = r /\ e.read = x
  BY <1>1, <1>2, Zenon DEF ExchRecords
<1> HIDE DEF e, h
<1>5. /\ exch' \in [ExchangeHandles -> ExchRecords] /\ exch'[h] = e
      /\ \A g \in ExchangeHandles : g # h => exch'[g] = exch[g]
  BY <1>0, <1>3, <1>4, ExchUpdate, Zenon DEF h
<1>6. source'.of \in ExchangeHandles \cup {"none"}
  <2>1. source' = source \/ source' = [of |-> h, response |-> r, at |-> Len(requests)]
    BY Zenon DEF Observed, h
  <2> QED BY <1>0, <2>1 DEF ExchangeTypes, h
<1>7. \/ c.use \in {"graph", "shortcut"} /\ reply' = r /\ call' = [pc |-> "over", use |-> c.use]
      \/ c.use \notin {"graph", "shortcut"} /\ reply' = reply /\ call' = Idle
  BY Zenon DEF Observed
<1>8. /\ call' \in {Idle} \cup EndedCalls /\ reply' \in Nat
      /\ call'.pc = IF c.use \in {"graph", "shortcut"} THEN "over" ELSE "idle"
      /\ c.use \in {"graph", "shortcut"} => call'.use = c.use
  BY <1>0, <1>7 DEF ExchangeTypes, EndedCalls, Idle
<1>9. ExchangeTypes'
  <2>1. {Idle}' = {Idle} /\ EndedCalls' = EndedCalls /\ RunningCalls' = RunningCalls
    BY Zenon DEF Idle, EndedCalls, RunningCalls
  <2> QED BY <1>0, <1>5, <1>6, <1>8, <2>1, Zenon DEF ExchangeTypes
<1>10. BodyInv'
  BY <1>0, <1>8, BodyStill, Zenon
<1>11. ~Running' /\ call'.pc # "await"
  BY <1>8, Zenon DEF Running
<1>12. \A g \in ExchangeHandles : exch'[g].response # NoResponse => Of(requests, exch'[g].response, g)
  BY <1>0, <1>4, <1>5, Zenon DEF AnswerInv, h
<1>13. /\ (Ready => Of(requests, native.stored, Default))'
       /\ (native.stored # NoResponse => native.active)'
  <2>1. NoResponse' = NoResponse /\ Failed' = Failed
    BY Zenon DEF NoResponse, Failed
  <2> QED BY <1>0, <2>1, Zenon DEF AnswerInv, Ready
<1>14. Default \in ExchangeHandles
  BY Zenon DEF ExchangeHandles
<1>15. /\ exch'[Default].response # NoResponse /\ ~Ready' => exch'[Default].response = latest'
       /\ exch[Default].read => exch'[Default].read
  BY <1>2, <1>4, <1>5, <1>14, Zenon DEF h
<1>16. reply = NoResponse /\ NoResponse \notin DOMAIN requests
  BY <1>0, SentFacts, Zenon DEF AnswerInv
<1>17. reply' \in DOMAIN requests /\ requests[reply'].h = Default
          => reply' = latest' \/ (call'.use = "shortcut" /\ exch'[Default].read)
  <2>1. CASE c.use \in {"graph", "shortcut"}
    <3>1. reply' = r /\ requests[r].h = h /\ call'.use = c.use
      BY <1>7, <1>8, <2>1, Zenon DEF Of, h
    <3> QED BY <1>15, <2>1, <3>1, Zenon DEF h
  <2>2. CASE c.use \notin {"graph", "shortcut"}
    BY <1>7, <1>16, <2>2, Zenon
  <2> QED BY <2>1, <2>2, Zenon
<1>18. call'.pc # "over" => reply' = NoResponse
  BY <1>7, <1>8, <1>16, Zenon
<1>19. AnswerInv'
  BY <1>11, <1>12, <1>13, <1>15, <1>17, <1>18, Zenon DEF AnswerInv, NoResponse
<1> QED BY <1>9, <1>10, <1>19, Zenon DEF ExchangeInv

\* The bodies that a request is prepared with.
LEMMA TemplateFacts ==
    ASSUME ExchangeTypes, InboundOK(inbound), NEW h \in ExchangeHandles,
           Inherits(h) /\ ~PristineUnread => EndKnown(inbound)
    PROVE  /\ Template(h) \in Bodies
           /\ \A c : c.h = h /\ c.body = Template(h) => TryOK(c, exch[h].own, inbound)
<1>0. inbound \in InboundRecords
  BY Zenon DEF ExchangeTypes
<1>1. /\ inbound.length \in Nat /\ inbound.arrives \in Nat /\ inbound.arrives <= inbound.length
      /\ ReadAll = UpTo(inbound.arrives) /\ ReadAll \in Seq(Nat)
      /\ <<>> \in Seq(Nat) /\ OwnBody \in Seq(Nat)
  <2>1. OwnBody \in Seq(Nat) /\ <<>> \in Seq(Nat)
    BY DEF OwnBody
  <2> QED BY <1>0, <2>1, AllFacts, Zenon DEF InboundRecords, InboundOK
<1>2. CASE exch[h].own
  <2>1. Template(h) = Bytes(OwnBody)
    BY <1>2, Zenon DEF Template
  <2>2. Bytes(OwnBody) \in Bodies /\ Bytes(OwnBody).kind = "bytes"
        /\ Bytes(OwnBody).bytes = OwnBody
    BY <1>1, Zenon DEF Bytes, Bodies
  <2> QED BY <1>2, <2>1, <2>2, Zenon DEF TryOK, Carried
<1>3. CASE ~exch[h].own /\ ~Inherits(h)
  <2>1. Template(h) = Bytes(<<>>)
    BY <1>3, Zenon DEF Template
  <2>2. Bytes(<<>>) \in Bodies /\ Bytes(<<>>).kind = "bytes" /\ Bytes(<<>>).bytes = <<>>
    BY <1>1, Zenon DEF Bytes, Bodies
  <2>3. h = Default => UpTo(inbound.arrives) = <<>> /\ EndKnown(inbound)
    <3>1. h = Default => inbound.length = 0 /\ inbound.arrives = 0
      BY <1>1, <1>3 DEF Inherits
    <3>2. UpTo(0) = <<>>
      BY DEF UpTo
    <3> QED BY <3>1, <3>2, Zenon DEF EndKnown
  <2> QED BY <1>3, <2>1, <2>2, <2>3, Zenon DEF TryOK, Carried
<1>4. CASE ~exch[h].own /\ Inherits(h) /\ PristineUnread
  <2>1. Template(h) = Streaming
    BY <1>4, Zenon DEF Template
  <2>2. Streaming \in Bodies /\ Streaming.kind = "stream" /\ Streaming.bytes = <<>>
    BY <1>1, Zenon DEF Streaming, Bodies
  <2>3. h = Default /\ inbound.offset = 0
    BY <1>4, Zenon DEF Inherits, PristineUnread
  <2> QED BY <1>4, <2>1, <2>2, <2>3, Zenon DEF TryOK
<1>5. CASE ~exch[h].own /\ Inherits(h) /\ ~PristineUnread
  <2>1. Template(h) = Bytes(ReadAll)
    BY <1>5, Zenon DEF Template
  <2>2. Bytes(ReadAll) \in Bodies /\ Bytes(ReadAll).kind = "bytes"
        /\ Bytes(ReadAll).bytes = ReadAll
    BY <1>1, Zenon DEF Bytes, Bodies
  <2>3. h = Default
    BY <1>5, Zenon DEF Inherits
  <2> QED BY <1>1, <1>5, <2>1, <2>2, <2>3, Zenon DEF TryOK, Carried
<1> QED BY <1>2, <1>3, <1>4, <1>5, Zenon

\* Resolving a template leaves the cursor, and buffers a body that is over.
LEMMA TemplateRead ==
    ASSUME inbound \in InboundRecords, InboundOK(inbound), NEW h, Resolves(h)
    PROVE  /\ AfterTemplate(h) \in InboundRecords /\ InboundOK(AfterTemplate(h))
           /\ Follows(inbound, AfterTemplate(h)) /\ AfterTemplate(h).offset = inbound.offset
           /\ Buffers(h) => EndKnown(inbound)
<1>1. CASE Buffers(h)
  BY <1>1, AllFacts, Zenon DEF AfterTemplate, Resolves
<1>2. CASE ~Buffers(h)
  BY <1>2, Zenon DEF AfterTemplate, Follows
<1> QED BY <1>1, <1>2, Zenon

\* A call starts to make its request.
LEMMA TryingKeeps ==
    ASSUME ExchangeInv, NEW c \in RunningCalls, call.pc \in {"idle", "try"}, call' = c,
           c.pc = "try", inbound' \in InboundRecords, InboundOK(inbound'),
           Follows(inbound, inbound'), inbound'.offset = inbound.offset,
           UNCHANGED <<exch, requests, latest, source, reply>>,
           native' \in [active : BOOLEAN, stored : Nat],
           native'.active = native.active, native'.stored \in {native.stored, NoResponse},
           native'.stored = NoResponse => ~Ready,
           c.h = Default => /\ native'.stored = NoResponse
                            /\ c.use # "native" => exch[Default].response = NoResponse,
           c.use = "native" => c.h = Default,
           TryOK(c, exch[c.h].own, inbound'), ~c.beside => NoUpload(requests)
    PROVE  ExchangeInv'
<1>0. ExchangeTypes /\ AnswerInv /\ BodyInv
  BY Zenon DEF ExchangeInv
<1>1. {Idle}' = {Idle} /\ EndedCalls' = EndedCalls /\ RunningCalls' = RunningCalls
  BY Zenon DEF Idle, EndedCalls, RunningCalls
<1>2. ExchangeTypes'
  BY <1>0, <1>1, Zenon DEF ExchangeTypes
<1>3. \A k \in DOMAIN requests : RequestOK(requests[k], inbound')
  BY <1>0, FollowsKeeps, Zenon DEF BodyInv
<1>4. BodyInv'
  BY <1>3, Zenon DEF BodyInv
<1>5. Ready' <=> Ready
  BY Zenon DEF Ready, NoResponse, Failed
<1>6. Ready => native'.stored = native.stored
  BY Zenon DEF Ready, NoResponse
<1>7. reply = NoResponse /\ NoResponse \notin DOMAIN requests
  BY <1>0, SentFacts, Zenon DEF AnswerInv
<1>8. Running' /\ call'.pc = "try"
  BY Zenon DEF Running
<1>9. \A h \in ExchangeHandles : exch'[h].response # NoResponse => Of(requests', exch'[h].response, h)
  BY <1>0, Zenon DEF AnswerInv
<1>10. /\ (Ready => Of(requests, native.stored, Default))'
       /\ (native.stored # NoResponse => native.active)'
  BY <1>0, <1>5, <1>6, Zenon DEF AnswerInv, NoResponse
<1>11. /\ Ready' => native'.stored = latest'
       /\ exch'[Default].response # NoResponse /\ ~Ready' => exch'[Default].response = latest'
  BY <1>0, <1>5, <1>6, Zenon DEF AnswerInv
<1>12. AnswerInv'
  BY <1>7, <1>8, <1>9, <1>10, <1>11, Zenon DEF AnswerInv, NoResponse
<1> QED BY <1>2, <1>4, <1>12, Zenon DEF ExchangeInv

\* What is left to try.
LEMMA TailLeft ==
    ASSUME NEW S, NEW q \in Seq(S), Len(q) > 1
    PROVE  Tail(q) \in Seq(S) /\ Tail(q) # <<>>
<1>1. Len(q) \in Nat /\ Len(Tail(q)) = Len(q) - 1 /\ Tail(q) \in Seq(S)
  OBVIOUS
<1>2. \A n \in Nat : \A t : n > 1 /\ Len(t) = n - 1 => t # <<>>
  <2>1. Len(<<>>) = 0
    BY Zenon
  <2>2. \A n \in Nat : \A m : n > 1 /\ m = n - 1 => m # 0
    OBVIOUS
  <2> QED BY <2>1, <2>2, Zenon
<1>3. Tail(q) # <<>>
  BY <1>1, <1>2, Zenon
<1> QED BY <1>1, <1>3, Zenon

LEMMA AttemptsType ==
    ASSUME ExchangeTypes, NEW h \in ExchangeHandles PROVE Attempts(h) \in ViaSeqs
<1>1. exch[h].via \in ViaSeqs
  BY Zenon DEF ExchangeTypes, ExchRecords
<1>2. <<"attached">> \in ViaSeqs
  BY DEF ViaSeqs, Vias
<1> QED BY <1>1, <1>2, Zenon DEF Attempts

\* start_outbound_exchange_response, for the program or for the answer.
LEMMA StartKeeps ==
    ASSUME ExchangeInv, NEW h \in ExchangeHandles, NEW use \in Uses \ {"native"},
           call.pc = "idle", Start(h, use), UNCHANGED <<requests, latest>>,
           h = Default /\ use = "graph" => ~Ready,
           h = Default /\ use = "shortcut" /\ Ready => exch[Default].read
    PROVE  ExchangeInv'
<1>0. /\ ExchangeTypes /\ AnswerInv /\ BodyInv /\ inbound \in InboundRecords
      /\ InboundOK(inbound) /\ exch[h] \in ExchRecords /\ latest \in Nat
      /\ native \in [active : BOOLEAN, stored : Nat]
      /\ exch[h].response \in Nat /\ exch[h].attached \in BOOLEAN
  BY Zenon DEF ExchangeInv, ExchangeTypes, BodyInv, ExchRecords
<1>1. /\ \A g \in ExchangeHandles : exch[g].response # NoResponse => Of(requests, exch[g].response, g)
      /\ Ready => native.stored = latest /\ Of(requests, native.stored, Default)
      /\ exch[Default].response # NoResponse /\ ~Ready => exch[Default].response = latest
  BY <1>0, Zenon DEF AnswerInv
<1>2. CASE Answered(h, use)
  <2> DEFINE c == [h |-> h, use |-> use]
  <2>1. /\ exch[h].response # NoResponse /\ Observed(c, exch[h].response, exch[h].attached)
        /\ inbound' = inbound /\ native' = native
    BY <1>2, Zenon DEF Answered
  <2>2. c.h = h /\ c.use = use
    BY Zenon
  <2> HIDE DEF c
  <2>3. Ready' = Ready
    BY <2>1, Zenon DEF Ready, NoResponse, Failed
  <2>4. h = Default => \/ exch[h].response = latest
                       \/ Ready /\ (use = "shortcut" => exch[Default].read) /\ use # "graph"
    BY <1>1, <2>1, Zenon
  <2> QED BY <1>0, <1>1, <2>1, <2>2, <2>3, <2>4, ObservedKeeps, SMTT(30)
<1>3. CASE Materialize(h, use)
  <2> DEFINE c == [h |-> h, use |-> use]
  <2>1. /\ h = Default /\ Ready /\ Observed(c, native.stored, exch[h].attached)
        /\ native' = [active |-> FALSE, stored |-> NoResponse] /\ inbound' = inbound
    BY <1>3, Zenon DEF Materialize, Ready
  <2>2. c.h = h /\ c.use = use
    BY Zenon
  <2> HIDE DEF c
  <2>3. /\ native' \in [active : BOOLEAN, stored : Nat] /\ native'.stored = NoResponse
        /\ native.stored \in Nat
    BY <1>0, <2>1, Zenon DEF NoResponse
  <2>4. ~Ready'
    BY <2>3, Zenon DEF Ready, NoResponse
  <2> QED BY <1>0, <1>1, <2>1, <2>2, <2>3, <2>4, ObservedKeeps, SMTT(30)
<1>4. CASE Prepare(h, use)
  <2>1. /\ exch[h].response = NoResponse /\ (h = Default => ~Ready)
        /\ native' = IF h = Default THEN [native EXCEPT !.stored = NoResponse] ELSE native
    BY <1>4, Zenon DEF Prepare, Ready
  <2>2. /\ native' \in [active : BOOLEAN, stored : Nat] /\ native'.active = native.active
        /\ native'.stored = IF h = Default THEN NoResponse ELSE native.stored
    BY <1>0, <2>1, Zenon DEF NoResponse
  <2>3. CASE HostError /\ inbound' \in {inbound, AfterAllError} /\ UNCHANGED <<exch, source>>
    <3>1. /\ inbound' \in InboundRecords /\ InboundOK(inbound')
          /\ Follows(inbound, inbound') /\ inbound'.offset = inbound.offset
      <4>1. Follows(inbound, inbound)
        BY Zenon DEF Follows
      <4> QED BY <1>0, <2>3, <4>1, AllFacts, Zenon
    <3> QED BY <2>2, <2>3, <3>1, ErrorKeeps, Zenon
  <2> DEFINE b == IF Buffers(h) THEN Bytes(ReadAll) ELSE Template(h)
             c == [pc |-> "try", h |-> h, use |-> use, via |-> Attempts(h), body |-> b,
                   beside |-> Beside]
  <2>4. CASE /\ Resolves(h) /\ inbound' = AfterTemplate(h) /\ call' = c
             /\ UNCHANGED <<exch, source, reply>>
    <3>1. /\ inbound' \in InboundRecords /\ InboundOK(inbound')
          /\ Follows(inbound, inbound') /\ inbound'.offset = inbound.offset
          /\ Buffers(h) => EndKnown(inbound)
      BY <1>0, <2>4, TemplateRead, Zenon
    <3>2. b \in Bodies /\ \A d : d.h = h /\ d.body = b => TryOK(d, exch[h].own, inbound)
      <4>1. CASE Buffers(h)
        <5>1. ReadAll = UpTo(inbound.arrives) /\ ReadAll \in Seq(Nat) /\ EndKnown(inbound)
          BY <1>0, <3>1, <4>1, AllFacts, Zenon
        <5>2. b = Bytes(ReadAll) /\ Bytes(ReadAll) \in Bodies
              /\ Bytes(ReadAll).kind = "bytes" /\ Bytes(ReadAll).bytes = ReadAll
          BY <4>1, <5>1, Zenon DEF Bytes, Bodies
        <5>3. h = Default /\ ~exch[h].own
          BY <4>1, Zenon DEF Buffers, Inherits
        <5> QED BY <5>1, <5>2, <5>3, Zenon DEF TryOK, Carried
      <4>2. CASE ~Buffers(h)
        BY <1>0, <4>2, TemplateFacts, Zenon DEF Buffers
      <4> QED BY <4>1, <4>2, Zenon
    <3>3. Attempts(h) \in ViaSeqs /\ Beside \in BOOLEAN
      BY <1>0, AttemptsType, Zenon DEF Beside
    <3>4. ~Beside => NoUpload(requests)
      BY Zenon DEF Beside, NoUpload, Uploading
    <3> HIDE DEF b
    <3>5. /\ c \in RunningCalls /\ c.pc = "try" /\ c.h = h /\ c.use = use /\ c.body = b
          /\ c.beside = Beside
      BY <3>2, <3>3, Zenon DEF RunningCalls
    <3> HIDE DEF c
    <3>6. TryOK(c, exch[c.h].own, inbound')
      <4>1. TryOK(c, exch[c.h].own, inbound)
        BY <3>2, <3>5, Zenon
      <4> QED BY <3>1, <4>1, FollowsKeeps, Zenon
    <3>7. native'.stored = NoResponse => ~Ready
      BY <2>1, <2>2, Zenon DEF Ready
    <3> QED BY <1>0, <2>1, <2>2, <2>4, <3>1, <3>4, <3>5, <3>6, <3>7, TryingKeeps, Zenon
  <2> QED BY <1>4, <2>3, <2>4, Zenon DEF Prepare
<1> QED BY <1>2, <1>3, <1>4, Zenon DEF Start

\* The calls of a program that need a response.
LEMMA CallsKeep ==
    ASSUME ExchangeInv, NEW h \in ExchangeHandles, Send(h) \/ ReadResponse(h) \/ ApplyExchange(h)
    PROVE  ExchangeInv'
<1>1. call.pc = "idle" /\ UNCHANGED <<requests, latest>>
  BY Zenon DEF Send, ReadResponse, ApplyExchange, Call, CanCall
<1>2. Start(h, "observe") \/ Start(h, "read") \/ Start(h, "apply")
  BY Zenon DEF Send, ReadResponse, ApplyExchange
<1>3. \A use \in {"observe", "read", "apply"} : Start(h, use) => ExchangeInv'
  BY <1>1, StartKeeps, Zenon DEF Uses
<1> QED BY <1>2, <1>3, Zenon

\* proxy::forward, and a transport that falls back.
LEMMA ForwardKeeps ==
    ASSUME ExchangeInv, Forward \/ FallsBack
    PROVE  ExchangeInv'
<1>0. /\ ExchangeTypes /\ AnswerInv /\ BodyInv /\ inbound \in InboundRecords
      /\ InboundOK(inbound) /\ native \in [active : BOOLEAN, stored : Nat]
      /\ Default \in ExchangeHandles
  BY Zenon DEF ExchangeInv, ExchangeTypes, BodyInv, ExchangeHandles
<1>1. CASE Forward
  <2>1. call.pc = "idle" /\ UNCHANGED <<requests, latest>>
    BY <1>1, Zenon DEF Forward, Call, CanCall
  <2>2. CASE native.active /\ UNCHANGED <<inbound, exch, native, call, source, reply>>
    <3>1. AnswerInv'
      BY <1>0, <2>1, <2>2, AnswerQuiet, Zenon
    <3>2. BodyInv'
      BY <1>0, <2>1, <2>2, BodyStill, Zenon
    <3> QED BY <1>0, <2>1, <2>2, <3>1, <3>2, Zenon DEF ExchangeInv, ExchangeTypes
  <2> DEFINE c == [pc |-> "try", h |-> Default, use |-> "native", via |-> <<"h1">>,
                   body |-> Template(Default), beside |-> Beside]
  <2>3. CASE /\ ~native.active /\ NativeEligible /\ call' = c
             /\ UNCHANGED <<inbound, exch, native, source, reply>>
    <3>1. /\ Template(Default) \in Bodies
          /\ \A d : d.h = Default /\ d.body = Template(Default)
                => TryOK(d, exch[Default].own, inbound)
      <4>1. Inherits(Default) /\ ~PristineUnread => EndKnown(inbound)
        BY <2>3, Zenon DEF NativeEligible
      <4> QED BY <1>0, <4>1, TemplateFacts, Zenon
    <3>2. <<"h1">> \in ViaSeqs /\ Beside \in BOOLEAN
      BY DEF ViaSeqs, Vias, Beside
    <3>3. ~Beside => NoUpload(requests)
      BY Zenon DEF Beside, NoUpload, Uploading
    <3>4. /\ c \in RunningCalls /\ c.pc = "try" /\ c.h = Default /\ c.use = "native"
          /\ c.body = Template(Default) /\ c.beside = Beside
      BY <1>0, <3>1, <3>2, Zenon DEF RunningCalls, Uses
    <3> HIDE DEF c
    <3>5. TryOK(c, exch[c.h].own, inbound)
      BY <3>1, <3>4, Zenon
    <3>6. native.stored = NoResponse /\ ~Ready
      BY <1>0, <2>3, Zenon DEF AnswerInv, Ready
    <3>7. Follows(inbound, inbound)
      BY Zenon DEF Follows
    <3> QED BY <1>0, <2>1, <2>3, <3>3, <3>4, <3>5, <3>6, <3>7, TryingKeeps, Zenon
  <2>4. CASE Start(Default, "observe")
    BY <1>0, <2>1, <2>4, StartKeeps, Zenon DEF Uses
  <2> QED BY <1>1, <2>2, <2>3, <2>4, Zenon DEF Forward
<1>2. CASE FallsBack
  <2> DEFINE anew == call.h = Default /\ call.via[2] = "h1"
             b == IF anew THEN Template(Default) ELSE call.body
             c == [call EXCEPT !.via = Tail(@), !.body = b]
  <2>1. /\ call.pc = "try" /\ Len(call.via) > 1
        /\ UNCHANGED <<exch, native, requests, latest, source>>
        /\ \/ /\ anew => Resolves(Default)
              /\ inbound' = IF anew THEN AfterTemplate(Default) ELSE inbound
              /\ call' = c /\ UNCHANGED reply
           \/ inbound' = AfterAllError /\ HostError
    BY <1>2, Zenon DEF FallsBack
  <2>2. CASE inbound' = AfterAllError /\ HostError
    <3>1. /\ inbound' \in InboundRecords /\ InboundOK(inbound')
          /\ Follows(inbound, inbound') /\ inbound'.offset = inbound.offset
      BY <1>0, <2>2, AllFacts, Zenon
    <3> QED BY <1>0, <2>1, <2>2, <3>1, ErrorKeeps, Zenon
  <2>3. CASE /\ anew => Resolves(Default)
             /\ inbound' = IF anew THEN AfterTemplate(Default) ELSE inbound
             /\ call' = c /\ UNCHANGED reply
    <3>1. call \in RunningCalls /\ Running
      BY <1>0, <2>1, CallKinds, Zenon DEF Running
    <3>2. TryOK(call, exch[call.h].own, inbound) /\ (~call.beside => NoUpload(requests))
      BY <1>0, <2>1, Zenon DEF BodyInv
    <3>3. /\ inbound' \in InboundRecords /\ InboundOK(inbound')
          /\ Follows(inbound, inbound') /\ inbound'.offset = inbound.offset
          /\ anew => (Buffers(Default) => EndKnown(inbound))
      <4>1. Follows(inbound, inbound)
        BY Zenon DEF Follows
      <4> QED BY <1>0, <2>3, <4>1, TemplateRead, Zenon
    <3>4. anew => /\ Template(Default) \in Bodies
                  /\ \A d : d.h = Default /\ d.body = Template(Default)
                          => TryOK(d, exch[Default].own, inbound)
      BY <1>0, <3>3, TemplateFacts, Zenon DEF Buffers
    <3>5. Tail(call.via) \in ViaSeqs
      <4>1. call.via \in Seq(Vias)
        BY <3>1, Zenon DEF RunningCalls, ViaSeqs
      <4> QED BY <2>1, <4>1, TailLeft, Zenon DEF ViaSeqs
    <3>6. /\ b \in Bodies
          /\ b = call.body
             \/ (call.h = Default /\ b = Template(Default)
                   /\ \A d : d.h = Default /\ d.body = b => TryOK(d, exch[Default].own, inbound))
      BY <3>1, <3>4, Zenon DEF RunningCalls
    <3> HIDE DEF b
    <3>7. /\ c \in RunningCalls /\ c.pc = call.pc /\ c.h = call.h /\ c.use = call.use
          /\ c.body = b /\ c.beside = call.beside
      BY <3>1, <3>5, <3>6, Zenon DEF RunningCalls
    <3>8. call' = c
      BY <2>3, Zenon
    <3> HIDE DEF c, anew
    <3>9. TryOK(c, exch[c.h].own, inbound')
      <4>3. TryOK(c, exch[c.h].own, inbound)
        <5>1. CASE b = call.body
          BY <3>2, <3>7, <5>1, Zenon DEF TryOK
        <5>2. CASE call.h = Default /\ \A d : d.h = Default /\ d.body = b
                                         => TryOK(d, exch[Default].own, inbound)
          BY <3>7, <5>2, Zenon
        <5> QED BY <3>6, <5>1, <5>2, Zenon
      <4>4. \A d, own : TryOK(d, own, inbound) => TryOK(d, own, inbound')
        BY <3>3, FollowsKeeps, Zenon
      <4> QED BY <4>3, <4>4, Zenon
    <3>10. {Idle}' = {Idle} /\ EndedCalls' = EndedCalls /\ RunningCalls' = RunningCalls
      BY Zenon DEF Idle, EndedCalls, RunningCalls
    <3>11. ExchangeTypes'
      BY <1>0, <2>1, <2>3, <3>3, <3>7, <3>8, <3>10, Zenon DEF ExchangeTypes
    <3>12. AnswerInv'
      BY <1>0, <2>1, <2>3, <3>7, <3>8, AnswerQuiet, Zenon
    <3>13. \A k \in DOMAIN requests : RequestOK(requests[k], inbound')
      BY <1>0, <3>3, FollowsKeeps, Zenon DEF BodyInv
    <3>14. BodyInv'
      BY <2>1, <3>2, <3>3, <3>7, <3>8, <3>9, <3>13, Zenon DEF BodyInv
    <3> QED BY <3>11, <3>12, <3>14, Zenon DEF ExchangeInv
  <2> QED BY <2>1, <2>2, <2>3, Zenon
<1> QED BY <1>1, <1>2, Zenon

\* The request goes out.
LEMMA SendingKeeps ==
    ASSUME ExchangeInv, SendUpstream
    PROVE  ExchangeInv'
<1>0. /\ ExchangeTypes /\ AnswerInv /\ BodyInv /\ requests \in Seq(RequestRecords)
  BY Zenon DEF ExchangeInv, ExchangeTypes
<1> DEFINE r == [h |-> call.h, via |-> Head(call.via), own |-> exch[call.h].own,
                 body |-> call.body.bytes, shared |-> call.beside,
                 upload |-> IF call.body.kind = "stream" THEN "open" ELSE "done"]
           c == [call EXCEPT !.pc = "await"]
<1>1. /\ call.pc = "try" /\ Len(requests) < MaxRequests /\ requests' = Append(requests, r) /\ call' = c
      /\ UNCHANGED <<inbound, exch, native, latest, source, reply>>
  BY Zenon DEF SendUpstream
<1>2. call \in RunningCalls /\ Running
  BY <1>0, <1>1, CallKinds, Zenon DEF Running
<1>3. TryOK(call, exch[call.h].own, inbound)
  BY <1>0, <1>1, Zenon DEF BodyInv
<1>4. /\ call.h \in ExchangeHandles /\ call.body \in Bodies /\ call.beside \in BOOLEAN
      /\ exch[call.h].own \in BOOLEAN /\ Head(call.via) \in Vias
  <2>1. call.h \in ExchangeHandles /\ call.body \in Bodies /\ call.beside \in BOOLEAN
        /\ call.via \in ViaSeqs
    BY <1>2, Zenon DEF RunningCalls
  <2>2. exch[call.h] \in ExchRecords
    BY <1>0, <2>1, Zenon DEF ExchangeTypes
  <2>3. Head(call.via) \in Vias
    BY <2>1 DEF ViaSeqs
  <2> QED BY <2>1, <2>2, <2>3, Zenon DEF ExchRecords
<1>5. /\ r \in RequestRecords /\ r.h = call.h /\ r.own = exch[call.h].own
      /\ r.body = call.body.bytes /\ r.shared = call.beside
      /\ r.upload = IF call.body.kind = "stream" THEN "open" ELSE "done"
  BY <1>4, Zenon DEF RequestRecords, Bodies
<1>6. /\ c \in RunningCalls /\ c.pc = "await" /\ c.h = call.h /\ c.use = call.use
  BY <1>2, Zenon DEF RunningCalls
<1> HIDE DEF r, c
<1>7. RequestOK(r, inbound)
  <2>1. UpTo(0) = <<>>
    BY DEF UpTo
  <2>2. call.body.kind \in {"bytes", "stream"}
    BY <1>4, Zenon DEF Bodies
  <2> QED BY <1>3, <1>5, <2>1, <2>2, Zenon DEF RequestOK, TryOK
<1>8. /\ requests' \in Seq(RequestRecords) /\ Len(requests') = Len(requests) + 1
      /\ Len(requests) \in Nat /\ DOMAIN requests = 1 .. Len(requests)
      /\ DOMAIN requests' = 1 .. Len(requests) + 1 /\ requests'[Len(requests) + 1] = r
      /\ \A k \in 1 .. Len(requests) : requests'[k] = requests[k]
  BY <1>0, <1>1, <1>5
<1>9. \A k \in DOMAIN requests' : k \in DOMAIN requests \/ k = Len(requests) + 1
  BY <1>8
<1>10. {Idle}' = {Idle} /\ EndedCalls' = EndedCalls /\ RunningCalls' = RunningCalls
  BY Zenon DEF Idle, EndedCalls, RunningCalls
<1>11. ExchangeTypes'
  <2>1. Len(requests') <= MaxRequests
    BY <1>1, <1>8, ExchangeAssumption
  <2> QED BY <1>0, <1>1, <1>6, <1>8, <1>10, <2>1, Zenon DEF ExchangeTypes
<1>12. BodyInv'
  <2>1. \A k \in DOMAIN requests' : RequestOK(requests'[k], inbound)
    <3> SUFFICES ASSUME NEW k \in DOMAIN requests' PROVE RequestOK(requests'[k], inbound)
      BY Zenon
    <3>1. CASE k \in DOMAIN requests
      BY <1>0, <1>8, <3>1, Zenon DEF BodyInv
    <3>2. CASE k = Len(requests) + 1
      BY <1>7, <1>8, <3>2, Zenon
    <3> QED BY <1>9, <3>1, <3>2, Zenon
  <2> QED BY <1>0, <1>1, <1>6, <2>1, Zenon DEF BodyInv
<1>13. \A x, h : Of(requests, x, h) => Of(requests', x, h)
  BY <1>8 DEF Of
<1>14. Of(requests', Newest', call'.h)
  BY <1>1, <1>5, <1>6, <1>8 DEF Of, Newest
<1>15. Ready' = Ready
  BY <1>1, Zenon DEF Ready, NoResponse, Failed
<1>16. Running' /\ call'.pc = "await" /\ call'.h = call.h /\ call'.use = call.use
  BY <1>1, <1>6, Zenon DEF Running
<1>17. reply = NoResponse
  BY <1>0, <1>1, Zenon DEF AnswerInv
<1>18. reply' \notin DOMAIN requests'
  BY <1>1, <1>8, <1>17 DEF NoResponse
<1>19. \A h \in ExchangeHandles : exch'[h].response # NoResponse => Of(requests', exch'[h].response, h)
  BY <1>0, <1>1, <1>13, Zenon DEF AnswerInv
<1>20. /\ (Ready => Of(requests, native.stored, Default))'
       /\ (native.stored # NoResponse => native.active)'
  BY <1>0, <1>1, <1>13, <1>15, Zenon DEF AnswerInv, NoResponse
<1>21. /\ Ready' => native'.stored = latest'
       /\ exch'[Default].response # NoResponse /\ ~Ready' => exch'[Default].response = latest'
  BY <1>0, <1>1, <1>15, Zenon DEF AnswerInv
<1>22. /\ call'.h = Default =>
            /\ native'.stored = NoResponse
            /\ call'.use # "native" => exch'[Default].response = NoResponse
       /\ call'.use = "native" => call'.h = Default
  BY <1>0, <1>1, <1>2, <1>16, Zenon DEF AnswerInv
<1>23. AnswerInv'
  BY <1>1, <1>14, <1>16, <1>17, <1>18, <1>19, <1>20, <1>21, <1>22, Zenon DEF AnswerInv, NoResponse
<1> QED BY <1>11, <1>12, <1>23, Zenon DEF ExchangeInv

\* A native forward is on HTTP/1 and is not tried on anything else.
NativeOnHttp1 ==
    Running /\ call.use = "native" =>
        call.via = <<"h1">> /\ (call.pc = "await" => requests[Newest].via = "h1")

LEMMA NativeKeeps ==
    ASSUME ExchangeInv, NativeOnHttp1, ExchangeNext
    PROVE  NativeOnHttp1'
<1>0. /\ ExchangeTypes /\ AnswerInv
      /\ \A k \in DOMAIN requests : requests[k] \in RequestRecords
      /\ call.pc = "await" => Newest \in DOMAIN requests
      /\ {"try", "await"} \cap {"idle", "over"} = {}
  BY SentFacts, Zenon DEF ExchangeInv, AnswerInv, Of
<1>1. ASSUME ~Running' \/ call'.use # "native" PROVE NativeOnHttp1'
  BY <1>1, Zenon DEF NativeOnHttp1
<1>2. CASE ~Running /\ call' = call
  BY <1>1, <1>2, Zenon DEF Running
<1>3. ASSUME HostError \/ call' = Idle PROVE NativeOnHttp1'
  BY <1>1, <1>3 DEF Running, HostError, Idle
<1>4. ASSUME NEW c, NEW r, NEW attached, c.use # "native", Observed(c, r, attached)
      PROVE  NativeOnHttp1'
  BY <1>1, <1>4, Zenon DEF Running, Observed, Idle
<1>5. ASSUME NEW h, NEW use, use # "native", Start(h, use)
      PROVE  NativeOnHttp1'
  <2>1. [h |-> h, use |-> use].use # "native"
    BY <1>5, Zenon
  <2>2. CASE Answered(h, use) \/ Materialize(h, use)
    BY <1>4, <2>1, <2>2, Zenon DEF Answered, Materialize
  <2>3. CASE Prepare(h, use)
    BY <1>1, <1>3, <1>5, <2>3 DEF Prepare
  <2> QED BY <1>5, <2>2, <2>3, Zenon DEF Start
<1>6. ASSUME call' = call, Len(requests') = Len(requests), \A k \in DOMAIN requests : requests'[k].via = requests[k].via
      PROVE  NativeOnHttp1'
  BY <1>0, <1>6, Zenon DEF NativeOnHttp1, Running, Newest
<1>7. CASE \E h \in ExchangeHandles : SetTarget(h) \/ SetVersion(h) \/ SetBody(h) \/ Attach(h)
  BY <1>2, <1>3, <1>7, Zenon DEF SetTarget, SetVersion, SetBody, Attach, Call, CanCall, Running
<1>8. CASE \E h \in ExchangeHandles : Send(h) \/ ReadResponse(h) \/ ApplyExchange(h)
  BY <1>5, <1>8, Zenon DEF Send, ReadResponse, ApplyExchange
<1>9. CASE ReadChunk \/ ReadBody \/ ReadFails
  BY <1>2, <1>3, <1>9, Zenon DEF ReadChunk, ReadBody, ReadFails, Call, CanCall, Running
<1>11. CASE Forward
  <2>1. CASE native.active
    BY <1>2, <1>11, <2>1, Zenon DEF Forward, Call, CanCall, Running
  <2>2. CASE ~native.active /\ NativeEligible
    <3> DEFINE c == [pc |-> "try", h |-> Default, use |-> "native", via |-> <<"h1">>,
                     body |-> Template(Default), beside |-> Beside]
    <3>1. call' = c
      BY <1>11, <2>2, Zenon DEF Forward
    <3>2. c.pc = "try" /\ c.via = <<"h1">>
      BY Zenon
    <3> HIDE DEF c
    <3> QED BY <3>1, <3>2, Zenon DEF NativeOnHttp1
  <2>3. CASE ~native.active /\ ~NativeEligible
    BY <1>5, <1>11, <2>3, Zenon DEF Forward
  <2> QED BY <2>1, <2>2, <2>3, Zenon
<1>12. CASE FallsBack
  <2>1. Running /\ call.via # <<"h1">>
    <3>1. Head(<<"h1">>) = "h1"
      OBVIOUS
    <3> QED BY <1>12, <3>1, Zenon DEF FallsBack, Running
  <2>2. call \in RunningCalls /\ call.use # "native"
    BY <1>0, <2>1, CallKinds, Zenon DEF NativeOnHttp1
  <2>3. call'.use = call.use \/ HostError
    BY <1>12, <2>2, Zenon DEF FallsBack, RunningCalls
  <2> QED BY <1>1, <1>3, <2>2, <2>3, Zenon
<1>13. CASE SendUpstream
  <2> DEFINE r == [h |-> call.h, via |-> Head(call.via), own |-> exch[call.h].own,
                   body |-> call.body.bytes, shared |-> call.beside,
                   upload |-> IF call.body.kind = "stream" THEN "open" ELSE "done"]
  <2>1. call.pc = "try" /\ requests' = Append(requests, r) /\ call' = [call EXCEPT !.pc = "await"]
    BY <1>13, Zenon DEF SendUpstream
  <2>2. r.via = Head(call.via)
    BY Zenon
  <2> HIDE DEF r
  <2>3. Running /\ call \in RunningCalls
    BY <1>0, <2>1, CallKinds, Zenon DEF Running
  <2>4. call'.use = call.use /\ call'.via = call.via
    BY <2>1, <2>3, Zenon DEF RunningCalls
  <2>5. requests'[Newest'] = r
    BY <1>0, <2>1 DEF ExchangeTypes, Newest
  <2>6. Head(<<"h1">>) = "h1"
    OBVIOUS
  <2> QED BY <2>2, <2>3, <2>4, <2>5, <2>6, Zenon DEF NativeOnHttp1
<1>14. CASE UploadChunk \/ UploadBreaks \/ UploadFails
  <2>1. call' = call
    BY <1>14, Zenon DEF UploadChunk, UploadBreaks, UploadFails
  <2>2. \A j \in DOMAIN requests : requests'[j].via = requests[j].via
    <3>1. CASE UploadChunk
      <4>1. PICK k \in DOMAIN requests :
              requests' = [j \in DOMAIN requests |->
                         IF j # k THEN Missed(j)
                         ELSE [requests[k] EXCEPT
                                !.body = @ \o NextChunk,
                                !.upload = IF NextChunk = <<>> THEN "done" ELSE "open"]]
        BY <3>1, Zenon DEF UploadChunk
      <4>2. requests'[k].via = requests[k].via
        BY <1>0, <4>1, Zenon DEF RequestRecords
      <4>3. \A j \in DOMAIN requests : Missed(j).via = requests[j].via
        BY <1>0, Zenon DEF Missed, RequestRecords
      <4>4. \A j \in DOMAIN requests : j # k => requests'[j] = Missed(j)
        BY <4>1, Zenon
      <4> QED BY <4>2, <4>3, <4>4, Zenon
    <3>2. CASE UploadBreaks \/ UploadFails
      <4>1. PICK k \in DOMAIN requests : requests' = [requests EXCEPT ![k].upload = "failed"]
        BY <3>2, Zenon DEF UploadBreaks, UploadFails
      <4> QED BY <1>0, <4>1 DEF RequestRecords, ExchangeTypes
    <3> QED BY <1>14, <3>1, <3>2, Zenon
  <2>3. Len(requests') = Len(requests)
    <3>1. ExchangeInv' /\ requests \in Seq(RequestRecords) /\ DOMAIN requests' = DOMAIN requests
      BY <1>0, <1>14, UploadingKeeps, Zenon DEF UploadChunk, UploadBreaks, UploadFails, ExchangeTypes
    <3> QED BY <3>1 DEF ExchangeInv, ExchangeTypes
  <2> QED BY <1>6, <2>1, <2>2, <2>3, Zenon
<1>15. CASE RespondsNative \/ RequestFails
  BY <1>3, <1>15, Zenon DEF RespondsNative, RequestFails
<1>16. CASE RespondsHttp1 \/ RespondsHttp2 \/ RespondsHttp3 \/ RespondsAttached
  <2>1. call.use # "native"
    BY <1>16, Zenon
       DEF RespondsHttp1, RespondsHttp2, RespondsHttp3, RespondsAttached, ResponseReady,
                 NativeOnHttp1, Running
  <2> QED BY <1>4, <1>16, <2>1, Zenon DEF RespondsHttp1, RespondsHttp2, RespondsHttp3,
                                   RespondsAttached, Store
<1>17. CASE \E route \in {"graph", "shortcut"} : ResolveNative(route) \/ ResolveExchange(route)
  <2>1. PICK route \in {"graph", "shortcut"} : ResolveNative(route) \/ ResolveExchange(route)
    BY <1>17, Zenon
  <2>2. CASE ResolveNative(route)
    BY <1>1, <2>2, Zenon DEF ResolveNative, Running
  <2>3. CASE ResolveExchange(route)
    BY <1>5, <2>3, Zenon DEF ResolveExchange
  <2> QED BY <2>1, <2>2, <2>3, Zenon
<1> QED BY <1>7, <1>8, <1>9, <1>11, <1>12, <1>13, <1>14, <1>15, <1>16, <1>17, Zenon
        DEF ExchangeNext

\* A response that comes, over whatever transport.
LEMMA RespondingKeeps ==
    ASSUME ExchangeInv, NativeOnHttp1,
           RespondsHttp1 \/ RespondsHttp2 \/ RespondsHttp3 \/ RespondsAttached
    PROVE  ExchangeInv'
<1>0. /\ ExchangeTypes /\ AnswerInv /\ native \in [active : BOOLEAN, stored : Nat]
      /\ latest \in Nat
  BY Zenon DEF ExchangeInv, ExchangeTypes
<1>1. call.pc = "await" /\ call.use # "native" /\ Running /\ call.pc # "over"
  BY Zenon DEF RespondsHttp1, RespondsHttp2, RespondsHttp3, RespondsAttached, ResponseReady,
         NativeOnHttp1, Running
<1>2. call.h \in ExchangeHandles /\ call.use \in Uses \ {"native"}
  BY <1>0, <1>1, CallKinds, Zenon DEF RunningCalls
<1>3. /\ Observed(call, Newest, FALSE)
      /\ latest' = IF call.h = Default THEN Newest ELSE latest
      /\ inbound' = inbound /\ requests' = requests
  BY Zenon DEF RespondsHttp1, RespondsHttp2, RespondsHttp3, RespondsAttached, Store
<1>4. \/ native' = native
      \/ call.h = Default /\ native' = [active |-> FALSE, stored |-> NoResponse]
  BY Zenon DEF RespondsHttp1, RespondsHttp2, RespondsHttp3, RespondsAttached, FastPath
<1>5. /\ native' \in [active : BOOLEAN, stored : Nat]
      /\ native'.stored # NoResponse => native' = native
      /\ call.h # Default => native' = native
  <2>1. CASE native' = native
    BY <1>0, <2>1, Zenon
  <2>2. CASE call.h = Default /\ native' = [active |-> FALSE, stored |-> NoResponse]
    BY <2>2, Zenon DEF NoResponse
  <2> QED BY <1>4, <2>1, <2>2, Zenon
<1>6. Of(requests, Newest, call.h) /\ Newest \in Nat
  BY <1>0, <1>1, SentFacts, Zenon DEF AnswerInv, Newest
<1>7. /\ Ready => native.stored = latest
      /\ exch[Default].response # NoResponse /\ ~Ready => exch[Default].response = latest
      /\ call.h = Default => native.stored = NoResponse
  BY <1>0, <1>1, Zenon DEF AnswerInv
<1>8. /\ call.h = Default => ~Ready'
      /\ call.h # Default => Ready' = Ready
  <2>1. NoResponse' = NoResponse /\ Failed' = Failed
    BY Zenon DEF NoResponse, Failed
  <2> QED BY <1>5, <1>7, <2>1, Zenon DEF Ready
<1>9. latest' \in Nat
  BY <1>0, <1>3, <1>6, Zenon
<1>10. Ready' => native'.stored = latest'
  BY <1>3, <1>5, <1>7, <1>8, Zenon
<1>11. call.h # Default /\ exch[Default].response # NoResponse /\ ~Ready'
         => exch[Default].response = latest'
  BY <1>3, <1>7, <1>8, SMTT(30)
<1> QED BY <1>1, <1>2, <1>3, <1>5, <1>6, <1>9, <1>10, <1>11, ObservedKeeps, Zenon

\* A native forward's response, and the end of a request that fails.
LEMMA EndingKeeps ==
    ASSUME ExchangeInv, RespondsNative \/ RequestFails
    PROVE  ExchangeInv'
<1>0. /\ ExchangeTypes /\ AnswerInv /\ BodyInv /\ inbound \in InboundRecords
  BY Zenon DEF ExchangeInv, ExchangeTypes
<1>1. Running /\ call.pc # "over" /\ UNCHANGED <<inbound, exch, source>>
  BY Zenon DEF RespondsNative, RequestFails, ResponseReady, Running
<1>2. /\ reply = NoResponse /\ NoResponse \notin DOMAIN requests
      /\ call.use = "native" => call.h = Default /\ native.stored = NoResponse
      /\ exch[Default].response # NoResponse /\ ~Ready => exch[Default].response = latest
      /\ \A h \in ExchangeHandles : exch[h].response # NoResponse => Of(requests, exch[h].response, h)
  BY <1>0, <1>1, SentFacts, Zenon DEF AnswerInv
<1>3. /\ Idle.pc = "idle" /\ {Idle}' = {Idle} /\ EndedCalls' = EndedCalls
      /\ RunningCalls' = RunningCalls
  BY Zenon DEF Idle, EndedCalls, RunningCalls
<1>4. NoResponse' = NoResponse /\ Failed' = Failed
  BY Zenon DEF NoResponse, Failed
<1>5. CASE RespondsNative
  <2>1. /\ native' = [active |-> TRUE, stored |-> Newest] /\ latest' = Newest /\ call' = Idle
        /\ UNCHANGED <<requests, reply>> /\ call.use = "native" /\ call.pc = "await"
    BY <1>5, Zenon DEF RespondsNative, ResponseReady
  <2>2. Of(requests, Newest, Default) /\ Newest \in Nat
    BY <1>0, <1>2, <2>1, SentFacts, Zenon DEF AnswerInv, Newest
  <2>3. native' \in [active : BOOLEAN, stored : Nat] /\ native'.stored = Newest /\ native'.active
    BY <2>1, <2>2, Zenon
  <2>4. Ready'
    BY <1>0, <1>4, <2>2, <2>3, SentFacts, Zenon DEF Ready, Of
  <2>5. ~Running' /\ call'.pc = "idle"
    BY <1>3, <2>1, Zenon DEF Running
  <2>6. ExchangeTypes'
    BY <1>0, <1>1, <1>3, <2>1, <2>2, <2>3, Zenon DEF ExchangeTypes
  <2>7. BodyInv'
    BY <1>0, <1>1, <2>1, <2>5, BodyStill, Zenon
  <2>8. AnswerInv'
    BY <1>1, <1>2, <1>4, <2>1, <2>2, <2>3, <2>4, <2>5, Zenon DEF AnswerInv
  <2> QED BY <2>6, <2>7, <2>8, Zenon DEF ExchangeInv
<1>6. CASE RequestFails
  <2>1. /\ requests' = IF call.pc = "await" /\ Uploading(Newest)
                   THEN [requests EXCEPT ![Newest].upload = "failed"] ELSE requests
        /\ latest' = latest
    BY <1>6, Zenon DEF RequestFails
  <2>2. UploadEnds(requests, requests')
    <3>1. CASE requests' = requests
      BY <1>0, <3>1, Zenon DEF UploadEnds, ExchangeTypes
    <3>2. CASE call.pc = "await" /\ requests' = [requests EXCEPT ![Newest].upload = "failed"]
      <4>1. Newest \in DOMAIN requests
        BY <1>0, <3>2, Zenon DEF AnswerInv, Of
      <4> QED BY <1>0, <3>2, <4>1, EndedUpload, Zenon
    <3> QED BY <2>1, <3>1, <3>2, Zenon
  <2>3. /\ requests' \in Seq(RequestRecords) /\ Len(requests') = Len(requests) /\ DOMAIN requests' = DOMAIN requests
        /\ \A j \in DOMAIN requests : requests'[j].h = requests[j].h
        /\ \A j \in DOMAIN requests : RequestOK(requests[j], inbound) => RequestOK(requests'[j], inbound)
    BY <1>0, <2>2, Zenon DEF UploadEnds
  <2>4. ASSUME call'.pc # "try" PROVE BodyInv'
    BY <1>0, <1>1, <2>3, <2>4, Zenon DEF BodyInv
  <2>5. CASE call.use = "native"
    <3>1. native' = [active |-> TRUE, stored |-> Failed] /\ call' = Idle /\ reply' = reply
      BY <1>6, <2>5, Zenon DEF RequestFails
    <3>2. /\ native' \in [active : BOOLEAN, stored : Nat] /\ native'.stored = Failed
          /\ native'.active
      BY <1>0, <3>1, SentFacts, Zenon
    <3>3. ~Ready' /\ ~Ready
      BY <1>2, <1>4, <2>5, <3>2, Zenon DEF Ready
    <3>4. ~Running' /\ call'.pc = "idle"
      BY <1>3, <3>1, Zenon DEF Running
    <3>5. ExchangeTypes'
      BY <1>0, <1>1, <1>3, <2>1, <2>3, <3>1, <3>2, Zenon DEF ExchangeTypes
    <3>6. BodyInv'
      BY <2>4, <3>4, Zenon
    <3>7. \A r, h : Of(requests, r, h) => Of(requests', r, h)
      BY <2>3, Zenon DEF Of
    <3>8. AnswerInv'
      BY <1>1, <1>2, <1>4, <2>1, <2>3, <3>1, <3>2, <3>3, <3>4, <3>7, Zenon DEF AnswerInv
    <3> QED BY <3>5, <3>6, <3>8, Zenon DEF ExchangeInv
  <2>6. CASE call.use # "native"
    <3>1. HostError /\ native' = native
      BY <1>6, <2>6, Zenon DEF RequestFails
    <3>2. call' \in EndedCalls /\ call'.pc = "over" /\ reply' \in Nat
      BY <1>0, <3>1, SentFacts, Zenon DEF HostError, EndedCalls
    <3>3. ExchangeTypes'
      BY <1>0, <1>1, <1>3, <2>1, <2>3, <3>1, <3>2, Zenon DEF ExchangeTypes
    <3>4. BodyInv'
      BY <2>4, <3>2, Zenon
    <3>5. AnswerInv'
      BY <1>0, <1>1, <2>3, <3>1, AnswerError, Zenon
    <3> QED BY <3>3, <3>4, <3>5, Zenon DEF ExchangeInv
  <2> QED BY <2>5, <2>6, Zenon
<1> QED BY <1>5, <1>6, Zenon

\* The answer, from a native response or from an exchange.
LEMMA ResolvingKeeps ==
    ASSUME ExchangeInv, NEW route \in {"graph", "shortcut"},
           ResolveNative(route) \/ ResolveExchange(route)
    PROVE  ExchangeInv'
<1>0. /\ ExchangeTypes /\ AnswerInv /\ BodyInv /\ Default \in ExchangeHandles
      /\ native \in [active : BOOLEAN, stored : Nat]
      /\ source.of \in ExchangeHandles \cup {"none"}
  BY Zenon DEF ExchangeInv, ExchangeTypes, ExchangeHandles
<1>1. call.pc = "idle" /\ call.pc # "over" /\ UNCHANGED <<requests, latest>>
  BY Zenon DEF ResolveNative, ResolveExchange
<1>2. /\ Graph.of = IF native.stored # NoResponse THEN "native"
                    ELSE IF source.of # "none" THEN source.of ELSE Default
      /\ Snapshot.of = IF source.of # "none" THEN source.of ELSE Default
      /\ Shortcut.of = IF NativeAnswers THEN "native"
                       ELSE IF SnapshotAnswers THEN Snapshot.of ELSE Graph.of
  BY Zenon DEF Graph, Snapshot, Shortcut
<1>3. "native" \notin ExchangeHandles /\ source.of # "native"
  BY <1>0, Zenon DEF ExchangeHandles, Default, Dynamic
<1>4. Choice(route).of = IF route = "graph" THEN Graph.of ELSE Shortcut.of
  BY Zenon DEF Choice
<1>5. CASE ResolveExchange(route)
  <2>1. Choice(route).of # "native" /\ Start(Choice(route).of, route)
    BY <1>5, Zenon DEF ResolveExchange
  <2>2. Choice(route).of \in ExchangeHandles
    BY <1>0, <1>2, <1>4, <2>1
  <2>3. route = "graph" => ~Ready
    BY <1>2, <1>4, <2>1, Zenon DEF Ready
  <2>4. route = "shortcut" /\ Ready => exch[Default].read
    <3>1. route = "shortcut" => ~NativeAnswers
      BY <1>2, <1>4, <2>1, Zenon
    <3> QED BY <1>0, <3>1, Zenon DEF NativeAnswers, Ready, AnswerInv
  <2>5. route \in Uses \ {"native"}
    BY Zenon DEF Uses
  <2> QED BY <1>1, <2>1, <2>2, <2>3, <2>4, <2>5, StartKeeps, Zenon
<1>6. CASE ResolveNative(route)
  <2>1. /\ Choice(route).of = "native" /\ native' = [active |-> FALSE, stored |-> NoResponse]
        /\ reply' = native.stored /\ call' = [pc |-> "over", use |-> route]
        /\ UNCHANGED <<inbound, exch, source>>
    BY <1>6, Zenon DEF ResolveNative
  <2>2. /\ native' \in [active : BOOLEAN, stored : Nat] /\ native'.stored = NoResponse
        /\ reply' \in Nat
    BY <1>0, <2>1, Zenon DEF NoResponse
  <2>3. call' \in EndedCalls /\ call'.pc = "over"
    BY <2>1, Zenon DEF EndedCalls
  <2>4. {Idle}' = {Idle} /\ EndedCalls' = EndedCalls /\ RunningCalls' = RunningCalls
        /\ NoResponse' = NoResponse
    BY Zenon DEF Idle, EndedCalls, RunningCalls, NoResponse
  <2>5. ExchangeTypes'
    BY <1>0, <1>1, <2>1, <2>2, <2>3, <2>4, Zenon DEF ExchangeTypes
  <2>6. BodyInv'
    BY <1>0, <1>1, <2>1, <2>3, BodyStill, Zenon
  <2>7. reply' \in DOMAIN requests => reply' = latest
    BY <1>0, <1>1, <2>1, SentFacts, Zenon DEF AnswerInv, Ready
  <2>8. ~Ready' /\ ~Running' /\ call'.pc # "await"
    BY <2>2, <2>3, <2>4, Zenon DEF Ready, Running
  <2>9. \A h \in ExchangeHandles : exch[h].response # NoResponse => Of(requests, exch[h].response, h)
    BY <1>0, Zenon DEF AnswerInv
  <2>10. AnswerInv'
    BY <1>1, <2>1, <2>2, <2>3, <2>4, <2>7, <2>8, <2>9, Zenon DEF AnswerInv
  <2> QED BY <2>5, <2>6, <2>10, Zenon DEF ExchangeInv
<1> QED BY <1>5, <1>6, Zenon

LEMMA ExchangeInitially ==
    ASSUME ExchangeInit
    PROVE  ExchangeInv /\ NativeOnHttp1
<1>1. /\ call = Idle /\ Idle.pc = "idle" /\ requests = <<>> /\ latest = 0 /\ reply = 0
      /\ native = [active |-> FALSE, stored |-> 0]
      /\ exch = [h \in ExchangeHandles |-> NewExchange]
      /\ source.of = "none" /\ Default \in ExchangeHandles
  BY Zenon DEF ExchangeInit, Idle, NoResponse, ExchangeHandles
<1>2. PICK n \in Lengths : \E a \in 0 .. n :
        inbound = [length |-> n, arrives |-> a, buffered |-> 0, offset |-> 0,
                   eof |-> FALSE, told |-> FALSE]
  BY Zenon DEF ExchangeInit
<1>3. n \in Nat /\ MaxRequests \in Nat
  BY ExchangeAssumption, Zenon
<1>4. inbound \in InboundRecords /\ InboundOK(inbound)
  BY <1>2, <1>3 DEF InboundRecords, InboundOK
<1>5. NewExchange \in ExchRecords /\ NewExchange.response = 0
  BY DEF NewExchange, ExchRecords, ViaSeqs, Vias, NoResponse
<1>6. native \in [active : BOOLEAN, stored : Nat] /\ native.stored = 0
  BY <1>1, Zenon
<1>7. requests \in Seq(RequestRecords) /\ Len(requests) = 0 /\ DOMAIN requests = {}
  BY <1>1
<1>8. exch \in [ExchangeHandles -> ExchRecords] /\ \A h \in ExchangeHandles : exch[h].response = 0
  BY <1>1, <1>5, Zenon
<1>9. ExchangeTypes
  BY <1>1, <1>3, <1>4, <1>6, <1>7, <1>8 DEF ExchangeTypes
<1>10. ~Running /\ ~Ready /\ call.pc = "idle"
  BY <1>1, <1>6, Zenon DEF Running, Ready, NoResponse
<1>11. AnswerInv
  BY <1>1, <1>6, <1>7, <1>8, <1>10, Zenon DEF AnswerInv, NoResponse
<1>12. BodyInv
  BY <1>4, <1>7, <1>10, Zenon DEF BodyInv
<1> QED BY <1>9, <1>10, <1>11, <1>12, Zenon DEF ExchangeInv, NativeOnHttp1

LEMMA ExchangeStep ==
    ASSUME ExchangeInv /\ NativeOnHttp1, [ExchangeNext]_exchangeVars
    PROVE  (ExchangeInv /\ NativeOnHttp1)'
<1>1. CASE ExchangeNext
  <2>1. NativeOnHttp1'
    BY <1>1, NativeKeeps, Zenon
  <2>2. ASSUME NEW h \in ExchangeHandles,
               SetTarget(h) \/ SetVersion(h) \/ SetBody(h) \/ Attach(h) \/ Send(h)
                 \/ ReadResponse(h) \/ ApplyExchange(h)
        PROVE  ExchangeInv'
    BY <2>2, SettingKeeps, CallsKeep, Zenon
  <2>3. CASE ReadChunk \/ ReadBody \/ ReadFails
    BY <2>3, <2>1, ReadingKeeps, Zenon
  <2>4. CASE Forward \/ FallsBack
    BY <2>4, <2>1, ForwardKeeps, Zenon
  <2>5. CASE SendUpstream
    BY <2>5, <2>1, SendingKeeps, Zenon
  <2>6. CASE UploadChunk \/ UploadBreaks \/ UploadFails
    BY <2>6, <2>1, UploadingKeeps, Zenon
  <2>7. CASE RespondsHttp1 \/ RespondsHttp2 \/ RespondsHttp3 \/ RespondsAttached
    BY <2>7, <2>1, RespondingKeeps, Zenon
  <2>8. CASE RespondsNative \/ RequestFails
    BY <2>8, <2>1, EndingKeeps, Zenon
  <2>9. ASSUME NEW route \in {"graph", "shortcut"},
               ResolveNative(route) \/ ResolveExchange(route)
        PROVE  ExchangeInv'
    BY <2>9, ResolvingKeeps, Zenon
  <2>10. ExchangeInv'
    BY <1>1, <2>2, <2>3, <2>4, <2>5, <2>6, <2>7, <2>8, <2>9, Zenon DEF ExchangeNext
  <2> QED BY <2>1, <2>10, Zenon
<1>2. CASE UNCHANGED exchangeVars
  <2>1. UNCHANGED <<inbound, exch, native, call, requests, latest, source, reply>>
    BY <1>2, Zenon DEF exchangeVars
  <2>2. ExchangeTypes /\ AnswerInv /\ BodyInv
    BY Zenon DEF ExchangeInv
  <2>3. AnswerInv'
    BY <2>1, <2>2, AnswerQuiet, Zenon
  <2>4. BodyInv'
    BY <2>1, <2>2, Zenon DEF BodyInv
  <2>5. {Idle}' = {Idle} /\ EndedCalls' = EndedCalls /\ RunningCalls' = RunningCalls
    BY Zenon DEF Idle, EndedCalls, RunningCalls
  <2>6. ExchangeTypes'
    BY <2>1, <2>2, <2>5, Zenon DEF ExchangeTypes
  <2>7. NativeOnHttp1'
    BY <2>1, Zenon DEF NativeOnHttp1, Running, Newest
  <2> QED BY <2>3, <2>4, <2>6, <2>7, Zenon DEF ExchangeInv
<1> QED BY <1>1, <1>2, Zenon

\* The invariant holds throughout, for every program and upstream.
THEOREM ExchangeInvariant == ExchangeSpec => [](ExchangeInv /\ NativeOnHttp1)
<1>1. ExchangeInit => ExchangeInv /\ NativeOnHttp1
  BY ExchangeInitially, Zenon
<1>2. (ExchangeInv /\ NativeOnHttp1) /\ [ExchangeNext]_exchangeVars
        => (ExchangeInv /\ NativeOnHttp1)'
  BY ExchangeStep, Zenon
<1> QED BY <1>1, <1>2, PTL DEF ExchangeSpec

\* For bodies of any length, and any number of requests and calls: a request of the
\* default exchange that is sent to its end carries the whole inbound body once, or the
\* body set instead, whatever the program read of it before and whichever transports
\* were tried.  It ends a body that broke off only after a reader was told (default_upstream_outbound_http1_request_body_template,
\* stream_remaining_inbound_request_body).
THEOREM BodiesAreWhole == ExchangeSpec => []WholeBody
<1>1. ExchangeInv => WholeBody
  <2> SUFFICES ASSUME ExchangeInv, NEW k \in DOMAIN requests,
                      requests[k].upload = "done", ~requests[k].shared
               PROVE  IF requests[k].own THEN requests[k].body = OwnBody
                      ELSE IF requests[k].h # Default THEN requests[k].body = <<>>
                      ELSE /\ requests[k].body = Arrived
                           /\ inbound.arrives = inbound.length \/ inbound.told
    BY Zenon DEF WholeBody
  <2>1. RequestOK(requests[k], inbound)
    BY Zenon DEF ExchangeInv, BodyInv
  <2>2. Arrived = UpTo(inbound.arrives)
    BY Zenon DEF Arrived, UpTo
  <2> QED BY <2>1, <2>2, Zenon DEF RequestOK, Carried, EndKnown
<1> QED BY <1>1, ExchangeInvariant, PTL

\* However the program interleaves native forwards, sends and reads, a client answered by
\* the default upstream gets the last response it gave (the shortcut excepted once the
\* program read the default exchange's body), and an exchange holds only responses to its
\* own requests (start_outbound_exchange_response, store_response).
THEOREM AnswersAreLatest == ExchangeSpec => []AnswerIsLatest
<1>1. ExchangeInv => AnswerIsLatest
  <2>1. ExchangeInv => AnswerInv
    BY Zenon DEF ExchangeInv
  <2>2. AnswerInv => AnswerIsLatest
    BY Zenon DEF AnswerInv, AnswerIsLatest, Of
  <2> QED BY <2>1, <2>2, Zenon
<1> QED BY <1>1, ExchangeInvariant, PTL
=============================================================================
