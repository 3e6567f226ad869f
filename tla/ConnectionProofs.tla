-------------------------- MODULE ConnectionProofs --------------------------
(***************************************************************************)
(* What the sessions with an upstream keep for every number of calls,      *)
(* packets, requests and streams: the outbound MQTT session, and the       *)
(* shared HTTP/2 session.                                                  *)
(***************************************************************************)
EXTENDS MqttConnection, Http2Upstream, TLAPS

-----------------------------------------------------------------------------
(* MQTT.  The bytes read and not decoded, followed by the bytes on the     *)
(* carrier, are one stream of packets: in step unless an error dropped     *)
(* half a packet, its acknowledgements confirmed by the broker, and its    *)
(* numbers after those queued, which are after those the program has seen. *)

AckTypes == {"puback", "suback", "unsuback"}
PacketTypes ==
    {"publish0", "publish1", "pingresp", "disconnect", "malformed", "connack"} \cup AckTypes
Packets == [type : PacketTypes, id : Nat, ok : BOOLEAN]
Pieces == [packet : Packets, piece : {1, 2}]
Events == [type : {"publish", "closed"}, id : Nat]

MqttRecords ==
    [phase : {"Inactive", "Configured", "CarrierAttached", "ConnectSent", "Open", "Closed",
              "Failed"},
     target : BOOLEAN, carrier : Nat, nextId : Nat, keepAlive : BOOLEAN, ping : BOOLEAN,
     buffer : Seq(Pieces), events : Seq(Events)]
CallRecords ==
    [kind : {"connect", "publish0", "publish1", "subscribe", "unsubscribe", "read_event",
             "disconnect"},
     pc : {"idle", "ensure", "connack", "send", "ack", "event"}, id : Nat, made : Nat]
WireRecords ==
    [pieces : Seq(Pieces), end : {"open", "fin", "reset"}, connected : BOOLEAN,
     ids : SUBSET (AckTypes \X Nat)]
SeenRecords ==
    [sent : Nat, published : Nat, acked : SUBSET Nat, got : Seq(Nat),
     confirmed : SUBSET (AckTypes \X Nat), done : SUBSET (AckTypes \X Nat \X BOOLEAN),
     aligned : BOOLEAN, orphans : SUBSET Nat]

MqttTypes ==
    /\ mqtt \in MqttRecords /\ mqttCall \in CallRecords
    /\ wire \in WireRecords /\ seen \in SeenRecords
    /\ mqttCall.pc = "idle" \/ mqttCall.kind \in MqttRequests \cup {"read_event"}
    /\ mqttCall.pc = "ack" => mqttCall.kind \in DOMAIN AckOf
    /\ carriers \in Nat /\ live \subseteq 1 .. carriers /\ mqtt.carrier <= carriers

Framed(q) ==
    /\ q # <<>> => q[1].piece = 1
    /\ \A i \in 1 .. Len(q) : i < Len(q) => q[i + 1].piece # q[i].piece

Whole(q) == Framed(q) /\ (q # <<>> => q[Len(q)].piece = 2)

Num(x) == x.piece = 1 /\ x.packet.type \in {"publish0", "publish1"}

Numbers(got) == {got[i] : i \in 1 .. Len(got)}
EventNumbers(ev) == {ev[i].id : i \in 1 .. Len(ev)} \ {0}
PieceNumbers(q) == {q[i].packet.id : i \in {j \in 1 .. Len(q) : Num(q[j])}}

Rising(got) == \A i, j \in 1 .. Len(got) : i < j => got[i] < got[j]
RisingEvents(ev) ==
    \A i, j \in 1 .. Len(ev) : i < j /\ ev[i].id # 0 /\ ev[j].id # 0 => ev[i].id < ev[j].id
RisingPieces(q) ==
    \A i, j \in 1 .. Len(q) : i < j /\ Num(q[i]) /\ Num(q[j]) => q[i].packet.id < q[j].packet.id
Below(A, B) == \A x \in A, y \in B : x < y

InOrder(got, ev, q, top) ==
    /\ Rising(got) /\ RisingEvents(ev) /\ RisingPieces(q)
    /\ Below(Numbers(got), EventNumbers(ev))
    /\ Below(Numbers(got), PieceNumbers(q))
    /\ Below(EventNumbers(ev), PieceNumbers(q))
    /\ Numbers(got) \subseteq 0 .. top
    /\ EventNumbers(ev) \subseteq 0 .. top
    /\ PieceNumbers(q) \subseteq 0 .. top

Genuine(q, confirmed) ==
    \A i \in 1 .. Len(q) :
        LET p == q[i].packet IN p.ok /\ p.type \in AckTypes => <<p.type, p.id>> \in confirmed

StillHeld(s, ev) == \A m \in s.acked \ {0} : m \in Numbers(s.got) \cup EventNumbers(ev)
Confirmed(s) == \A d \in s.done : d[3] => <<d[1], d[2]>> \in s.confirmed

Stream(b, w, ev, s, open) ==
    /\ s.aligned => Framed(b) /\ (open => Whole(b \o w))
    /\ Genuine(b \o w, s.confirmed) /\ Confirmed(s)
    /\ InOrder(s.got, ev, b \o w, s.published) /\ StillHeld(s, ev)

MqttInv ==
    /\ MqttTypes /\ OneCarrier
    /\ Stream(mqtt.buffer, wire.pieces, mqtt.events, seen, mqtt.carrier \in live)

\* Bytes leave the front of the stream.
LEMMA SuffixPieces ==
    ASSUME NEW q \in Seq(Pieces), RisingPieces(q), NEW n \in 0 .. Len(q), NEW r,
           r = SubSeq(q, n + 1, Len(q))
    PROVE  /\ RisingPieces(r) /\ PieceNumbers(r) \subseteq PieceNumbers(q)
           /\ n > 0 /\ Num(q[1]) => Below({q[1].packet.id}, PieceNumbers(r))
<1>1. Len(q) \in Nat
  OBVIOUS
<1>2. Len(r) = Len(q) - n /\ \A i \in 1 .. Len(r) : r[i] = q[i + n]
  BY <1>1
<1>3. \A i \in 1 .. Len(r) : i + n \in 1 .. Len(q)
  BY <1>1, <1>2
<1>4. \A i, j \in 1 .. Len(r) : i < j => i + n < j + n
  BY <1>1, <1>2
<1>5. RisingPieces(r)
  BY <1>2, <1>3, <1>4 DEF RisingPieces
<1>6. PieceNumbers(r) \subseteq PieceNumbers(q)
  BY <1>2, <1>3 DEF PieceNumbers
<1>7. ASSUME n > 0, Num(q[1]), NEW x \in PieceNumbers(r) PROVE q[1].packet.id < x
  <2>1. PICK i \in 1 .. Len(r) : Num(r[i]) /\ x = r[i].packet.id
    BY Zenon DEF PieceNumbers
  <2>2. 1 \in 1 .. Len(q) /\ 1 < i + n
    BY <1>1, <1>2, <1>7
  <2>3. QED
    BY <1>2, <1>3, <1>7, <2>1, <2>2, Zenon DEF RisingPieces
<1>8. QED
  BY <1>5, <1>6, <1>7, Zenon DEF Below

\* An event is delivered.
LEMMA DeliverNumbers ==
    ASSUME NEW got \in Seq(Nat), NEW ev \in Seq(Events), ev # <<>>, Rising(got),
           RisingEvents(ev), Below(Numbers(got), EventNumbers(ev))
    PROVE  /\ Rising(Received(got, Head(ev))) /\ RisingEvents(Tail(ev))
           /\ Numbers(Received(got, Head(ev))) \subseteq Numbers(got) \cup EventNumbers(ev)
           /\ EventNumbers(Tail(ev)) \subseteq EventNumbers(ev)
           /\ Below(Numbers(Received(got, Head(ev))), EventNumbers(Tail(ev)))
<1> DEFINE e == ev[1]
           t == Tail(ev)
           g == Received(got, e)
<1>1. Head(ev) = e /\ Len(ev) \in Nat /\ Len(ev) > 0 /\ Len(t) = Len(ev) - 1 /\ Len(got) \in Nat
  OBVIOUS
<1>2. \A i \in 1 .. Len(t) : t[i] = ev[i + 1]
  OBVIOUS
<1>3. e \in Events
  BY <1>1
<1>4. e.id \in Nat
  BY <1>3, Zenon DEF Events
<1>5. \A i \in 1 .. Len(t) : i + 1 \in 1 .. Len(ev)
  BY <1>1
<1>6. e.id # 0 => e.id \in EventNumbers(ev)
  BY <1>1 DEF EventNumbers
<1> HIDE DEF e, t
<1>7. RisingEvents(t)
  <2>1. \A i, j \in 1 .. Len(t) : i < j => i + 1 < j + 1
    BY <1>1
  <2>2. QED
    BY <1>2, <1>5, <2>1, Zenon DEF RisingEvents
<1>8. EventNumbers(t) \subseteq EventNumbers(ev)
  BY <1>2, <1>5, Zenon DEF EventNumbers
<1>9. e.id # 0 => Below({e.id}, EventNumbers(t))
  <2> SUFFICES ASSUME e.id # 0, NEW x \in EventNumbers(t) PROVE e.id < x
    BY Zenon DEF Below
  <2>1. PICK i \in 1 .. Len(t) : x = t[i].id /\ x # 0
    BY Zenon DEF EventNumbers
  <2>2. 1 \in 1 .. Len(ev) /\ 1 < i + 1 /\ i + 1 \in 1 .. Len(ev)
    BY <1>1, <1>5
  <2>3. QED
    BY <1>2, <2>1, <2>2, Zenon DEF RisingEvents, e
<1>10. CASE e.id = 0
  <2>1. g = got
    BY <1>10, Zenon DEF Received
  <2>2. Below(Numbers(got), EventNumbers(t))
    BY <1>8, Zenon DEF Below
  <2>3. QED
    BY <1>1, <1>7, <1>8, <2>1, <2>2, Zenon DEF t
<1>11. CASE e.id # 0
  <2>1. g = Append(got, e.id)
    BY <1>11, Zenon DEF Received
  <2>2. /\ Len(g) = Len(got) + 1 /\ g[Len(got) + 1] = e.id
        /\ \A i \in 1 .. Len(got) : g[i] = got[i]
    BY <1>4, <2>1
  <2> HIDE DEF g
  <2>3. \A i \in 1 .. Len(g) : i \in 1 .. Len(got) \/ i = Len(got) + 1
    BY <1>1, <2>2
  <2>4. \A i \in 1 .. Len(got) : got[i] < e.id
    BY <1>6, <1>11, Zenon DEF Below, Numbers
  <2>5. Rising(g)
    <3> SUFFICES ASSUME NEW i \in 1 .. Len(g), NEW j \in 1 .. Len(g), i < j PROVE g[i] < g[j]
      BY Zenon DEF Rising
    <3>1. i \in 1 .. Len(got)
      BY <1>1, <2>2
    <3>2. QED
      BY <2>2, <2>3, <2>4, <3>1, Zenon DEF Rising
  <2>6. Numbers(g) \subseteq Numbers(got) \cup {e.id}
    BY <2>2, <2>3, Zenon DEF Numbers
  <2>7. Below(Numbers(g), EventNumbers(t))
    BY <1>8, <1>9, <1>11, <2>6, Zenon DEF Below
  <2>8. QED
    BY <1>1, <1>6, <1>7, <1>8, <1>11, <2>5, <2>6, <2>7, Zenon DEF t, g
<1>12. QED
  BY <1>10, <1>11, Zenon

\* An event is queued.
LEMMA QueueNumbers ==
    ASSUME NEW ev \in Seq(Events), RisingEvents(ev), NEW e \in Events,
           e.id # 0 => Below(EventNumbers(ev), {e.id})
    PROVE  /\ ev \o <<e>> \in Seq(Events) /\ RisingEvents(ev \o <<e>>)
           /\ EventNumbers(ev \o <<e>>) = EventNumbers(ev) \cup ({e.id} \ {0})
<1> DEFINE v == ev \o <<e>>
<1>1. v \in Seq(Events) /\ Len(v) = Len(ev) + 1 /\ Len(ev) \in Nat
  OBVIOUS
<1>2. v[Len(ev) + 1] = e /\ \A i \in 1 .. Len(ev) : v[i] = ev[i]
  OBVIOUS
<1> HIDE DEF v
<1>3. \A i \in 1 .. Len(v) : i \in 1 .. Len(ev) \/ i = Len(ev) + 1
  BY <1>1
<1>4. \A i \in 1 .. Len(ev) : e.id # 0 /\ ev[i].id # 0 => ev[i].id < e.id
  BY Zenon DEF Below, EventNumbers
<1>5. RisingEvents(v)
  <2> SUFFICES ASSUME NEW i \in 1 .. Len(v), NEW j \in 1 .. Len(v), i < j,
                      v[i].id # 0, v[j].id # 0
               PROVE  v[i].id < v[j].id
    BY Zenon DEF RisingEvents
  <2>1. i \in 1 .. Len(ev)
    BY <1>1
  <2>2. QED
    BY <1>2, <1>3, <1>4, <2>1, Zenon DEF RisingEvents
<1>6. EventNumbers(v) = EventNumbers(ev) \cup ({e.id} \ {0})
  <2>1. Len(ev) + 1 \in 1 .. Len(v) /\ 1 .. Len(ev) \subseteq 1 .. Len(v)
    BY <1>1
  <2>2. QED
    BY <1>2, <1>3, <2>1, Zenon DEF EventNumbers
<1>7. QED
  BY <1>1, <1>5, <1>6, Zenon DEF v

\* The broker sends a packet in its two pieces.
LEMMA SendNumbers ==
    ASSUME NEW q \in Seq(Pieces), RisingPieces(q), NEW p \in Packets,
           p.type \in {"publish0", "publish1"} => Below(PieceNumbers(q), {p.id}),
           NEW r, r = q \o <<[packet |-> p, piece |-> 1], [packet |-> p, piece |-> 2]>>
    PROVE  /\ r \in Seq(Pieces) /\ RisingPieces(r)
           /\ PieceNumbers(r) \subseteq
                  PieceNumbers(q) \cup (IF p.type \in {"publish0", "publish1"} THEN {p.id} ELSE {})
<1> DEFINE a == [packet |-> p, piece |-> 1]
           b == [packet |-> p, piece |-> 2]
<1>1. a.packet = p /\ ~Num(b) /\ (Num(a) <=> p.type \in {"publish0", "publish1"})
  BY DEF Num
<1>2. a \in Pieces /\ b \in Pieces
  BY Zenon DEF Pieces
<1>3. r = q \o <<a, b>>
  BY Zenon
<1> HIDE DEF a, b
<1>4. r \in Seq(Pieces) /\ Len(r) = Len(q) + 2 /\ Len(q) \in Nat
  BY <1>2, <1>3
<1>5. r[Len(q) + 1] = a /\ r[Len(q) + 2] = b /\ \A i \in 1 .. Len(q) : r[i] = q[i]
  BY <1>2, <1>3
<1>6. \A i \in 1 .. Len(r) : i \in 1 .. Len(q) \/ i = Len(q) + 1 \/ i = Len(q) + 2
  <2>1. \A m, n \in Nat : m = n + 2 =>
            \A i \in 1 .. m : i \in 1 .. n \/ i = n + 1 \/ i = n + 2
    OBVIOUS
  <2>2. Len(r) \in Nat
    BY <1>4
  <2>3. QED
    BY <1>4, <2>1, <2>2, Zenon
<1>7. \A i \in 1 .. Len(q) : Num(q[i]) /\ Num(a) => q[i].packet.id < p.id
  BY <1>1, Zenon DEF Below, PieceNumbers
<1>8. RisingPieces(r)
  <2> SUFFICES ASSUME NEW i \in 1 .. Len(r), NEW j \in 1 .. Len(r), i < j, Num(r[i]), Num(r[j])
               PROVE  r[i].packet.id < r[j].packet.id
    BY Zenon DEF RisingPieces
  <2>1. j # Len(q) + 2 /\ i # Len(q) + 2
    BY <1>1, <1>5, Zenon
  <2>2. i \in 1 .. Len(q)
    BY <1>4, <1>6, <2>1
  <2>3. QED
    BY <1>1, <1>5, <1>6, <1>7, <2>1, <2>2, Zenon DEF RisingPieces
<1>9. PieceNumbers(r) \subseteq
          PieceNumbers(q) \cup (IF p.type \in {"publish0", "publish1"} THEN {p.id} ELSE {})
  BY <1>1, <1>5, <1>6 DEF PieceNumbers
<1>10. QED
  BY <1>4, <1>8, <1>9, Zenon

\* The same for the whole order.
LEMMA OrderSuffix ==
    ASSUME NEW got, NEW ev, NEW q \in Seq(Pieces), NEW top, InOrder(got, ev, q, top),
           NEW n \in 0 .. Len(q), NEW r, r = SubSeq(q, n + 1, Len(q))
    PROVE  InOrder(got, ev, r, top)
<1>1. RisingPieces(r) /\ PieceNumbers(r) \subseteq PieceNumbers(q)
  BY SuffixPieces, Zenon DEF InOrder
<1>2. QED
  BY <1>1, Zenon DEF InOrder, Below

LEMMA OrderDeliver ==
    ASSUME NEW got \in Seq(Nat), NEW ev \in Seq(Events), NEW q, NEW top,
           InOrder(got, ev, q, top), ev # <<>>
    PROVE  InOrder(Received(got, Head(ev)), Tail(ev), q, top)
<1> DEFINE g == Received(got, Head(ev))
           t == Tail(ev)
<1>1. /\ Rising(g) /\ RisingEvents(t)
      /\ Numbers(g) \subseteq Numbers(got) \cup EventNumbers(ev)
      /\ EventNumbers(t) \subseteq EventNumbers(ev)
      /\ Below(Numbers(g), EventNumbers(t))
  BY DeliverNumbers, Zenon DEF InOrder
<1> HIDE DEF g, t
<1>2. InOrder(g, t, q, top)
  BY <1>1, Zenon DEF InOrder, Below
<1>3. QED
  BY <1>2, Zenon DEF g, t

LEMMA OrderQueue ==
    ASSUME NEW got, NEW ev \in Seq(Events), NEW q, NEW top,
           InOrder(got, ev, q, top), NEW e \in Events,
           e.id # 0 => /\ e.id \in 0 .. top /\ Below(Numbers(got), {e.id})
                       /\ Below(EventNumbers(ev), {e.id}) /\ Below({e.id}, PieceNumbers(q))
    PROVE  ev \o <<e>> \in Seq(Events) /\ InOrder(got, ev \o <<e>>, q, top)
<1> DEFINE v == ev \o <<e>>
<1>1. /\ v \in Seq(Events) /\ RisingEvents(v)
      /\ EventNumbers(v) = EventNumbers(ev) \cup ({e.id} \ {0})
  BY QueueNumbers, Zenon DEF InOrder
<1> HIDE DEF v
<1>2. Below(Numbers(got), EventNumbers(v)) /\ Below(EventNumbers(v), PieceNumbers(q))
  BY <1>1, Zenon DEF InOrder, Below
<1>3. EventNumbers(v) \subseteq 0 .. top
  BY <1>1, Zenon DEF InOrder
<1>4. InOrder(got, v, q, top)
  BY <1>1, <1>2, <1>3, Zenon DEF InOrder
<1>5. QED
  BY <1>1, <1>4, Zenon DEF v

LEMMA OrderSend ==
    ASSUME NEW got, NEW ev, NEW q \in Seq(Pieces), NEW top \in Nat, NEW new \in Nat,
           InOrder(got, ev, q, top), NEW p \in Packets, top <= new,
           p.type \in {"publish0", "publish1"} => p.id = top + 1 /\ new = top + 1,
           NEW r, r = q \o <<[packet |-> p, piece |-> 1], [packet |-> p, piece |-> 2]>>
    PROVE  r \in Seq(Pieces) /\ InOrder(got, ev, r, new)
<1> DEFINE N == IF p.type \in {"publish0", "publish1"} THEN {p.id} ELSE {}
<1>1. \A x \in 0 .. top : x \in Nat /\ x < top + 1 /\ x \in 0 .. new
  OBVIOUS
<1>2. /\ \A x \in PieceNumbers(q) : x < top + 1
      /\ Below(Numbers(got), N) /\ Below(EventNumbers(ev), N) /\ N \subseteq 0 .. new
      /\ Numbers(got) \subseteq 0 .. new /\ EventNumbers(ev) \subseteq 0 .. new
      /\ PieceNumbers(q) \subseteq 0 .. new
  BY <1>1 DEF InOrder, Below
<1>3. p.type \in {"publish0", "publish1"} => Below(PieceNumbers(q), {p.id})
  BY <1>2, Zenon DEF Below
<1>4. r \in Seq(Pieces) /\ RisingPieces(r) /\ PieceNumbers(r) \subseteq PieceNumbers(q) \cup N
  BY <1>3, SendNumbers, Zenon DEF InOrder
<1> HIDE DEF N
<1>5. QED
  BY <1>2, <1>4, Zenon DEF InOrder, Below

\* A stream that loses whole packets at its front stays framed.
LEMMA FramedSuffix ==
    ASSUME NEW q \in Seq(Pieces), Framed(q), NEW n \in 0 .. Len(q), n > 0 => q[n].piece = 2,
           NEW r, r = SubSeq(q, n + 1, Len(q))
    PROVE  Framed(r) /\ (Whole(q) => Whole(r))
<1>1. Len(q) \in Nat /\ n \in Nat
  OBVIOUS
<1>2. r \in Seq(Pieces) /\ Len(r) = Len(q) - n /\ \A i \in 1 .. Len(r) : r[i] = q[i + n]
  BY <1>1
<1>3. \A i \in 1 .. Len(r) : i + n \in 1 .. Len(q) /\ (i < Len(r) => i + 1 \in 1 .. Len(r)
          /\ i + n < Len(q) /\ (i + 1) + n = (i + n) + 1)
  BY <1>1, <1>2
<1>4. ASSUME NEW i \in 1 .. Len(r), i < Len(r) PROVE r[i + 1].piece # r[i].piece
  <2>1. /\ i + n \in 1 .. Len(q) /\ i + n < Len(q) /\ (i + 1) + n = (i + n) + 1
        /\ r[i] = q[i + n] /\ r[i + 1] = q[(i + 1) + n]
    BY <1>2, <1>3, <1>4, Zenon
  <2>2. q[(i + n) + 1].piece # q[i + n].piece
    BY <2>1, Zenon DEF Framed
  <2> QED BY <2>1, <2>2, Zenon
<1>5. ASSUME r # <<>> PROVE r[1].piece = 1 /\ r[Len(r)] = q[Len(q)] /\ q # <<>>
  <2>1. Len(r) > 0 /\ n < Len(q)
    <3>1. Len(r) # 0 /\ Len(r) \in Nat
      BY <1>2, <1>5
    <3>2. QED
      BY <1>1, <1>2, <3>1
  <2>2. r[1] = q[n + 1] /\ r[Len(r)] = q[Len(q)] /\ q # <<>>
    <3>1. 1 \in 1 .. Len(r) /\ Len(r) \in 1 .. Len(r) /\ 1 + n = n + 1 /\ Len(r) + n = Len(q)
      <4>1. \A k, l, j \in Nat :
              k = l - j /\ k > 0 => 1 \in 1 .. k /\ k \in 1 .. k /\ 1 + j = j + 1 /\ k + j = l
        OBVIOUS
      <4>2. Len(r) \in Nat
        BY <1>2
      <4>3. QED
        BY <1>1, <1>2, <2>1, <4>1, <4>2, Zenon
    <3>2. r[1] = q[1 + n] /\ r[Len(r)] = q[Len(r) + n]
      BY <1>2, <3>1, Zenon
    <3>3. q # <<>>
      BY <2>1
    <3>4. QED
      BY <3>1, <3>2, <3>3, Zenon
  <2>3. q[n + 1].piece \in {1, 2}
    <3>1. n + 1 \in 1 .. Len(q)
      BY <1>1, <2>1
    <3>2. q[n + 1] \in Pieces
      BY <3>1
    <3>3. QED
      BY <3>2, Zenon DEF Pieces
  <2>4. CASE n = 0
    BY <2>1, <2>2, <2>4 DEF Framed
  <2>5. CASE n > 0
    <3>1. n \in 1 .. Len(q)
      BY <1>1, <2>1, <2>5
    <3>2. q[n + 1].piece # q[n].piece
      BY <2>1, <3>1, Zenon DEF Framed
    <3>3. QED
      BY <2>2, <2>3, <2>5, <3>2, Zenon
  <2>6. n = 0 \/ n > 0
    BY <1>1
  <2>7. QED
    BY <2>2, <2>4, <2>5, <2>6, Zenon
<1>6. QED
  BY <1>4, <1>5, Zenon DEF Framed, Whole

LEMMA FramedPrefix ==
    ASSUME NEW q \in Seq(Pieces), Framed(q), NEW n \in 0 .. Len(q), NEW r, r = SubSeq(q, 1, n)
    PROVE  Framed(r)
<1>1. Len(q) \in Nat /\ n \in Nat
  OBVIOUS
<1>2. r \in Seq(Pieces) /\ Len(r) = n /\ \A i \in 1 .. n : r[i] = q[i]
  BY <1>1
<1>3. \A i \in 1 .. n : i \in 1 .. Len(q) /\ (i < n => i + 1 \in 1 .. n /\ i < Len(q))
  BY <1>1
<1>4. r # <<>> => 1 \in 1 .. n /\ q # <<>>
  BY <1>1, <1>2
<1>5. QED
  BY <1>2, <1>3, <1>4, Zenon DEF Framed

LEMMA WholeSend ==
    ASSUME NEW q \in Seq(Pieces), Whole(q), NEW p \in Packets,
           NEW r, r = q \o <<[packet |-> p, piece |-> 1], [packet |-> p, piece |-> 2]>>
    PROVE  Whole(r)
<1> DEFINE a == [packet |-> p, piece |-> 1]
           b == [packet |-> p, piece |-> 2]
<1>1. a \in Pieces /\ b \in Pieces /\ a.piece = 1 /\ b.piece = 2
  BY Zenon DEF Pieces
<1>2. r = q \o <<a, b>>
  BY Zenon
<1> HIDE DEF a, b
<1>3. r \in Seq(Pieces) /\ Len(r) = Len(q) + 2 /\ Len(q) \in Nat
  BY <1>1, <1>2
<1>4. r[Len(q) + 1] = a /\ r[Len(q) + 2] = b /\ \A i \in 1 .. Len(q) : r[i] = q[i]
  BY <1>1, <1>2
<1>5. \A i \in 1 .. Len(r) : i < Len(r) =>
          (i \in 1 .. Len(q) /\ i < Len(q) /\ i + 1 \in 1 .. Len(q)) \/ (i = Len(q)
          /\ i > 0) \/ i = Len(q) + 1
  <2>1. \A m, n \in Nat : m = n + 2 => \A i \in 1 .. m : i < m =>
            (i \in 1 .. n /\ i < n /\ i + 1 \in 1 .. n) \/ (i = n /\ i > 0) \/ i = n + 1
    OBVIOUS
  <2>2. Len(r) \in Nat
    BY <1>3
  <2>3. QED
    BY <1>3, <2>1, <2>2, Zenon
<1>6. r[1].piece = 1
  <2>1. CASE q = <<>>
    BY <1>1, <1>3, <1>4, <2>1
  <2>2. CASE q # <<>>
    BY <1>3, <1>4, <2>2 DEF Whole, Framed
  <2>3. QED
    BY <2>1, <2>2, Zenon
<1>7. \A i \in 1 .. Len(r) : i < Len(r) => r[i + 1].piece # r[i].piece
  <2> SUFFICES ASSUME NEW i \in 1 .. Len(r), i < Len(r)
               PROVE  r[i + 1].piece # r[i].piece
    BY Zenon
  <2>1. CASE i \in 1 .. Len(q) /\ i < Len(q) /\ i + 1 \in 1 .. Len(q)
    BY <1>4, <2>1, Zenon DEF Whole, Framed
  <2>2. CASE i = Len(q) /\ i > 0
    BY <1>1, <1>3, <1>4, <2>2 DEF Whole
  <2>3. CASE i = Len(q) + 1
    BY <1>1, <1>3, <1>4, <2>3
  <2>4. QED
    BY <1>5, <2>1, <2>2, <2>3, Zenon
<1>8. r[Len(r)].piece = 2
  BY <1>1, <1>3, <1>4, Zenon
<1>9. QED
  BY <1>6, <1>7, <1>8, Zenon DEF Whole, Framed

\* What is read in front of a stream, and what stays behind it.
LEMMA SamePieces ==
    ASSUME NEW y \in Seq(Pieces), NEW z \in Seq(Pieces), Len(y) = Len(z),
           \A i \in 1 .. Len(y) : y[i] = z[i]
    PROVE  y = z
  OBVIOUS

LEMMA CatPieces ==
    ASSUME NEW y \in Seq(Pieces), NEW z \in Seq(Pieces)
    PROVE  /\ y \o z \in Seq(Pieces) /\ Len(y \o z) = Len(y) + Len(z)
           /\ \A i \in 1 .. Len(y) : (y \o z)[i] = y[i]
           /\ \A i \in 1 .. Len(z) : (y \o z)[Len(y) + i] = z[i]
  OBVIOUS

LEMMA CatAssociates ==
    \A x, y, z \in Seq(Pieces) : x \o (y \o z) = (x \o y) \o z
  OBVIOUS

LEMMA SuffixElements ==
    ASSUME NEW q \in Seq(Pieces), NEW n \in Nat, n <= Len(q)
    PROVE  LET z == SubSeq(q, n + 1, Len(q)) IN
           z \in Seq(Pieces) /\ Len(z) = Len(q) - n /\ \A i \in 1 .. Len(z) : z[i] = q[i + n]
  OBVIOUS

LEMMA SuffixOfBoth ==
    ASSUME NEW b \in Seq(Pieces), NEW w \in Seq(Pieces), NEW n \in 0 .. Len(b)
    PROVE  /\ n \in 0 .. Len(b \o w)
           /\ SubSeq(b, n + 1, Len(b)) \o w = SubSeq(b \o w, n + 1, Len(b \o w))
<1> DEFINE q == b \o w
           x == SubSeq(b, n + 1, Len(b))
           y == x \o w
           z == SubSeq(q, n + 1, Len(q))
<1>1. Len(b) \in Nat /\ Len(w) \in Nat /\ n \in Nat
  OBVIOUS
<1>2. q \in Seq(Pieces) /\ Len(q) = Len(b) + Len(w)
  OBVIOUS
<1>3. x \in Seq(Pieces) /\ Len(x) = Len(b) - n /\ \A i \in 1 .. Len(x) : x[i] = b[i + n]
  BY <1>1
<1>4. /\ \A i \in 1 .. Len(b) : q[i] = b[i]
      /\ \A i \in 1 .. Len(w) : q[Len(b) + i] = w[i]
  OBVIOUS
<1> HIDE DEF q, x
<1>5. y \in Seq(Pieces) /\ Len(y) = Len(x) + Len(w)
  BY <1>3, CatPieces, Zenon
<1>6. /\ \A i \in 1 .. Len(x) : y[i] = x[i]
      /\ \A i \in 1 .. Len(w) : y[Len(x) + i] = w[i]
  BY <1>3, CatPieces, Zenon
<1> HIDE DEF y
<1>7. z \in Seq(Pieces) /\ Len(z) = Len(q) - n /\ \A i \in 1 .. Len(z) : z[i] = q[i + n]
  <2>1. n <= Len(q)
    BY <1>1, <1>2
  <2> QED BY <1>1, <1>2, <2>1, SuffixElements, Zenon
<1> HIDE DEF z
<1>8. Len(y) = Len(z)
  BY <1>1, <1>2, <1>3, <1>5, <1>7
<1>9. \A i \in 1 .. Len(y) : y[i] = z[i]
  <2> SUFFICES ASSUME NEW i \in 1 .. Len(y) PROVE y[i] = z[i]
    BY Zenon
  <2>1. z[i] = q[i + n]
    BY <1>7, <1>8, Zenon
  <2>2. CASE i <= Len(x)
    <3>1. i \in 1 .. Len(x) /\ i + n \in 1 .. Len(b)
      BY <1>1, <1>3, <2>2
    <3>2. QED
      BY <1>3, <1>4, <1>6, <2>1, <3>1, Zenon
  <2>3. CASE i > Len(x)
    <3>1. PICK k \in 1 .. Len(w) : i = Len(x) + k
      <4>1. i - Len(x) \in 1 .. Len(w) /\ i = Len(x) + (i - Len(x))
        BY <1>1, <1>3, <1>5, <2>3
      <4>2. QED
        BY <4>1, Zenon
    <3>2. i + n = Len(b) + k
      BY <1>1, <1>3, <3>1
    <3>3. QED
      BY <1>4, <1>6, <2>1, <3>1, <3>2, Zenon
  <2>4. QED
    BY <1>1, <1>3, <2>2, <2>3
<1>10. y = z
  BY <1>5, <1>7, <1>8, <1>9, SamePieces, Zenon
<1>11. n \in 0 .. Len(q)
  BY <1>1, <1>2
<1>12. QED
  BY <1>10, <1>11, Zenon DEF q, x, y, z

LEMMA MovedOver ==
    ASSUME NEW b \in Seq(Pieces), NEW w \in Seq(Pieces), NEW n \in 1 .. Len(w)
    PROVE  /\ (b \o SubSeq(w, 1, n)) \o SubSeq(w, n + 1, Len(w)) = b \o w
           /\ b \o SubSeq(w, 1, n) = SubSeq(b \o w, 1, Len(b) + n)
           /\ Len(b) + n \in 0 .. Len(b \o w)
           /\ b \o SubSeq(w, 1, n) \in Seq(Pieces) /\ SubSeq(w, n + 1, Len(w)) \in Seq(Pieces)
<1>1. SubSeq(w, 1, n) \in Seq(Pieces) /\ SubSeq(w, n + 1, Len(w)) \in Seq(Pieces)
  OBVIOUS
<1>2. SubSeq(w, 1, n) \o SubSeq(w, n + 1, Len(w)) = w
  OBVIOUS
<1>3. \A x, y \in Seq(Pieces) : (b \o x) \o y = b \o (x \o y)
  BY SMTT(30)
<1>4. b \o SubSeq(w, 1, n) = SubSeq(b \o w, 1, Len(b) + n)
  OBVIOUS
<1>5. Len(b) + n \in 0 .. Len(b \o w)
  OBVIOUS
<1>6. b \o SubSeq(w, 1, n) \in Seq(Pieces)
  BY <1>1
<1>7. QED
  <2>1. (b \o SubSeq(w, 1, n)) \o SubSeq(w, n + 1, Len(w))
            = b \o (SubSeq(w, 1, n) \o SubSeq(w, n + 1, Len(w)))
    BY <1>1, <1>3, Zenon
  <2>2. QED
    BY <1>1, <1>2, <1>4, <1>5, <1>6, <2>1, Zenon

LEMMA GenuineSuffix ==
    ASSUME NEW q \in Seq(Pieces), NEW c, Genuine(q, c), NEW n \in 0 .. Len(q),
           NEW r, r = SubSeq(q, n + 1, Len(q))
    PROVE  Genuine(r, c)
<1>1. Len(q) \in Nat /\ n \in Nat
  OBVIOUS
<1>2. Len(r) = Len(q) - n /\ \A i \in 1 .. Len(r) : r[i] = q[i + n]
  BY <1>1
<1>3. \A i \in 1 .. Len(r) : i + n \in 1 .. Len(q)
  BY <1>1, <1>2
<1>4. QED
  BY <1>2, <1>3, Zenon DEF Genuine

LEMMA GenuineSend ==
    ASSUME NEW q \in Seq(Pieces), NEW c, NEW d, c \subseteq d, Genuine(q, c), NEW p \in Packets,
           p.ok /\ p.type \in AckTypes => <<p.type, p.id>> \in d,
           NEW r, r = q \o <<[packet |-> p, piece |-> 1], [packet |-> p, piece |-> 2]>>
    PROVE  Genuine(r, d)
<1> DEFINE a == [packet |-> p, piece |-> 1]
           b == [packet |-> p, piece |-> 2]
<1>1. a \in Pieces /\ b \in Pieces /\ a.packet = p /\ b.packet = p
  BY Zenon DEF Pieces
<1>2. r = q \o <<a, b>>
  BY Zenon
<1> HIDE DEF a, b
<1>3. Len(r) = Len(q) + 2 /\ Len(q) \in Nat
  BY <1>1, <1>2
<1>4. r[Len(q) + 1] = a /\ r[Len(q) + 2] = b /\ \A i \in 1 .. Len(q) : r[i] = q[i]
  BY <1>1, <1>2
<1>5. \A i \in 1 .. Len(r) : i \in 1 .. Len(q) \/ i = Len(q) + 1 \/ i = Len(q) + 2
  <2>1. \A m, n \in Nat : m = n + 2 =>
            \A i \in 1 .. m : i \in 1 .. n \/ i = n + 1 \/ i = n + 2
    OBVIOUS
  <2>2. Len(r) \in Nat
    BY <1>3
  <2>3. QED
    BY <1>3, <2>1, <2>2, Zenon
<1>6. QED
  BY <1>1, <1>4, <1>5, Zenon DEF Genuine

\* Packets leave the buffer: the stream stays as it should be when they were
\* whole, or when it was not in step before.
LEMMA StreamSuffix ==
    ASSUME NEW b \in Seq(Pieces), NEW w \in Seq(Pieces), NEW ev, NEW s, NEW open,
           Stream(b, w, ev, s, open), NEW n \in 0 .. Len(b),
           s.aligned /\ n > 0 => b[n].piece = 2,
           NEW r, r = SubSeq(b, n + 1, Len(b))
    PROVE  r \in Seq(Pieces) /\ Stream(r, w, ev, s, open)
<1> DEFINE q == b \o w
           z == r \o w
<1>1. r \in Seq(Pieces) /\ q \in Seq(Pieces) /\ n \in Nat
  OBVIOUS
<1>2. n > 0 => q[n] = b[n]
  OBVIOUS
<1>3. n \in 0 .. Len(q) /\ z = SubSeq(q, n + 1, Len(q))
  BY SuffixOfBoth, Zenon
<1> HIDE DEF q, z
<1>4. Genuine(q, s.confirmed) /\ InOrder(s.got, ev, q, s.published)
  BY Zenon DEF Stream, q
<1>5. Genuine(z, s.confirmed) /\ InOrder(s.got, ev, z, s.published)
  BY <1>1, <1>3, <1>4, GenuineSuffix, OrderSuffix, Zenon
<1>6. ASSUME s.aligned PROVE Framed(r) /\ (open => Whole(z))
  <2>1. n > 0 => b[n].piece = 2 /\ q[n].piece = 2
    BY <1>2, <1>6, Zenon
  <2>2. Framed(b) /\ (open => Whole(q))
    BY <1>6, Zenon DEF Stream, q
  <2>3. Framed(r)
    BY <2>1, <2>2, FramedSuffix, Zenon
  <2>4. ASSUME open PROVE Whole(z)
    <3>1. Framed(q) /\ Whole(q)
      BY <2>2, <2>4, Zenon DEF Whole
    <3>2. QED
      BY <1>1, <1>3, <2>1, <3>1, FramedSuffix, Zenon
  <2>5. QED
    BY <2>3, <2>4, Zenon
<1>7. QED
  BY <1>1, <1>5, <1>6, Zenon DEF Stream, z

\* A packet is decoded: it leaves the buffer whole.
LEMMA StreamRest ==
    ASSUME NEW b \in Seq(Pieces), NEW w \in Seq(Pieces), NEW ev, NEW s, NEW open,
           Stream(b, w, ev, s, open), Complete(b) \/ Misframed(b)
    PROVE  /\ Rest(b) \in Seq(Pieces) /\ Stream(Rest(b), w, ev, s, open)
           /\ s.aligned => Complete(b)
<1>1. Len(b) \in Nat /\ \A i \in 1 .. Len(b) : b[i] \in Pieces
  OBVIOUS
<1>2. CASE Complete(b)
  <2>1. Rest(b) = SubSeq(b, 2 + 1, Len(b)) /\ 2 \in 0 .. Len(b)
    BY <1>1, <1>2 DEF Rest, Misframed, Complete
  <2>2. ASSUME s.aligned PROVE b[2].piece = 2
    <3>1. 1 \in 1 .. Len(b) /\ 1 < Len(b) /\ 2 \in 1 .. Len(b) /\ b[1].piece = 1
      BY <1>1, <1>2 DEF Complete
    <3>2. b[1 + 1].piece # b[1].piece
      BY <2>2, <3>1, Zenon DEF Stream, Framed
    <3>3. b[2] \in Pieces
      BY <1>1, <3>1, Zenon
    <3>4. QED
      BY <3>1, <3>2, <3>3 DEF Pieces
  <2>3. QED
    BY <1>2, <2>1, <2>2, StreamSuffix, Zenon
<1>3. CASE Misframed(b)
  <2>1. ~s.aligned
    BY <1>3 DEF Stream, Framed, Misframed
  <2>2. b # <<>> /\ Rest(b) = Tail(b)
    BY <1>3, Zenon DEF Rest, Misframed
  <2>3. Tail(b) = SubSeq(b, 1 + 1, Len(b)) /\ 1 \in 0 .. Len(b)
    BY <2>2
  <2>4. QED
    BY <2>1, <2>2, <2>3, StreamSuffix, Zenon
<1>4. QED
  BY <1>2, <1>3, Zenon

LEMMA PacketIs ==
    \A type \in PacketTypes, id \in Nat, ok \in BOOLEAN :
        LET p == Packet(type, id, ok)
        IN  p \in Packets /\ p.type = type /\ p.id = id /\ p.ok = ok
  BY Zenon DEF Packet, Packets

\* What decode_packet returns: an acknowledgement the broker confirmed when the
\* bytes are in step, a number after everything delivered and queued and before
\* everything still to come.
LEMMA Decoded ==
    ASSUME NEW b \in Seq(Pieces), NEW w \in Seq(Pieces), NEW ev, NEW s, NEW open,
           Stream(b, w, ev, s, open), NEW p \in Decodes(b)
    PROVE  /\ p \in Packets /\ (Complete(b) \/ Misframed(b))
           /\ s.aligned /\ p.ok /\ p.type \in AckTypes => <<p.type, p.id>> \in s.confirmed
           /\ p.type \in {"publish0", "publish1"} /\ p.id # 0 =>
                  /\ p.id \in 0 .. s.published
                  /\ Below(Numbers(s.got), {p.id}) /\ Below(EventNumbers(ev), {p.id})
                  /\ Below({p.id}, PieceNumbers(Rest(b) \o w))
<1>1. Len(b) \in Nat /\ \A i \in 1 .. Len(b) : b[i] \in Pieces
  OBVIOUS
<1>2. CASE Complete(b) /\ p = b[1].packet
  <2>1. 1 \in 1 .. Len(b) /\ b[1].piece = 1
    BY <1>1, <1>2 DEF Complete
  <2>2. b[1] \in Pieces
    BY <1>1, <2>1, Zenon
  <2>3. p \in Packets
    BY <1>2, <2>2, Zenon DEF Pieces
  <2> DEFINE q == b \o w
  <2>4. q \in Seq(Pieces) /\ 1 \in 1 .. Len(q) /\ q[1] = b[1]
    BY <2>1
  <2>5. Rest(b) = SubSeq(b, 2 + 1, Len(b)) /\ 2 \in 0 .. Len(b)
    BY <1>1, <1>2 DEF Rest, Misframed, Complete
  <2>6. 2 \in 0 .. Len(q) /\ Rest(b) \o w = SubSeq(q, 2 + 1, Len(q))
    BY <2>5, SuffixOfBoth, Zenon
  <2>7. Genuine(q, s.confirmed) /\ InOrder(s.got, ev, q, s.published)
    BY Zenon DEF Stream
  <2> HIDE DEF q
  <2>8. p.ok /\ p.type \in AckTypes => <<p.type, p.id>> \in s.confirmed
    BY <1>2, <2>4, <2>7, Zenon DEF Genuine
  <2>9. ASSUME p.type \in {"publish0", "publish1"}
        PROVE  /\ p.id \in 0 .. s.published
               /\ Below(Numbers(s.got), {p.id}) /\ Below(EventNumbers(ev), {p.id})
               /\ Below({p.id}, PieceNumbers(Rest(b) \o w))
    <3>1. Num(q[1]) /\ q[1].packet = p
      BY <1>2, <2>1, <2>4, <2>9, Zenon DEF Num
    <3>2. p.id \in PieceNumbers(q)
      BY <2>4, <3>1, Zenon DEF PieceNumbers
    <3>3. 2 > 0 /\ RisingPieces(q)
      BY <2>7 DEF InOrder
    <3>4. Below({q[1].packet.id}, PieceNumbers(Rest(b) \o w))
      BY <2>4, <2>6, <3>1, <3>3, SuffixPieces, Zenon
    <3>5. QED
      BY <2>7, <3>1, <3>2, <3>4, Zenon DEF InOrder, Below
  <2>10. QED
    BY <1>2, <2>3, <2>8, <2>9, Zenon
<1>3. CASE Misframed(b) /\ p \in Stray
  <2>1. ~s.aligned
    BY <1>3 DEF Stream, Framed, Misframed
  <2>2. p = Packet("puback", 1, TRUE) \/ p = Packet("publish0", 0, TRUE)
    BY <1>3, Zenon DEF Stray
  <2>3. /\ Packet("puback", 1, TRUE) \in Packets
        /\ Packet("puback", 1, TRUE).type = "puback"
        /\ Packet("publish0", 0, TRUE) \in Packets
        /\ Packet("publish0", 0, TRUE).id = 0
    BY Zenon DEF Packet, Packets, PacketTypes, AckTypes
  <2>4. p \in Packets /\ (p.type \in {"publish0", "publish1"} => p.id = 0)
    BY <2>2, <2>3, Zenon
  <2>5. QED
    BY <1>3, <2>1, <2>4, Zenon
<1>4. QED
  BY <1>2, <1>3, Zenon DEF Decodes

\* An error drops the buffer; in step afterwards only when it held whole packets.
LEMMA StreamUnwind ==
    ASSUME NEW b \in Seq(Pieces), NEW w \in Seq(Pieces), NEW ev, NEW s \in SeenRecords, NEW open,
           Stream(b, w, ev, s, open), NEW t,
           t = [s EXCEPT !.aligned = @ /\ ~HalfRead(b)]
    PROVE  Stream(<<>>, w, ev, t, open)
<1>1. /\ t.aligned = (s.aligned /\ ~HalfRead(b)) /\ t.confirmed = s.confirmed /\ t.done = s.done
      /\ t.got = s.got /\ t.published = s.published /\ t.acked = s.acked
  BY Zenon DEF SeenRecords
<1>2. Stream(b, w, ev, t, open)
  BY <1>1, Zenon DEF Stream, Confirmed, StillHeld
<1>3. Len(b) \in 0 .. Len(b) /\ <<>> = SubSeq(b, Len(b) + 1, Len(b))
  OBVIOUS
<1>4. t.aligned /\ Len(b) > 0 => b[Len(b)].piece = 2
  <2>1. Len(b) > 0 => b # <<>> /\ b[Len(b)] \in Pieces
    OBVIOUS
  <2>2. QED
    BY <1>1, <2>1, Zenon DEF HalfRead, Pieces
<1>5. QED
  BY <1>2, <1>3, <1>4, StreamSuffix, Zenon

\* Bytes are read off the carrier.
LEMMA StreamRead ==
    ASSUME NEW b \in Seq(Pieces), NEW w \in Seq(Pieces), NEW ev, NEW s,
           Stream(b, w, ev, s, TRUE), NEW n \in 1 .. Len(w)
    PROVE  /\ b \o SubSeq(w, 1, n) \in Seq(Pieces) /\ SubSeq(w, n + 1, Len(w)) \in Seq(Pieces)
           /\ Stream(b \o SubSeq(w, 1, n), SubSeq(w, n + 1, Len(w)), ev, s, TRUE)
<1> DEFINE q == b \o w
           x == b \o SubSeq(w, 1, n)
           y == SubSeq(w, n + 1, Len(w))
<1>1. x \o y = q /\ x = SubSeq(q, 1, Len(b) + n) /\ Len(b) + n \in 0 .. Len(q)
      /\ x \in Seq(Pieces) /\ y \in Seq(Pieces)
  BY MovedOver, Zenon
<1>2. q \in Seq(Pieces)
  OBVIOUS
<1>3. Stream(b, w, ev, s, TRUE) /\ q = b \o w
  BY Zenon
<1> HIDE DEF q, x, y
<1>4. s.aligned => Framed(x)
  <2>1. s.aligned => Framed(q)
    BY <1>3, Zenon DEF Stream, Whole
  <2>2. QED
    BY <1>1, <1>2, <2>1, FramedPrefix, Zenon
<1>5. Stream(x, y, ev, s, TRUE)
  BY <1>1, <1>3, <1>4, Zenon DEF Stream
<1>6. QED
  BY <1>1, <1>5, Zenon DEF x, y

\* The broker sends a packet.
LEMMA StreamSend ==
    ASSUME NEW b \in Seq(Pieces), NEW w \in Seq(Pieces), NEW ev, NEW s, NEW t, NEW open,
           Stream(b, w, ev, s, open), NEW p \in Packets,
           s.published \in Nat, t.published \in Nat, s.published <= t.published,
           p.type \in {"publish0", "publish1"} =>
               p.id = s.published + 1 /\ t.published = s.published + 1,
           s.confirmed \subseteq t.confirmed,
           p.ok /\ p.type \in AckTypes => <<p.type, p.id>> \in t.confirmed,
           t.aligned = s.aligned, t.got = s.got, t.acked = s.acked, t.done = s.done,
           NEW v, v = w \o <<[packet |-> p, piece |-> 1], [packet |-> p, piece |-> 2]>>
    PROVE  v \in Seq(Pieces) /\ Stream(b, v, ev, t, open)
<1> DEFINE two == <<[packet |-> p, piece |-> 1], [packet |-> p, piece |-> 2]>>
<1>1. two \in Seq(Pieces)
  BY DEF Pieces
<1> DEFINE q == b \o w
<1>2. v \in Seq(Pieces) /\ q \in Seq(Pieces)
  BY <1>1
<1>3. b \o v = q \o two
  <2>1. b \o (w \o two) = (b \o w) \o two
    BY <1>1, CatAssociates, Zenon
  <2>2. QED
    BY <2>1, Zenon
<1> DEFINE r == b \o v
<1>4. r = q \o <<[packet |-> p, piece |-> 1], [packet |-> p, piece |-> 2]>>
  BY <1>3, Zenon
<1>5. /\ Genuine(q, s.confirmed) /\ InOrder(s.got, ev, q, s.published)
      /\ Confirmed(s) /\ StillHeld(s, ev)
      /\ s.aligned => Framed(b) /\ (open => Whole(q))
  BY Zenon DEF Stream
<1> HIDE DEF q, r, two
<1>6. Genuine(r, t.confirmed)
  BY <1>2, <1>4, <1>5, GenuineSend, Zenon
<1>7. InOrder(t.got, ev, r, t.published)
  BY <1>2, <1>4, <1>5, OrderSend, Zenon
<1>8. t.aligned => Framed(b) /\ (open => Whole(r))
  BY <1>2, <1>4, <1>5, WholeSend, Zenon
<1>9. Confirmed(t) /\ StillHeld(t, ev)
  BY <1>5, Zenon DEF Confirmed, StillHeld
<1>10. QED
  BY <1>2, <1>6, <1>7, <1>8, <1>9, Zenon DEF Stream, r

\* The program reads a queued event.
LEMMA StreamDeliver ==
    ASSUME NEW b, NEW w, NEW ev \in Seq(Events), NEW s, NEW t, NEW open,
           Stream(b, w, ev, s, open), ev # <<>>, s.got \in Seq(Nat),
           t.got = Received(s.got, Head(ev)), t.published = s.published, t.aligned = s.aligned,
           t.confirmed = s.confirmed, t.done = s.done, t.acked = s.acked
    PROVE  /\ Tail(ev) \in Seq(Events) /\ t.got \in Seq(Nat)
           /\ Stream(b, w, Tail(ev), t, open)
<1>1. Tail(ev) \in Seq(Events)
  OBVIOUS
<1>2. InOrder(t.got, Tail(ev), b \o w, t.published)
  BY OrderDeliver, Zenon DEF Stream
<1>3. Head(ev) \in Events /\ Head(ev) = ev[1]
  OBVIOUS
<1>4. Head(ev).id \in Nat
  BY <1>3, Zenon DEF Events
<1>5. t.got \in Seq(Nat)
  BY <1>4 DEF Received
<1>6. Numbers(s.got) \subseteq Numbers(t.got)
  BY <1>4 DEF Received, Numbers
<1>7. EventNumbers(ev) \subseteq Numbers(t.got) \cup EventNumbers(Tail(ev))
  <2> SUFFICES ASSUME NEW i \in 1 .. Len(ev), ev[i].id # 0
               PROVE  ev[i].id \in Numbers(t.got) \cup EventNumbers(Tail(ev))
    BY Zenon DEF EventNumbers
  <2>1. CASE i = 1
    <3>1. t.got = Append(s.got, ev[i].id)
      BY <1>3, <2>1, Zenon DEF Received
    <3>2. ev[i].id \in Nat
      BY <1>3, <1>4, <2>1, Zenon
    <3>3. Len(t.got) = Len(s.got) + 1 /\ Len(s.got) \in Nat /\ t.got[Len(s.got) + 1] = ev[i].id
      BY <3>1, <3>2
    <3>4. Len(s.got) + 1 \in 1 .. Len(t.got)
      BY <3>3
    <3>5. QED
      BY <3>3, <3>4, Zenon DEF Numbers
  <2>2. CASE i # 1
    <3>1. i - 1 \in 1 .. Len(Tail(ev)) /\ Tail(ev)[i - 1] = ev[i]
      BY <2>2
    <3>2. QED
      BY <3>1, Zenon DEF EventNumbers
  <2>3. QED
    BY <2>1, <2>2, Zenon
<1>8. StillHeld(t, Tail(ev)) /\ Confirmed(t)
  BY <1>6, <1>7, Zenon DEF Stream, StillHeld, Confirmed
<1>9. QED
  BY <1>1, <1>2, <1>5, <1>8, Zenon DEF Stream

\* A packet puts an event in the queue.
LEMMA StreamQueue ==
    ASSUME NEW b, NEW w, NEW ev \in Seq(Events), NEW s, NEW t, NEW open,
           Stream(b, w, ev, s, open), NEW e \in Events,
           e.id # 0 => /\ e.id \in 0 .. s.published /\ Below(Numbers(s.got), {e.id})
                       /\ Below(EventNumbers(ev), {e.id}) /\ Below({e.id}, PieceNumbers(b \o w)),
           t.got = s.got, t.published = s.published, t.aligned = s.aligned,
           t.confirmed = s.confirmed, t.done = s.done, t.acked \subseteq s.acked \cup {e.id}
    PROVE  ev \o <<e>> \in Seq(Events) /\ Stream(b, w, ev \o <<e>>, t, open)
<1>1. ev \o <<e>> \in Seq(Events) /\ InOrder(t.got, ev \o <<e>>, b \o w, t.published)
  BY OrderQueue, Zenon DEF Stream
<1>2. EventNumbers(ev \o <<e>>) = EventNumbers(ev) \cup ({e.id} \ {0})
  BY QueueNumbers, Zenon DEF Stream, InOrder
<1>3. StillHeld(t, ev \o <<e>>) /\ Confirmed(t)
  BY <1>2, Zenon DEF Stream, StillHeld, Confirmed
<1>4. QED
  BY <1>1, <1>3, Zenon DEF Stream

\* The steps that leave the stream alone; a carrier is at most lost.
QuietMqttStep ==
    \/ SetMqttTarget \/ SetKeepAlive \/ (\E kind \in MqttRequests : BeginCall(kind))
    \/ (ReadEvent /\ mqtt.events = <<>>) \/ Disconnect \/ DisconnectRefused
    \/ SessionOpen \/ MqttOpenFails \/ ServerNameRejected \/ NothingToSend
    \/ SendPacket \/ SendFails \/ QosRefused \/ ReadEof \/ KeepAliveFails \/ BrokerEnds \/ IntervalPasses

Same ==
    /\ mqtt'.buffer = mqtt.buffer /\ mqtt'.events = mqtt.events /\ wire'.pieces = wire.pieces
    /\ mqtt'.carrier \in live' => mqtt.carrier \in live
    /\ seen'.got = seen.got /\ seen'.published = seen.published /\ seen'.aligned = seen.aligned
    /\ seen'.confirmed = seen.confirmed /\ seen'.done = seen.done /\ seen'.acked = seen.acked

\* The records the calls update.
CallIs(d, kind, stage) == d \in CallRecords /\ d.kind = kind /\ d.pc = stage

LEMMA CallRecord ==
    ASSUME NEW c \in CallRecords
    PROVE  /\ CallIs([c EXCEPT !.pc = "idle", !.id = 0], c.kind, "idle")
           /\ \A stage \in {"idle", "ensure", "connack", "send", "ack", "event"} :
                  CallIs([c EXCEPT !.pc = stage], c.kind, stage)
           /\ \A id \in Nat : CallIs([c EXCEPT !.pc = "ack", !.id = id], c.kind, "ack")
           /\ \A kind \in {"read_event", "disconnect"} :
                  CallIs([c EXCEPT !.kind = kind, !.made = @ + 1], kind, c.pc)
           /\ \A stage \in {"idle", "ensure"}, kind \in {"connect", "publish0", "publish1", "subscribe",
                  "unsubscribe", "read_event"} :
                  /\ CallIs([c EXCEPT !.kind = kind, !.pc = stage, !.made = @ + 1], kind, stage)
                  /\ CallIs([c EXCEPT !.kind = kind, !.made = @ + 1, !.pc = stage], kind, stage)
<1>0. c.made + 1 \in Nat
  BY DEF CallRecords
<1> USE DEF CallIs, CallRecords
<1>1. CallIs([c EXCEPT !.pc = "idle", !.id = 0], c.kind, "idle")
  BY Zenon
<1>2. \A stage \in {"idle", "ensure", "connack", "send", "ack", "event"} :
          CallIs([c EXCEPT !.pc = stage], c.kind, stage)
  BY Zenon
<1>3. \A id \in Nat : CallIs([c EXCEPT !.pc = "ack", !.id = id], c.kind, "ack")
  BY Zenon
<1>4. \A kind \in {"read_event", "disconnect"} :
          CallIs([c EXCEPT !.kind = kind, !.made = @ + 1], kind, c.pc)
  <2>1. \A kind \in {"read_event", "disconnect"}, made \in Nat :
            CallIs([c EXCEPT !.kind = kind, !.made = made], kind, c.pc)
    BY Zenon
  <2>2. QED
    BY <1>0, <2>1, Zenon
<1>5. \A stage \in {"idle", "ensure"}, kind \in {"connect", "publish0", "publish1", "subscribe",
          "unsubscribe", "read_event"} :
          /\ CallIs([c EXCEPT !.kind = kind, !.pc = stage, !.made = @ + 1], kind, stage)
          /\ CallIs([c EXCEPT !.kind = kind, !.made = @ + 1, !.pc = stage], kind, stage)
  <2>1. ASSUME NEW made \in Nat, NEW stage \in {"idle", "ensure"},
               NEW kind \in {"connect", "publish0", "publish1", "subscribe", "unsubscribe",
                             "read_event"}
        PROVE  /\ CallIs([c EXCEPT !.kind = kind, !.pc = stage, !.made = made], kind, stage)
               /\ CallIs([c EXCEPT !.kind = kind, !.made = made, !.pc = stage], kind, stage)
    <3>1. CallIs([c EXCEPT !.kind = kind, !.pc = stage, !.made = made], kind, stage)
      BY Zenon
    <3>2. [c EXCEPT !.kind = kind, !.made = made, !.pc = stage]
              = [c EXCEPT !.kind = kind, !.pc = stage, !.made = made]
      BY Zenon
    <3>3. QED
      BY <3>1, <3>2, Zenon
  <2> HIDE DEF CallIs, CallRecords
  <2>2. QED
    BY <1>0, <2>1, Zenon
<1>6. QED
  BY <1>1, <1>2, <1>3, <1>4, <1>5, Zenon

Keeps(c, d, carrier) ==
    d \in MqttRecords /\ d.buffer = c.buffer /\ d.events = c.events /\ d.carrier = carrier

LEMMA MqttRecord ==
    ASSUME NEW c \in MqttRecords
    PROVE  /\ Keeps(c, [MqttConfigure(c) EXCEPT !.target = TRUE], c.carrier)
           /\ \A on \in BOOLEAN : Keeps(c, [MqttConfigure(c) EXCEPT !.keepAlive = on], c.carrier)
           /\ Keeps(c, [MqttMarkClosed(c) EXCEPT !.carrier = NoCarrier], NoCarrier)
           /\ Keeps(c, [MqttMarkFailed(c) EXCEPT !.carrier = NoCarrier], NoCarrier)
           /\ Keeps(c, [c EXCEPT !.carrier = NoCarrier], NoCarrier)
           /\ Keeps(c, MqttMarkClosed(c), c.carrier) /\ Keeps(c, MqttMarkFailed(c), c.carrier)
           /\ Keeps(c, MqttMarkOpen(c), c.carrier)
           /\ \A ping \in BOOLEAN : Keeps(c, [c EXCEPT !.ping = ping], c.carrier)
           /\ Keeps(c, TakePacketId(c), c.carrier)
           /\ Keeps(c, [TakePacketId(c) EXCEPT !.ping = FALSE], c.carrier)
<1> USE DEF Keeps, MqttRecords, NoCarrier
<1>1. Keeps(c, [MqttConfigure(c) EXCEPT !.target = TRUE], c.carrier)
  BY Zenon DEF MqttConfigure
<1>2. Keeps(c, [MqttMarkClosed(c) EXCEPT !.carrier = NoCarrier], NoCarrier)
  BY Zenon DEF MqttMarkClosed
<1>3. Keeps(c, [MqttMarkFailed(c) EXCEPT !.carrier = NoCarrier], NoCarrier)
  BY Zenon DEF MqttMarkFailed
<1>4. Keeps(c, [c EXCEPT !.carrier = NoCarrier], NoCarrier)
  BY Zenon
<1>5. Keeps(c, MqttMarkClosed(c), c.carrier) /\ Keeps(c, MqttMarkFailed(c), c.carrier)
  BY Zenon DEF MqttMarkFailed, MqttMarkClosed
<1>6. Keeps(c, MqttMarkOpen(c), c.carrier)
  BY Zenon DEF MqttMarkOpen
<1>7. \A ping \in BOOLEAN : Keeps(c, [c EXCEPT !.ping = ping], c.carrier)
  BY Zenon
<1>8. Keeps(c, TakePacketId(c), c.carrier)
  BY DEF TakePacketId, NextPacketId
<1>9. Keeps(c, [TakePacketId(c) EXCEPT !.ping = FALSE], c.carrier)
  BY <1>8, Zenon
<1>10. \A on \in BOOLEAN : Keeps(c, [MqttConfigure(c) EXCEPT !.keepAlive = on], c.carrier)
  BY Zenon DEF MqttConfigure
<1>11. QED
  BY <1>1, <1>2, <1>3, <1>4, <1>5, <1>6, <1>7, <1>8, <1>9, <1>10, Zenon

LEMMA QuietTypes ==
    ASSUME MqttTypes, OneCarrier, QuietMqttStep
    PROVE  MqttTypes' /\ Same /\ OneCarrier'
<1>1. /\ mqtt \in MqttRecords /\ mqttCall \in CallRecords /\ wire \in WireRecords
      /\ seen \in SeenRecords /\ carriers \in Nat /\ carriers + 1 \in Nat
      /\ 1 .. carriers \subseteq 1 .. (carriers + 1) /\ 0 \notin 1 .. carriers
      /\ carriers + 1 \in 1 .. (carriers + 1) /\ 0 \notin 1 .. (carriers + 1)
      /\ 0 <= carriers /\ 0 <= carriers + 1 /\ live \subseteq 1 .. carriers
      /\ \A x \in Nat : x <= carriers => x <= carriers + 1
      /\ mqtt.carrier \in Nat
  BY DEF MqttTypes, MqttRecords
<1>2. MqttRequests \subseteq {"connect", "publish0", "publish1", "subscribe", "unsubscribe"}
  BY MqttAssumption, Zenon
<1> USE <1>1 DEF Same, MqttTypes, OneCarrier
<1>3. CASE SetMqttTarget
  <2>1. Keeps(mqtt, mqtt', mqtt.carrier)
    BY <1>3, MqttRecord, Zenon DEF SetMqttTarget
  <2>2. QED
    BY <1>3, <2>1 DEF SetMqttTarget, Keeps
<1>4. CASE \E kind \in MqttRequests : BeginCall(kind)
  <2>1. PICK kind \in MqttRequests : BeginCall(kind)
    BY <1>4, Zenon
  <2>2. CallIs(mqttCall', kind, "ensure")
    BY <1>2, <2>1, CallRecord, Zenon DEF BeginCall
  <2>3. QED
    BY <2>1, <2>2, Zenon DEF BeginCall, CallIs
<1>5. CASE ReadEvent /\ mqtt.events = <<>>
  <2>1. \E stage \in {"idle", "ensure"} : CallIs(mqttCall', "read_event", stage)
    BY <1>5, CallRecord, Zenon DEF ReadEvent
  <2>2. QED
    BY <1>5, <2>1, Zenon DEF ReadEvent, CallIs
<1>6. CASE Disconnect
  <2>1. Keeps(mqtt, mqtt', NoCarrier) /\ CallIs(mqttCall', "disconnect", "idle")
    BY <1>6, MqttRecord, CallRecord, Zenon DEF Disconnect
  <2>2. QED
    BY <1>6, <2>1 DEF Disconnect, CloseCarrier, Keeps, CallIs, NoCarrier
<1>7. CASE SessionOpen
  <2>1. CallIs(mqttCall', mqttCall.kind, "send")
    BY <1>7, CallRecord, Zenon DEF SessionOpen
  <2>2. QED
    BY <1>7, <2>1, Zenon DEF SessionOpen, CallIs
<1>8. CASE MqttOpenFails
  <2>1. Keeps(mqtt, mqtt', NoCarrier) /\ CallIs(mqttCall', mqttCall.kind, "idle")
    BY <1>8, MqttRecord, CallRecord, Zenon DEF MqttOpenFails, EndCall
  <2>2. QED
    BY <1>8, <2>1, Zenon DEF MqttOpenFails, CloseCarrier, Keeps, CallIs, NoCarrier
<1>9. CASE ServerNameRejected
  <2>1. Keeps(mqtt, mqtt', NoCarrier) /\ CallIs(mqttCall', mqttCall.kind, "idle")
    BY <1>9, MqttRecord, CallRecord, Zenon DEF ServerNameRejected, EndCall
  <2>2. /\ seen' \in SeenRecords /\ seen'.orphans = seen.orphans \cup {carriers + 1}
        /\ seen'.got = seen.got /\ seen'.published = seen.published /\ seen'.aligned = seen.aligned
        /\ seen'.confirmed = seen.confirmed /\ seen'.done = seen.done /\ seen'.acked = seen.acked
    BY <1>9, Zenon DEF ServerNameRejected, SeenRecords
  <2>3. QED
    BY <1>9, <2>1, <2>2, Zenon DEF ServerNameRejected, Keeps, CallIs, NoCarrier
<1>10. CASE NothingToSend
  <2>1. \E stage \in {"idle", "event"} : CallIs(mqttCall', mqttCall.kind, stage)
    BY <1>10, CallRecord, Zenon DEF NothingToSend
  <2>2. QED
    BY <1>10, <2>1, Zenon DEF NothingToSend, CallIs
<1>11. CASE SendPacket
  <2>1. mqttCall.kind \in {"publish0", "publish1", "subscribe", "unsubscribe"}
    BY <1>2, <1>11, Zenon DEF SendPacket
  <2>2. CASE mqttCall.kind = "publish0"
    <3>1. Keeps(mqtt, mqtt', mqtt.carrier) /\ CallIs(mqttCall', mqttCall.kind, "idle")
      BY <1>11, <2>2, MqttRecord, CallRecord, Zenon DEF SendPacket, EndCall
    <3>2. QED
      BY <1>11, <2>2, <3>1, Zenon DEF SendPacket, Keeps, CallIs
  <2>3. CASE mqttCall.kind # "publish0"
    <3>1. NextPacketId(mqtt) \in Nat
      BY Zenon DEF NextPacketId, MqttRecords
    <3>2. Keeps(mqtt, mqtt', mqtt.carrier) /\ CallIs(mqttCall', mqttCall.kind, "ack")
      BY <1>11, <2>3, <3>1, MqttRecord, CallRecord, Zenon DEF SendPacket
    <3>3. <<AckOf[mqttCall.kind], NextPacketId(mqtt)>> \in AckTypes \X Nat
      BY <2>1, <2>3, <3>1 DEF AckOf, AckTypes
    <3>4. wire' \in WireRecords /\ wire'.pieces = wire.pieces
      BY <1>11, <2>3, <3>3 DEF SendPacket, WireRecords
    <3>5. mqttCall.kind \in DOMAIN AckOf
      BY <2>1, <2>3, Zenon DEF AckOf
    <3>6. QED
      BY <1>11, <2>3, <3>2, <3>4, <3>5, Zenon DEF SendPacket, Keeps, CallIs
  <2>4. QED
    BY <2>2, <2>3, Zenon
<1>12. CASE SendFails
  <2>1. Keeps(mqtt, mqtt', mqtt.carrier) /\ CallIs(mqttCall', mqttCall.kind, "idle")
    BY <1>12, MqttRecord, CallRecord, Zenon DEF SendFails, EndCall, Keeps
  <2>2. QED
    BY <1>12, <2>1, Zenon DEF SendFails, Keeps, CallIs
<1>13. CASE ReadEof
  <2>1. Keeps(mqtt, mqtt', mqtt.carrier) /\ CallIs(mqttCall', mqttCall.kind, "idle")
    BY <1>13, MqttRecord, CallRecord, Zenon DEF ReadEof, EndCall
  <2>2. live' \subseteq live
    BY <1>13, Zenon DEF ReadEof, CloseCarrier
  <2>3. QED
    BY <1>13, <2>1, <2>2, Zenon DEF ReadEof, Keeps, CallIs
<1>14. CASE KeepAliveFails
  <2>1. Keeps(mqtt, mqtt', NoCarrier) /\ CallIs(mqttCall', mqttCall.kind, "idle")
    BY <1>14, MqttRecord, CallRecord, Zenon DEF KeepAliveFails, EndCall
  <2>2. QED
    BY <1>14, <2>1, Zenon DEF KeepAliveFails, CloseCarrier, Keeps, CallIs, NoCarrier
<1>15. CASE BrokerEnds
  <2>1. wire' \in WireRecords /\ wire'.pieces = wire.pieces
    BY <1>15, Zenon DEF BrokerEnds, WireRecords
  <2>2. QED
    BY <1>15, <2>1, Zenon DEF BrokerEnds
<1>16. CASE IntervalPasses
  BY <1>16, Zenon DEF IntervalPasses
<1>17. CASE SetKeepAlive
  <2>1. Keeps(mqtt, mqtt', mqtt.carrier)
    BY <1>17, MqttRecord, Zenon DEF SetKeepAlive
  <2>2. QED
    BY <1>17, <2>1, Zenon DEF SetKeepAlive, Keeps
<1>18. CASE DisconnectRefused
  <2>1. CallIs(mqttCall', "disconnect", "idle")
    BY <1>18, CallRecord, Zenon DEF DisconnectRefused
  <2>2. QED
    BY <1>18, <2>1, Zenon DEF DisconnectRefused, CallIs
<1>19. CASE QosRefused
  <2>1. mqtt' = mqtt /\ CallIs(mqttCall', mqttCall.kind, "idle")
    BY <1>19, CallRecord, Zenon DEF QosRefused, EndCall
  <2>2. QED
    BY <1>19, <2>1, Zenon DEF QosRefused, CallIs
<1>20. QED
  BY <1>3, <1>4, <1>5, <1>6, <1>7, <1>8, <1>9, <1>10, <1>11, <1>12, <1>13, <1>14, <1>15, <1>16,
     <1>17, <1>18, <1>19, Zenon DEF QuietMqttStep

LEMMA QuietNext == MqttInv /\ QuietMqttStep => MqttInv'
<1> SUFFICES ASSUME MqttInv, QuietMqttStep PROVE MqttInv'
  BY Zenon
<1>1. MqttTypes' /\ Same /\ OneCarrier'
  BY QuietTypes, Zenon DEF MqttInv
<1>2. Stream(mqtt.buffer, wire.pieces, mqtt.events, seen, mqtt.carrier \in live)
  BY Zenon DEF MqttInv
<1>3. Stream(mqtt.buffer, wire.pieces, mqtt.events, seen', mqtt'.carrier \in live')
  BY <1>1, <1>2, Zenon DEF Same, Stream, StillHeld, Confirmed
<1>4. QED
  BY <1>1, <1>3, Zenon DEF MqttInv, Same

\* The steps that take a packet from the buffer and queue nothing.
TakingStep == ConnAckReceived \/ AnswerReceived \/ PubackFails

LEMMA BufferRecord ==
    ASSUME NEW c \in MqttRecords, NEW b \in Seq(Pieces)
    PROVE  LET d == [c EXCEPT !.buffer = b]
           IN  d \in MqttRecords /\ d.buffer = b /\ d.events = c.events /\ d.carrier = c.carrier
  BY Zenon DEF MqttRecords

LEMMA TakingNext == MqttInv /\ TakingStep => MqttInv'
<1> SUFFICES ASSUME MqttInv, TakingStep PROVE MqttInv'
  BY Zenon
<1>1. /\ mqtt \in MqttRecords /\ mqttCall \in CallRecords /\ wire \in WireRecords
      /\ seen \in SeenRecords /\ MqttTypes /\ OneCarrier
      /\ Stream(mqtt.buffer, wire.pieces, mqtt.events, seen, mqtt.carrier \in live)
  BY Zenon DEF MqttInv, MqttTypes
<1>2. mqtt.buffer \in Seq(Pieces) /\ wire.pieces \in Seq(Pieces) /\ mqttCall.id \in Nat
  BY <1>1, Zenon DEF MqttRecords, WireRecords, CallRecords
<1> DEFINE b == mqtt.buffer
           c == [mqtt EXCEPT !.buffer = Rest(b)]
<1>3. PICK p \in Decodes(b) :
          \/ /\ ConnAckReceived /\ UNCHANGED <<wire, carriers, seen>>
             /\ \/ /\ mqtt' = MqttMarkOpen(c) /\ live' = live
                   /\ mqttCall' = [mqttCall EXCEPT !.pc = "send"]
                \/ EndCall(MqttMarkFailed(c)) /\ live' = live \ {mqtt.carrier}
          \/ /\ AnswerReceived /\ IsAnswer(p) /\ EndCall(c) /\ UNCHANGED <<wire, live, carriers>>
             /\ seen' = [seen EXCEPT !.done =
                            IF p.ok THEN @ \cup {<<p.type, mqttCall.id, seen.aligned>>} ELSE @]
          \/ PubackFails /\ EndCall(c) /\ UNCHANGED <<wire, live, carriers, seen>>
  BY Zenon DEF TakingStep, ConnAckReceived, AnswerReceived, PubackFails, CloseCarrier
<1>4. /\ Rest(b) \in Seq(Pieces)
      /\ Stream(Rest(b), wire.pieces, mqtt.events, seen, mqtt.carrier \in live)
  BY <1>1, <1>2, Decoded, StreamRest, Zenon
<1>5. seen.aligned /\ p.ok /\ p.type \in AckTypes => <<p.type, p.id>> \in seen.confirmed
  BY <1>1, <1>2, Decoded, Zenon
<1>6. /\ c \in MqttRecords /\ c.buffer = Rest(b) /\ c.events = mqtt.events
      /\ c.carrier = mqtt.carrier
  BY <1>1, <1>4, BufferRecord, Zenon
<1> HIDE DEF c
<1>7. Keeps(c, mqtt', mqtt.carrier) /\ live' \subseteq live /\ UNCHANGED <<wire, carriers>>
      /\ \E stage \in {"idle", "send"} : CallIs(mqttCall', mqttCall.kind, stage)
  <2>1. /\ Keeps(c, c, mqtt.carrier) /\ Keeps(c, MqttMarkOpen(c), mqtt.carrier)
        /\ Keeps(c, MqttMarkFailed(c), mqtt.carrier)
    BY <1>6, MqttRecord, Zenon DEF Keeps
  <2>2. \/ mqtt' = MqttMarkOpen(c) \/ mqtt' = MqttMarkFailed(c) \/ mqtt' = c
    BY <1>3, Zenon DEF EndCall
  <2>3. live' \subseteq live /\ UNCHANGED <<wire, carriers>>
    BY <1>3, Zenon
  <2>4. \/ mqttCall' = [mqttCall EXCEPT !.pc = "send"]
        \/ mqttCall' = [mqttCall EXCEPT !.pc = "idle", !.id = 0]
    BY <1>3, Zenon DEF EndCall
  <2>5. \E stage \in {"idle", "send"} : CallIs(mqttCall', mqttCall.kind, stage)
    BY <1>1, <2>4, CallRecord, Zenon
  <2>6. QED
    BY <2>1, <2>2, <2>3, <2>5, Zenon
<1>8. /\ seen' \in SeenRecords /\ seen'.got = seen.got /\ seen'.published = seen.published
      /\ seen'.aligned = seen.aligned /\ seen'.confirmed = seen.confirmed
      /\ seen'.acked = seen.acked /\ seen'.orphans = seen.orphans
      /\ \/ seen'.done = seen.done
         \/ /\ p.type \in AckTypes /\ p.id = mqttCall.id /\ p.ok
            /\ seen'.done = seen.done \cup {<<p.type, p.id, seen.aligned>>}
  <2>1. CASE seen' = seen
    BY <1>1, <2>1, Zenon
  <2>2. CASE AnswerReceived /\ IsAnswer(p)
             /\ seen' = [seen EXCEPT !.done =
                            IF p.ok THEN @ \cup {<<p.type, mqttCall.id, seen.aligned>>} ELSE @]
    <3>1. mqttCall.kind \in DOMAIN AckOf /\ p.type = AckOf[mqttCall.kind] /\ p.id = mqttCall.id
      BY <1>1, <2>2, Zenon DEF IsAnswer, MqttTypes
    <3>2. p.type \in AckTypes
      BY <3>1 DEF AckOf, AckTypes
    <3>3. <<p.type, mqttCall.id, seen.aligned>> \in AckTypes \X Nat \X BOOLEAN
      BY <1>1, <1>2, <3>2, Zenon DEF SeenRecords
    <3>4. QED
      BY <1>1, <2>2, <3>1, <3>2, <3>3, Zenon DEF SeenRecords
  <2>3. QED
    BY <1>3, <2>1, <2>2, Zenon
<1>9. MqttTypes' /\ OneCarrier'
  <2>1. mqttCall.pc # "idle"
    BY Zenon DEF TakingStep, ConnAckReceived, AnswerReceived, PubackFails
  <2>2. mqtt' \in MqttRecords /\ mqtt'.carrier = mqtt.carrier
    BY <1>7, Zenon DEF Keeps
  <2>3. mqttCall' \in CallRecords /\ mqttCall'.kind = mqttCall.kind
        /\ mqttCall'.pc \in {"idle", "send"}
    BY <1>7, Zenon DEF CallIs
  <2>4. MqttTypes'
    BY <1>1, <1>7, <1>8, <2>1, <2>2, <2>3, Zenon DEF MqttTypes
  <2>5. OneCarrier'
    BY <1>1, <1>7, <1>8, <2>2, Zenon DEF OneCarrier
  <2>6. QED
    BY <2>4, <2>5, Zenon
<1>10. Confirmed(seen')
  BY <1>4, <1>5, <1>8, SMTT(30) DEF Stream, Confirmed
<1>11. Stream(Rest(b), wire.pieces, mqtt.events, seen', mqtt.carrier \in live')
  BY <1>4, <1>7, <1>8, <1>10, Zenon DEF Stream, StillHeld
<1>12. QED
  BY <1>6, <1>7, <1>9, <1>11, Zenon DEF MqttInv, Keeps

LEMMA InvFacts ==
    ASSUME MqttInv
    PROVE  /\ mqtt \in MqttRecords /\ mqttCall \in CallRecords /\ wire \in WireRecords
           /\ seen \in SeenRecords /\ MqttTypes /\ OneCarrier
           /\ Stream(mqtt.buffer, wire.pieces, mqtt.events, seen, mqtt.carrier \in live)
           /\ mqtt.buffer \in Seq(Pieces) /\ wire.pieces \in Seq(Pieces)
           /\ mqtt.events \in Seq(Events) /\ seen.got \in Seq(Nat) /\ seen.published \in Nat
           /\ mqtt.carrier \in Nat
<1>1. /\ mqtt \in MqttRecords /\ mqttCall \in CallRecords /\ wire \in WireRecords
      /\ seen \in SeenRecords /\ MqttTypes /\ OneCarrier
      /\ Stream(mqtt.buffer, wire.pieces, mqtt.events, seen, mqtt.carrier \in live)
  BY Zenon DEF MqttInv, MqttTypes
<1>2. mqtt.buffer \in Seq(Pieces) /\ mqtt.events \in Seq(Events) /\ mqtt.carrier \in Nat
  BY <1>1, Zenon DEF MqttRecords
<1>3. wire.pieces \in Seq(Pieces)
  BY <1>1, Zenon DEF WireRecords
<1>4. seen.got \in Seq(Nat) /\ seen.published \in Nat
  BY <1>1, Zenon DEF SeenRecords
<1>5. QED
  BY <1>1, <1>2, <1>3, <1>4, Zenon

\* The bytes read and not decoded are dropped.
LEMMA UnwindNext ==
    ASSUME MqttInv, Unwind(mqtt), UNCHANGED <<wire, live, carriers>>
    PROVE  MqttInv'
<1>1. mqtt' = [mqtt EXCEPT !.buffer = <<>>] /\ mqttCall' = [mqttCall EXCEPT !.pc = "idle", !.id = 0]
      /\ seen' = [seen EXCEPT !.aligned = @ /\ ~HalfRead(mqtt.buffer)]
  BY Zenon DEF Unwind, EndCall
<1>2. <<>> \in Seq(Pieces)
  OBVIOUS
<1>3. mqtt' \in MqttRecords /\ mqtt'.buffer = <<>> /\ mqtt'.events = mqtt.events
      /\ mqtt'.carrier = mqtt.carrier
  BY <1>1, <1>2, InvFacts, BufferRecord, Zenon
<1>4. CallIs(mqttCall', mqttCall.kind, "idle")
  BY <1>1, InvFacts, CallRecord, Zenon
<1>5. seen' \in SeenRecords /\ seen'.orphans = seen.orphans
  BY <1>1, InvFacts, Zenon DEF SeenRecords
<1>6. Stream(<<>>, wire.pieces, mqtt.events, seen', mqtt.carrier \in live)
  BY <1>1, InvFacts, StreamUnwind, Zenon
<1>7. MqttTypes' /\ OneCarrier'
  BY <1>3, <1>4, <1>5, InvFacts, Zenon DEF MqttTypes, OneCarrier, CallIs
<1>8. QED
  BY <1>3, <1>6, <1>7, Zenon DEF MqttInv

LEMMA FailingNext == MqttInv /\ (MqttReadFails \/ PingRequest) => MqttInv'
<1> SUFFICES ASSUME MqttInv, MqttReadFails \/ PingRequest PROVE MqttInv'
  BY Zenon
<1>1. CASE Unwind(mqtt) /\ UNCHANGED <<wire, live, carriers>>
  BY <1>1, UnwindNext, Zenon
<1>2. CASE mqtt' = [mqtt EXCEPT !.ping = TRUE] /\ UNCHANGED <<mqttCall, seen, wire, live, carriers>>
  <2>1. Keeps(mqtt, mqtt', mqtt.carrier)
    BY <1>2, InvFacts, MqttRecord, Zenon
  <2>2. MqttTypes' /\ OneCarrier'
    BY <1>2, <2>1, InvFacts, Zenon DEF MqttTypes, OneCarrier, Keeps
  <2>3. QED
    BY <1>2, <2>1, <2>2, Zenon DEF MqttInv, Keeps
<1>3. QED
  BY <1>1, <1>2, Zenon DEF MqttReadFails, PingRequest

LEMMA StreamEmpty ==
    ASSUME NEW w \in Seq(Pieces), NEW s \in SeenRecords, NEW t,
           InOrder(s.got, <<>>, w, s.published), Genuine(w, s.confirmed), Confirmed(s),
           t = [s EXCEPT !.acked = {}, !.aligned = TRUE]
    PROVE  /\ t \in SeenRecords /\ t.orphans = s.orphans
           /\ Stream(<<>>, w, <<>>, t, FALSE)
           /\ w = <<>> => Stream(<<>>, w, <<>>, t, TRUE)
<1>1. /\ t \in SeenRecords /\ t.orphans = s.orphans /\ t.got = s.got /\ t.published = s.published
      /\ t.confirmed = s.confirmed /\ t.done = s.done /\ t.acked = {}
  BY Zenon DEF SeenRecords
<1>2. <<>> \o w = w
  OBVIOUS
<1>3. Framed(<<>>) /\ Whole(<<>>)
  BY DEF Framed, Whole
<1>4. Confirmed(t) /\ StillHeld(t, <<>>)
  BY <1>1, Zenon DEF Confirmed, StillHeld
<1>5. QED
  BY <1>1, <1>2, <1>3, <1>4, Zenon DEF Stream

LEMMA OrderEmpty ==
    ASSUME NEW got, NEW ev, NEW q, NEW top, InOrder(got, ev, q, top)
    PROVE  InOrder(got, <<>>, q, top) /\ InOrder(got, <<>>, <<>>, top)
<1>1. EventNumbers(<<>>) = {} /\ RisingEvents(<<>>)
  BY DEF EventNumbers, RisingEvents
<1>2. PieceNumbers(<<>>) = {} /\ RisingPieces(<<>>)
  BY DEF PieceNumbers, RisingPieces
<1>3. QED
  BY <1>1, <1>2, Zenon DEF InOrder, Below

LEMMA AttachRecord ==
    ASSUME NEW c \in MqttRecords, NEW h \in Nat
    PROVE  LET a == AttachCarrier(MqttConfigure(c), h) IN
           /\ a \in MqttRecords /\ a.buffer = <<>> /\ a.events = <<>> /\ a.carrier = h
           /\ LET d == NoteConnectSent(a) IN
              d \in MqttRecords /\ d.buffer = <<>> /\ d.events = <<>> /\ d.carrier = h
           /\ LET d == MqttMarkFailed(a) IN
              d \in MqttRecords /\ d.buffer = <<>> /\ d.events = <<>> /\ d.carrier = h
<1> DEFINE m == MqttConfigure(c)
           a == AttachCarrier(m, h)
<1>1. m \in MqttRecords
  BY Zenon DEF MqttConfigure, MqttRecords
<1> HIDE DEF m
<1>2. a \in MqttRecords /\ a.buffer = <<>> /\ a.events = <<>> /\ a.carrier = h
  <2>1. <<>> \in Seq(Pieces) /\ <<>> \in Seq(Events)
    OBVIOUS
  <2>2. \A x \in Seq(Pieces), y \in Seq(Events) :
            LET d == [m EXCEPT !.carrier = h, !.ping = FALSE, !.buffer = x, !.events = y,
                               !.phase = "CarrierAttached"]
            IN  d \in MqttRecords /\ d.buffer = x /\ d.events = y /\ d.carrier = h
    BY <1>1, Zenon DEF MqttRecords
  <2>3. QED
    BY <2>1, <2>2, Zenon DEF AttachCarrier
<1> HIDE DEF a
<1>3. LET d == NoteConnectSent(a) IN
      d \in MqttRecords /\ d.buffer = <<>> /\ d.events = <<>> /\ d.carrier = h
  BY <1>2, Zenon DEF NoteConnectSent, MqttRecords
<1>4. LET d == MqttMarkFailed(a) IN
      d \in MqttRecords /\ d.buffer = <<>> /\ d.events = <<>> /\ d.carrier = h
  BY <1>2, Zenon DEF MqttMarkFailed, MqttRecords
<1>5. QED
  BY <1>2, <1>3, <1>4, Zenon DEF a, m

LEMMA AttachNext ==
    MqttInv /\ (AttachAndConnect \/ ConnectRefused \/ ConnectWriteFails) => MqttInv'
<1> SUFFICES ASSUME MqttInv, AttachAndConnect \/ ConnectRefused \/ ConnectWriteFails PROVE MqttInv'
  BY Zenon
<1> DEFINE b == mqtt.buffer
           w == wire.pieces
<1>1. /\ carriers \in Nat /\ carriers + 1 \in Nat /\ carriers' = carriers + 1
      /\ live \subseteq 1 .. carriers
      /\ 1 .. carriers \subseteq 1 .. (carriers + 1) /\ carriers + 1 \in 1 .. (carriers + 1)
      /\ carriers + 1 \notin 1 .. carriers /\ carriers + 1 <= carriers + 1
  <2>1. carriers' = carriers + 1
    BY Zenon DEF AttachAndConnect, ConnectRefused, ConnectWriteFails
  <2> QED BY <2>1, InvFacts, SMTT(30) DEF MqttTypes
<1>2. /\ seen' = [seen EXCEPT !.acked = {}, !.aligned = TRUE]
  BY Zenon DEF AttachAndConnect, ConnectRefused, ConnectWriteFails
<1>3. InOrder(seen.got, <<>>, w, seen.published) /\ Genuine(w, seen.confirmed) /\ Confirmed(seen)
  <2>1. InOrder(seen.got, mqtt.events, b \o w, seen.published) /\ Genuine(b \o w, seen.confirmed)
        /\ Confirmed(seen)
    BY InvFacts, Zenon DEF Stream
  <2>2. b \o w \in Seq(Pieces) /\ Len(b) \in 0 .. Len(b \o w)
        /\ w = SubSeq(b \o w, Len(b) + 1, Len(b \o w))
    <3>1. b \in Seq(Pieces) /\ w \in Seq(Pieces)
      BY InvFacts, Zenon
    <3>2. Len(b) \in 0 .. Len(b) /\ SubSeq(b, Len(b) + 1, Len(b)) \o w = w /\ b \o w \in Seq(Pieces)
      BY <3>1
    <3>3. QED
      BY <3>1, <3>2, SuffixOfBoth, Zenon
  <2>3. Genuine(w, seen.confirmed) /\ InOrder(seen.got, mqtt.events, w, seen.published)
    BY <2>1, <2>2, GenuineSuffix, OrderSuffix, Zenon
  <2>4. QED
    BY <2>1, <2>3, OrderEmpty, Zenon
<1>4. InOrder(seen.got, <<>>, <<>>, seen.published) /\ Genuine(<<>>, seen.confirmed)
  BY <1>3, OrderEmpty DEF Genuine
<1>5. <<>> \in Seq(Pieces)
  OBVIOUS
<1>6. CASE AttachAndConnect \/ ConnectRefused
  <2>1. /\ seen' \in SeenRecords /\ seen'.orphans = seen.orphans
        /\ Stream(<<>>, <<>>, <<>>, seen', TRUE)
    BY <1>2, <1>3, <1>4, <1>5, InvFacts, StreamEmpty, Zenon
  <2>2. /\ mqtt' \in MqttRecords /\ mqtt'.buffer = <<>> /\ mqtt'.events = <<>>
        /\ mqtt'.carrier = carriers + 1
    <3>1. \/ mqtt' = NoteConnectSent(AttachCarrier(MqttConfigure(mqtt), carriers + 1))
          \/ mqtt' = AttachCarrier(MqttConfigure(mqtt), carriers + 1)
      BY <1>6, Zenon DEF AttachAndConnect, ConnectRefused, EndCall
    <3>2. CASE mqtt' = NoteConnectSent(AttachCarrier(MqttConfigure(mqtt), carriers + 1))
      BY <1>1, <3>2, InvFacts, AttachRecord, Zenon
    <3>3. CASE mqtt' = AttachCarrier(MqttConfigure(mqtt), carriers + 1)
      BY <1>1, <3>3, InvFacts, AttachRecord, Zenon
    <3>4. QED
      BY <3>1, <3>2, <3>3, Zenon
  <2>3. wire' \in WireRecords /\ wire'.pieces = <<>>
    <3>1. PICK on \in BOOLEAN : wire' = [pieces |-> <<>>, end |-> "open", connected |-> on, ids |-> {}]
      BY <1>6, Zenon DEF AttachAndConnect, ConnectRefused
    <3>2. QED
      BY <1>5, <3>1, Zenon DEF WireRecords
  <2>4. \E stage \in {"connack", "idle"} : CallIs(mqttCall', mqttCall.kind, stage)
    BY <1>6, InvFacts, CallRecord, Zenon DEF AttachAndConnect, ConnectRefused, EndCall
  <2>5. live' = (live \ {mqtt.carrier}) \cup {carriers + 1} /\ mqttCall.pc = "ensure"
    BY <1>6, Zenon DEF AttachAndConnect, ConnectRefused
  <2>6. MqttTypes'
    BY <1>1, <2>1, <2>2, <2>3, <2>4, <2>5, InvFacts, Zenon DEF MqttTypes, CallIs
  <2>7. OneCarrier' /\ mqtt'.carrier \in live'
    BY <2>1, <2>2, <2>5, InvFacts, Zenon DEF OneCarrier
  <2>8. Stream(mqtt.buffer, wire.pieces, mqtt.events, seen, mqtt.carrier \in live)'
    BY <2>1, <2>2, <2>3, <2>7, Zenon DEF Stream
  <2>9. QED
    BY <2>6, <2>7, <2>8, Zenon DEF MqttInv
<1>7. CASE ConnectWriteFails
  <2>1. /\ seen' \in SeenRecords /\ seen'.orphans = seen.orphans
        /\ Stream(<<>>, w, <<>>, seen', FALSE)
    BY <1>2, <1>3, InvFacts, StreamEmpty, Zenon
  <2>2. /\ mqtt' \in MqttRecords /\ mqtt'.buffer = <<>> /\ mqtt'.events = <<>>
        /\ mqtt'.carrier = carriers + 1
    <3>1. mqtt' = MqttMarkFailed(AttachCarrier(MqttConfigure(mqtt), carriers + 1))
      BY <1>7, Zenon DEF ConnectWriteFails, EndCall
    <3>2. QED
      BY <1>1, <3>1, InvFacts, AttachRecord, Zenon
  <2>3. wire' = wire
    BY <1>7, Zenon DEF ConnectWriteFails
  <2>4. CallIs(mqttCall', mqttCall.kind, "idle")
    BY <1>7, InvFacts, CallRecord, Zenon DEF ConnectWriteFails, EndCall
  <2>5. live' = live \ {mqtt.carrier}
    BY <1>7, Zenon DEF ConnectWriteFails
  <2>6. MqttTypes'
    BY <1>1, <2>1, <2>2, <2>3, <2>4, <2>5, InvFacts, Zenon DEF MqttTypes, CallIs
  <2>7. OneCarrier' /\ mqtt'.carrier \notin live'
    BY <1>1, <2>1, <2>2, <2>5, InvFacts, Zenon DEF OneCarrier
  <2>8. Stream(mqtt.buffer, wire.pieces, mqtt.events, seen, mqtt.carrier \in live)'
    BY <2>1, <2>2, <2>3, <2>7, Zenon DEF Stream
  <2>9. QED
    BY <2>6, <2>7, <2>8, Zenon DEF MqttInv
<1>8. QED
  BY <1>6, <1>7, Zenon

LEMMA ReadNext == MqttInv /\ ReadPieces => MqttInv'
<1> SUFFICES ASSUME MqttInv, ReadPieces PROVE MqttInv'
  BY Zenon
<1> DEFINE b == mqtt.buffer
           w == wire.pieces
<1>1. PICK n \in 1 .. Len(w) :
          /\ mqtt' = [mqtt EXCEPT !.buffer = b \o SubSeq(w, 1, n), !.ping = FALSE]
          /\ wire' = [wire EXCEPT !.pieces = SubSeq(w, n + 1, Len(w))]
  BY Zenon DEF ReadPieces
<1> DEFINE x == b \o SubSeq(w, 1, n)
           y == SubSeq(w, n + 1, Len(w))
<1>2. mqtt.carrier \in live /\ UNCHANGED <<mqttCall, live, carriers, seen>>
  BY Zenon DEF ReadPieces
<1>3. Stream(b, w, mqtt.events, seen, TRUE)
  BY <1>2, InvFacts, Zenon DEF Stream
<1>4. x \in Seq(Pieces) /\ y \in Seq(Pieces) /\ Stream(x, y, mqtt.events, seen, TRUE)
  BY <1>3, InvFacts, StreamRead, Zenon
<1>5. mqtt' = [mqtt EXCEPT !.buffer = x, !.ping = FALSE] /\ wire' = [wire EXCEPT !.pieces = y]
  BY <1>1, Zenon
<1> HIDE DEF x, y
<1>6. mqtt' \in MqttRecords /\ mqtt'.buffer = x /\ mqtt'.events = mqtt.events
      /\ mqtt'.carrier = mqtt.carrier
  BY <1>4, <1>5, InvFacts, Zenon DEF MqttRecords
<1>7. wire' \in WireRecords /\ wire'.pieces = y
  BY <1>4, <1>5, InvFacts, Zenon DEF WireRecords
<1>8. MqttTypes' /\ OneCarrier'
  BY <1>2, <1>6, <1>7, InvFacts, Zenon DEF MqttTypes, OneCarrier
<1>9. Stream(mqtt.buffer, wire.pieces, mqtt.events, seen, mqtt.carrier \in live)'
  BY <1>2, <1>4, <1>6, <1>7, Zenon DEF Stream
<1>10. QED
  BY <1>8, <1>9, Zenon DEF MqttInv

LEMMA EventNext == MqttInv /\ ReadEvent /\ mqtt.events # <<>> => MqttInv'
<1> SUFFICES ASSUME MqttInv, ReadEvent, mqtt.events # <<>> PROVE MqttInv'
  BY Zenon
<1> DEFINE ev == mqtt.events
           g == Received(seen.got, Head(ev))
<1>1. /\ mqtt' = [mqtt EXCEPT !.events = Tail(ev)] /\ seen' = [seen EXCEPT !.got = g]
      /\ mqttCall' = [mqttCall EXCEPT !.kind = "read_event", !.made = @ + 1]
      /\ mqttCall.pc = "idle" /\ UNCHANGED <<wire, live, carriers>>
  BY Zenon DEF ReadEvent
<1>2. /\ seen'.got = g /\ seen'.published = seen.published /\ seen'.aligned = seen.aligned
      /\ seen'.confirmed = seen.confirmed /\ seen'.done = seen.done /\ seen'.acked = seen.acked
      /\ seen'.orphans = seen.orphans
  BY <1>1, InvFacts, Zenon DEF SeenRecords
<1>3. /\ Tail(ev) \in Seq(Events) /\ seen'.got \in Seq(Nat)
      /\ Stream(mqtt.buffer, wire.pieces, Tail(ev), seen', mqtt.carrier \in live)
  BY <1>2, InvFacts, StreamDeliver, Zenon
<1>4. seen' \in SeenRecords
  BY <1>1, <1>2, <1>3, InvFacts, Zenon DEF SeenRecords
<1>5. mqtt' \in MqttRecords /\ mqtt'.buffer = mqtt.buffer /\ mqtt'.events = Tail(ev)
      /\ mqtt'.carrier = mqtt.carrier
  BY <1>1, <1>3, InvFacts, Zenon DEF MqttRecords
<1>6. CallIs(mqttCall', "read_event", "idle")
  BY <1>1, InvFacts, CallRecord, Zenon
<1>7. MqttTypes' /\ OneCarrier'
  BY <1>1, <1>2, <1>4, <1>5, <1>6, InvFacts, Zenon DEF MqttTypes, OneCarrier, CallIs
<1>8. QED
  BY <1>1, <1>3, <1>5, <1>7, Zenon DEF MqttInv

LEMMA HandledNext == MqttInv /\ PacketHandled => MqttInv'
<1> SUFFICES ASSUME MqttInv, PacketHandled PROVE MqttInv'
  BY Zenon
<1> DEFINE b == mqtt.buffer
           w == wire.pieces
           ev == mqtt.events
           open == mqtt.carrier \in live
<1>1. PICK p \in Decodes(b) : Unsolicited(p)
  BY Zenon DEF PacketHandled
<1>2. UNCHANGED <<wire, live, carriers>> /\ mqttCall.pc \in {"ack", "event"}
  BY Zenon DEF PacketHandled
<1> DEFINE read == [mqtt EXCEPT !.buffer = Rest(b)]
           c == CASE p.type = "disconnect" -> MqttMarkClosed(read)
                  [] p.type \in {"pingresp", "publish1"} -> [read EXCEPT !.ping = FALSE]
                  [] OTHER -> read
           queue == ev \o EventsOf(p)
           taken == mqttCall.pc = "event" /\ queue # <<>>
           acked == IF p.type = "publish1" THEN seen.acked \cup {p.id} ELSE seen.acked
           got == IF taken THEN Received(seen.got, Head(queue)) ELSE seen.got
           events == IF taken THEN Tail(queue) ELSE queue
<1>3. /\ mqtt' = [c EXCEPT !.events = events]
      /\ mqttCall' = IF taken THEN [mqttCall EXCEPT !.pc = "idle"] ELSE mqttCall
      /\ seen' = [seen EXCEPT !.acked = acked, !.got = got]
  BY <1>1, Zenon DEF Unsolicited
<1>4. /\ Rest(b) \in Seq(Pieces) /\ Stream(Rest(b), w, ev, seen, open)
  BY InvFacts, Decoded, StreamRest, Zenon
<1>5. /\ p \in Packets
      /\ p.type \in {"publish0", "publish1"} /\ p.id # 0 =>
             /\ p.id \in 0 .. seen.published
             /\ Below(Numbers(seen.got), {p.id}) /\ Below(EventNumbers(ev), {p.id})
             /\ Below({p.id}, PieceNumbers(Rest(b) \o w))
  BY InvFacts, Decoded, Zenon
<1>6. read \in MqttRecords /\ read.buffer = Rest(b) /\ read.carrier = mqtt.carrier
  BY <1>4, InvFacts, BufferRecord, Zenon
<1> HIDE DEF read
<1>7. c \in MqttRecords /\ c.buffer = Rest(b) /\ c.carrier = mqtt.carrier
  <2>1. Keeps(read, MqttMarkClosed(read), mqtt.carrier)
        /\ Keeps(read, [read EXCEPT !.ping = FALSE], mqtt.carrier)
    BY <1>6, MqttRecord, Zenon
  <2>2. c \in {MqttMarkClosed(read), [read EXCEPT !.ping = FALSE], read}
    BY Zenon
  <2> HIDE DEF c
  <2>3. QED
    BY <1>6, <2>1, <2>2, Zenon DEF Keeps
<1> DEFINE mid == [seen EXCEPT !.acked = acked]
<1>8. /\ mid.got = seen.got /\ mid.published = seen.published /\ mid.aligned = seen.aligned
      /\ mid.confirmed = seen.confirmed /\ mid.done = seen.done /\ mid.acked = acked
  BY InvFacts, Zenon DEF SeenRecords
<1>9. p.id \in Nat /\ acked \subseteq Nat
  BY <1>5, InvFacts, Zenon DEF Packets, SeenRecords
<1> HIDE DEF c, mid
<1>10. queue \in Seq(Events) /\ Stream(Rest(b), w, queue, mid, open)
  <2>1. CASE p.type \in {"publish0", "publish1"}
    <3> DEFINE e == [type |-> "publish", id |-> p.id]
    <3>1. EventsOf(p) = <<e>> /\ e \in Events /\ e.id = p.id
      BY <1>9, <2>1, Zenon DEF EventsOf, Events
    <3>2. acked \subseteq seen.acked \cup {p.id}
      BY Zenon
    <3> HIDE DEF e, acked
    <3>3. ev \o <<e>> \in Seq(Events) /\ Stream(Rest(b), w, ev \o <<e>>, mid, open)
      BY <1>4, <1>5, <1>8, <2>1, <3>1, <3>2, InvFacts, StreamQueue, Zenon
    <3>4. QED
      BY <3>1, <3>3, Zenon
  <2>2. CASE p.type = "disconnect"
    <3> DEFINE e == [type |-> "closed", id |-> 0]
    <3>1. EventsOf(p) = <<e>> /\ e \in Events /\ e.id = 0
      BY <2>2, Zenon DEF EventsOf, Events
    <3>2. acked \subseteq seen.acked \cup {0}
      BY <2>2, Zenon
    <3> HIDE DEF e, acked
    <3>3. ev \o <<e>> \in Seq(Events) /\ Stream(Rest(b), w, ev \o <<e>>, mid, open)
      BY <1>4, <1>8, <3>1, <3>2, InvFacts, StreamQueue, Zenon
    <3>4. QED
      BY <3>1, <3>3, Zenon
  <2>3. CASE p.type \notin {"publish0", "publish1", "disconnect"}
    <3>1. EventsOf(p) = <<>> /\ acked = seen.acked
      BY <2>3, Zenon DEF EventsOf
    <3>2. queue = ev
      BY <3>1, InvFacts
    <3>3. QED
      BY <1>4, <1>8, <3>1, <3>2, InvFacts, Zenon DEF Stream, Confirmed, StillHeld
  <2>4. QED
    BY <2>1, <2>2, <2>3, Zenon
<1> HIDE DEF queue, acked
<1>11. /\ seen'.got = got /\ seen'.published = mid.published /\ seen'.aligned = mid.aligned
       /\ seen'.confirmed = mid.confirmed /\ seen'.done = mid.done /\ seen'.acked = mid.acked
       /\ seen'.orphans = seen.orphans
  BY <1>3, <1>8, InvFacts, Zenon DEF SeenRecords
<1>12. events \in Seq(Events) /\ got \in Seq(Nat) /\ Stream(Rest(b), w, events, seen', open)
  <2>1. CASE taken
    <3>1. events = Tail(queue) /\ got = Received(mid.got, Head(queue)) /\ queue # <<>>
      BY <1>8, <2>1, Zenon
    <3>2. mid.got \in Seq(Nat)
      BY <1>8, InvFacts, Zenon
    <3> HIDE DEF events, got, open
    <3>3. Tail(queue) \in Seq(Events) /\ seen'.got \in Seq(Nat)
          /\ Stream(Rest(b), w, Tail(queue), seen', open)
      BY <1>10, <1>11, <3>1, <3>2, StreamDeliver, Zenon
    <3>4. QED
      BY <1>11, <3>1, <3>3, Zenon
  <2>2. CASE ~taken
    <3>1. events = queue /\ got = mid.got
      BY <1>8, <2>2, Zenon
    <3>2. got \in Seq(Nat)
      BY <1>8, <3>1, InvFacts, Zenon
    <3> HIDE DEF events, got, open
    <3>3. QED
      BY <1>10, <1>11, <3>1, <3>2, Zenon DEF Stream, Confirmed, StillHeld
  <2>3. QED
    BY <2>1, <2>2, Zenon
<1> HIDE DEF events, got
<1>13. seen' \in SeenRecords
  BY <1>3, <1>9, <1>12, InvFacts, Zenon DEF SeenRecords
<1>14. mqtt' \in MqttRecords /\ mqtt'.buffer = Rest(b) /\ mqtt'.events = events
       /\ mqtt'.carrier = mqtt.carrier
  BY <1>3, <1>7, <1>12, Zenon DEF MqttRecords
<1>15. \E stage \in {"idle", mqttCall.pc} : CallIs(mqttCall', mqttCall.kind, stage)
  <2>1. CallIs(mqttCall, mqttCall.kind, mqttCall.pc)
    BY InvFacts, Zenon DEF CallIs
  <2>2. CallIs([mqttCall EXCEPT !.pc = "idle"], mqttCall.kind, "idle")
    BY InvFacts, CallRecord, Zenon
  <2>3. QED
    BY <1>3, <2>1, <2>2, Zenon
<1>16. MqttTypes' /\ OneCarrier'
  BY <1>2, <1>11, <1>13, <1>14, <1>15, InvFacts, Zenon DEF MqttTypes, OneCarrier, CallIs
<1>17. QED
  BY <1>2, <1>12, <1>14, <1>16, Zenon DEF MqttInv

LEMMA SendsNext == MqttInv /\ BrokerSends => MqttInv'
<1> SUFFICES ASSUME MqttInv, BrokerSends PROVE MqttInv'
  BY Zenon
<1> DEFINE w == wire.pieces
<1>1. PICK p \in BrokerPackets :
          /\ wire' = [wire EXCEPT !.pieces =
                         w \o <<[packet |-> p, piece |-> 1], [packet |-> p, piece |-> 2]>>]
          /\ seen' = [seen EXCEPT
                !.sent = @ + 1,
                !.published = IF p.type \in {"publish0", "publish1"} THEN @ + 1 ELSE @,
                !.confirmed = IF <<p.type, p.id>> \in wire.ids /\ p.ok
                              THEN @ \cup {<<p.type, p.id>>} ELSE @]
  BY Zenon DEF BrokerSends
<1>2. UNCHANGED <<mqtt, mqttCall, live, carriers>>
  BY Zenon DEF BrokerSends
<1>3. wire.ids \subseteq AckTypes \X Nat /\ seen.published + 1 \in Nat
  BY InvFacts DEF WireRecords
<1>4. /\ p \in Packets
      /\ p.type \in {"publish0", "publish1"} => p.id = seen.published + 1
      /\ p.type \in AckTypes => <<p.type, p.id>> \in wire.ids
  <2> DEFINE A == {Packet("publish0", seen.published + 1, TRUE),
                   Packet("publish1", seen.published + 1, TRUE)}
             B1 == {Packet("connack", 0, ok) : ok \in BOOLEAN}
             B == {Packet("pingresp", 0, TRUE), Packet("disconnect", 0, TRUE),
                   Packet("malformed", 0, TRUE)} \cup B1
             C == {Packet(r[1], r[2], ok) : r \in wire.ids, ok \in BOOLEAN}
  <2>1. CASE p \in A
    <3>1. PICK type \in {"publish0", "publish1"} : p = Packet(type, seen.published + 1, TRUE)
      BY <2>1, Zenon
    <3>2. type \in PacketTypes /\ type \notin AckTypes
      BY <3>1, Zenon DEF PacketTypes, AckTypes
    <3>3. p \in Packets /\ p.type = type /\ p.id = seen.published + 1
      BY <1>3, <3>1, <3>2, PacketIs, Zenon
    <3>4. QED
      BY <3>2, <3>3, Zenon
  <2>2. CASE p \in B
    <3>1. PICK type \in {"pingresp", "disconnect", "malformed", "connack"}, ok \in BOOLEAN :
              p = Packet(type, 0, ok)
      BY <2>2, Zenon
    <3>2. type \in PacketTypes /\ type \notin AckTypes /\ type \notin {"publish0", "publish1"}
      BY <3>1, Zenon DEF PacketTypes, AckTypes
    <3>3. p \in Packets /\ p.type = type
      BY <3>1, <3>2, PacketIs
    <3>4. QED
      BY <3>2, <3>3, Zenon
  <2>3. CASE p \in C
    <3>1. PICK r \in wire.ids, ok \in BOOLEAN : p = Packet(r[1], r[2], ok)
      BY <2>3
    <3>2. r[1] \in AckTypes /\ r[2] \in Nat /\ r = <<r[1], r[2]>>
      BY <1>3, <3>1
    <3>3. r[1] \in PacketTypes /\ r[1] \notin {"publish0", "publish1"}
      BY <3>2, Zenon DEF PacketTypes, AckTypes
    <3>4. p \in Packets /\ p.type = r[1] /\ p.id = r[2]
      BY <3>1, <3>2, <3>3, PacketIs
    <3>5. QED
      BY <3>2, <3>3, <3>4, Zenon
  <2>4. p \in A \cup B \cup C
    <3>1. BrokerPackets = {Packet("publish0", seen.published + 1, TRUE),
              Packet("publish1", seen.published + 1, TRUE), Packet("pingresp", 0, TRUE),
              Packet("disconnect", 0, TRUE), Packet("malformed", 0, TRUE)} \cup B1 \cup C
      BY DEF BrokerPackets
    <3> HIDE DEF B1, C
    <3>2. QED
      BY <3>1, Zenon
  <2> HIDE DEF A, B, C
  <2>5. QED
    BY <2>1, <2>2, <2>3, <2>4, Zenon
<1> DEFINE v == w \o <<[packet |-> p, piece |-> 1], [packet |-> p, piece |-> 2]>>
           pub == IF p.type \in {"publish0", "publish1"} THEN seen.published + 1 ELSE seen.published
           con == IF <<p.type, p.id>> \in wire.ids /\ p.ok
                  THEN seen.confirmed \cup {<<p.type, p.id>>} ELSE seen.confirmed
<1>5. /\ pub \in Nat /\ seen.published <= pub /\ seen.confirmed \subseteq con
      /\ p.type \in {"publish0", "publish1"} => pub = seen.published + 1
      /\ p.ok /\ p.type \in AckTypes => <<p.type, p.id>> \in con
  BY <1>4, InvFacts, SMTT(30)
<1>6. con \subseteq AckTypes \X Nat
  BY <1>3, InvFacts, Zenon DEF SeenRecords
<1>7. seen.sent + 1 \in Nat
  BY InvFacts DEF SeenRecords
<1>8. seen' = [seen EXCEPT !.sent = seen.sent + 1, !.published = pub, !.confirmed = con]
  BY <1>1, Zenon
<1>9. wire' = [wire EXCEPT !.pieces = v]
  BY <1>1, Zenon
<1> HIDE DEF pub, con
<1>10. /\ seen' \in SeenRecords /\ seen'.published = pub /\ seen'.confirmed = con
       /\ seen'.got = seen.got /\ seen'.aligned = seen.aligned /\ seen'.done = seen.done
       /\ seen'.acked = seen.acked /\ seen'.orphans = seen.orphans
  BY <1>5, <1>6, <1>7, <1>8, InvFacts, Zenon DEF SeenRecords
<1> DEFINE open == mqtt.carrier \in live
<1>11. Stream(mqtt.buffer, w, mqtt.events, seen, open)
  BY InvFacts, Zenon
<1> HIDE DEF open
<1>12. v \in Seq(Pieces) /\ Stream(mqtt.buffer, v, mqtt.events, seen', open)
  BY <1>4, <1>5, <1>10, <1>11, InvFacts, StreamSend, Zenon
<1> HIDE DEF v
<1>13. wire' \in WireRecords /\ wire'.pieces = v
  BY <1>9, <1>12, InvFacts, Zenon DEF WireRecords
<1>14. MqttTypes' /\ OneCarrier'
  BY <1>2, <1>10, <1>13, InvFacts, Zenon DEF MqttTypes, OneCarrier
<1>15. QED
  BY <1>2, <1>12, <1>13, <1>14, Zenon DEF MqttInv, open

LEMMA MqttInitInv == MqttInit => MqttInv
<1> SUFFICES ASSUME MqttInit PROVE MqttInv
  BY Zenon
<1>1. <<>> \in Seq(Pieces) /\ <<>> \in Seq(Events) /\ <<>> \in Seq(Nat)
  OBVIOUS
<1>2. /\ mqtt \in MqttRecords /\ mqtt.buffer = <<>> /\ mqtt.events = <<>> /\ mqtt.carrier = 0
  BY <1>1, Zenon DEF MqttInit, MqttRecords, NoCarrier
<1>3. mqttCall \in CallRecords /\ mqttCall.pc = "idle"
  BY Zenon DEF MqttInit, CallRecords
<1>4. wire \in WireRecords /\ wire.pieces = <<>>
  BY <1>1, Zenon DEF MqttInit, WireRecords
<1>5. /\ seen \in SeenRecords /\ seen.got = <<>> /\ seen.published = 0 /\ seen.acked = {}
      /\ seen.done = {} /\ live = {} /\ carriers = 0
  BY <1>1, Zenon DEF MqttInit, SeenRecords
<1>6. MqttTypes /\ OneCarrier
  BY <1>2, <1>3, <1>4, <1>5 DEF MqttTypes, OneCarrier
<1>7. /\ Framed(<<>>) /\ Whole(<<>>) /\ Genuine(<<>>, seen.confirmed) /\ <<>> \o <<>> = <<>>
  BY DEF Framed, Whole, Genuine
<1>8. InOrder(<<>>, <<>>, <<>>, 0)
  BY DEF InOrder, Rising, RisingEvents, RisingPieces, Below, Numbers, EventNumbers, PieceNumbers
<1>9. StillHeld(seen, <<>>) /\ Confirmed(seen)
  BY <1>5, Zenon DEF StillHeld, Confirmed
<1>10. Stream(<<>>, <<>>, <<>>, seen, mqtt.carrier \in live)
  BY <1>5, <1>7, <1>8, <1>9, Zenon DEF Stream
<1>11. QED
  BY <1>2, <1>4, <1>6, <1>10, Zenon DEF MqttInv

LEMMA MqttNextInv == MqttInv /\ [MqttNext]_mqttVars => MqttInv'
<1> SUFFICES ASSUME MqttInv, [MqttNext]_mqttVars PROVE MqttInv'
  BY Zenon
<1>1. CASE UNCHANGED mqttVars
  BY <1>1, Zenon DEF mqttVars, MqttInv, MqttTypes, OneCarrier
<1>2. CASE QuietMqttStep
  BY <1>2, QuietNext, Zenon
<1>3. CASE TakingStep
  BY <1>3, TakingNext, Zenon
<1>4. CASE MqttReadFails \/ PingRequest
  BY <1>4, FailingNext, Zenon
<1>5. CASE AttachAndConnect \/ ConnectRefused \/ ConnectWriteFails
  BY <1>5, AttachNext, Zenon
<1>6. CASE ReadPieces
  BY <1>6, ReadNext, Zenon
<1>7. CASE ReadEvent /\ mqtt.events # <<>>
  BY <1>7, EventNext, Zenon
<1>8. CASE PacketHandled
  BY <1>8, HandledNext, Zenon
<1>9. CASE BrokerSends
  BY <1>9, SendsNext, Zenon
<1>10. QED
  BY <1>1, <1>2, <1>3, <1>4, <1>5, <1>6, <1>7, <1>8, <1>9, Zenon
     DEF MqttNext, ClientStep, QuietMqttStep, TakingStep

LEMMA MqttInvariant == MqttSpec => []MqttInv
  BY MqttInitInv, MqttNextInv, PTL DEF MqttSpec

\* A call that returned true was acknowledged by the broker for its own packet.
THEOREM TrueIsAcknowledged == MqttSpec => []TrueMeansAcknowledged
<1>1. MqttInv => TrueMeansAcknowledged
  BY Zenon DEF MqttInv, Stream, Confirmed, TrueMeansAcknowledged
<1>2. QED
  BY <1>1, MqttInvariant, PTL

\* An acknowledged publish is with the program or in its queue, and the program
\* sees publishes in the order they were sent.
THEOREM AcknowledgedStays == MqttSpec => []AcknowledgedIsKept
<1>1. MqttInv => AcknowledgedIsKept
  <2> SUFFICES ASSUME MqttInv PROVE AcknowledgedIsKept
    BY Zenon
  <2>1. Rising(seen.got) /\ StillHeld(seen, mqtt.events)
    BY Zenon DEF MqttInv, Stream, InOrder
  <2>2. Numbers(seen.got) \subseteq Range(seen.got)
    BY InvFacts DEF Numbers, Range
  <2>3. \A m \in EventNumbers(mqtt.events) : \E i \in 1 .. Len(mqtt.events) : mqtt.events[i].id = m
    BY Zenon DEF EventNumbers
  <2>4. QED
    BY <2>1, <2>2, <2>3, Zenon DEF AcknowledgedIsKept, StillHeld, Rising
<1>2. QED
  BY <1>1, MqttInvariant, PTL

\* Reconnecting never leaves the old carrier open.
THEOREM CarriersAreClosed == MqttSpec => []OneCarrier
<1>1. MqttInv => OneCarrier
  BY Zenon DEF MqttInv
<1>2. QED
  BY <1>1, MqttInvariant, PTL

-----------------------------------------------------------------------------
(* HTTP/2.  Every update of a session's dag but reserve_stream is a        *)
(* DagStep: it keeps the type and the shape, adds no stream, leaves the id *)
(* counter alone and does not make the session usable again.  The lemmas   *)
(* Dag* show that for each method; the rest is which request may hold      *)
(* which session and stream at which step (Ownership).                     *)

DagStep(d, e) ==
    /\ IsDag(e)
    /\ DagShape(e)
    /\ DOMAIN e.streams \subseteq DOMAIN d.streams
    /\ e.next = d.next
    /\ CanAcceptNewStreams(e) => CanAcceptNewStreams(d)

\* Pruning keeps a well-shaped session well-shaped, and gives a session whose
\* only fault is that it keeps streams that are over its shape back.
LEMMA DagPrune ==
    ASSUME NEW d, IsDag(d),
           d.frontier = "Open" => ~d.goaway,
           d.frontier = "Draining" => d.goaway
    PROVE  DagStep(d, PruneTerminalStreams(d))
BY Zenon DEF DagStep, PruneTerminalStreams, IsDag, DagShape, ActiveStreams, CanAcceptNewStreams,
       SessionFrontiers, StreamFrontiers, SessionTerminal, StreamTerminal

\* Setting the frontier of one stream, if it is still in the map.
LEMMA DagSetStream ==
    ASSUME NEW d, IsDag(d), NEW id, id \in DOMAIN d.streams,
           NEW f \in StreamFrontiers
    PROVE  LET e == [d EXCEPT !.streams[id] = f]
           IN  /\ IsDag(e)
               /\ DOMAIN e.streams = DOMAIN d.streams
               /\ e.next = d.next
               /\ e.frontier = d.frontier
               /\ e.goaway = d.goaway
               /\ \A i \in DOMAIN d.streams : e.streams[i] = IF i = id THEN f ELSE d.streams[i]
BY Zenon DEF IsDag

\* The goals that leave a live stream live.  A Reset stream of a failed session
\* may come back to life here; a failed session has no shape to lose.
LEMMA DagProgress ==
    ASSUME NEW d, IsDag(d), DagShape(d), NEW id
    PROVE  /\ DagStep(d, MarkStreamRequestCommitted(d, id))
           /\ DagStep(d, MarkStreamResponseHeadReady(d, id))
           /\ DagStep(d, MarkStreamResponseBodyReady(d, id))
<1>1. ASSUME NEW f \in StreamFrontiers, id \in DOMAIN d.streams,
             StreamTerminal(f) => StreamTerminal(d.streams[id])
      PROVE  DagStep(d, [d EXCEPT !.streams[id] = f])
  <2> DEFINE e == [d EXCEPT !.streams[id] = f]
  <2>1. /\ IsDag(e) /\ DOMAIN e.streams = DOMAIN d.streams /\ e.next = d.next
        /\ e.frontier = d.frontier /\ e.goaway = d.goaway
        /\ \A i \in DOMAIN d.streams : e.streams[i] = IF i = id THEN f ELSE d.streams[i]
    BY <1>1, DagSetStream
  <2> HIDE DEF e
  <2>2. ActiveStreams(d) \subseteq ActiveStreams(e)
    BY <1>1, <2>1, Zenon DEF ActiveStreams
  <2>3. ActiveStreams(e) \subseteq DOMAIN e.streams
    BY Zenon DEF ActiveStreams
  <2>4. DagShape(e)
    BY <2>1, <2>2, <2>3, Zenon DEF DagShape
  <2>5. DagStep(d, e)
    BY <2>1, <2>4, Zenon DEF DagStep, CanAcceptNewStreams
  <2> QED BY <2>5, Zenon DEF e
<1>2. DagStep(d, d)
  BY Zenon DEF DagStep
<1>3. ASSUME id \in DOMAIN d.streams
      PROVE  /\ d.streams[id] \in StreamFrontiers
             /\ RequestCommitted(d.streams[id]) \in StreamFrontiers
             /\ ResponseHeadReady(d.streams[id]) \in StreamFrontiers
             /\ ResponseBodyReady(d.streams[id]) \in StreamFrontiers
             /\ ~StreamTerminal(RequestCommitted(d.streams[id]))
             /\ StreamTerminal(ResponseHeadReady(d.streams[id])) => StreamTerminal(d.streams[id])
             /\ StreamTerminal(ResponseBodyReady(d.streams[id])) => StreamTerminal(d.streams[id])
  BY <1>3, Zenon DEF IsDag, StreamFrontiers, StreamTerminal, RequestCommitted, ResponseHeadReady,
              ResponseBodyReady
<1>4. DagStep(d, MarkStreamRequestCommitted(d, id))
  BY <1>1, <1>2, <1>3, Zenon DEF MarkStreamRequestCommitted, AdvanceStream
<1>5. DagStep(d, MarkStreamResponseHeadReady(d, id))
  BY <1>1, <1>2, <1>3, Zenon DEF MarkStreamResponseHeadReady, AdvanceStream
<1>6. DagStep(d, MarkStreamResponseBodyReady(d, id))
  BY <1>1, <1>2, <1>3, Zenon DEF MarkStreamResponseBodyReady, AdvanceStream
<1> QED BY <1>4, <1>5, <1>6, Zenon

\* The two ways a stream ends: its frontier is set, then the session is pruned.
LEMMA DagRetire ==
    ASSUME NEW d, IsDag(d), DagShape(d), NEW id
    PROVE  /\ DagStep(d, MarkStreamClosed(d, id))
           /\ DagStep(d, MarkStreamReset(d, id))
<1>1. ASSUME NEW e, IsDag(e), DOMAIN e.streams = DOMAIN d.streams, e.next = d.next,
             e.frontier = d.frontier, e.goaway = d.goaway
      PROVE  DagStep(d, PruneTerminalStreams(e))
  <2>1. DagStep(e, PruneTerminalStreams(e))
    BY <1>1, DagPrune, Zenon DEF DagShape
  <2> QED BY <1>1, <2>1, Zenon DEF DagStep, CanAcceptNewStreams
<1>2. "Closed" \in StreamFrontiers /\ "Reset" \in StreamFrontiers
  BY Zenon DEF StreamFrontiers
<1>3. CASE id \in DOMAIN d.streams
  <2>1. ASSUME NEW f \in StreamFrontiers
        PROVE  DagStep(d, PruneTerminalStreams([d EXCEPT !.streams[id] = f]))
    <3> DEFINE e == [d EXCEPT !.streams[id] = f]
    <3>1. /\ IsDag(e) /\ DOMAIN e.streams = DOMAIN d.streams /\ e.next = d.next
          /\ e.frontier = d.frontier /\ e.goaway = d.goaway
      BY <1>3, <2>1, DagSetStream
    <3> HIDE DEF e
    <3>2. DagStep(d, PruneTerminalStreams(e))
      BY <1>1, <3>1, Zenon
    <3> QED BY <3>2, Zenon DEF e
  <2> QED BY <1>2, <1>3, <2>1, Zenon DEF MarkStreamClosed, MarkStreamReset, AdvanceStream,
                                  StreamClosed, StreamReset
<1>4. CASE id \notin DOMAIN d.streams
  <2>1. DagStep(d, PruneTerminalStreams(d))
    BY <1>1, Zenon
  <2> QED BY <1>4, <2>1, Zenon DEF MarkStreamClosed, MarkStreamReset, AdvanceStream
<1> QED BY <1>3, <1>4, Zenon

\* GOAWAY, failure and the end of the connection.
LEMMA DagEnd ==
    ASSUME NEW d, IsDag(d), DagShape(d)
    PROVE  /\ DagStep(d, MarkGoaway(d))
           /\ DagStep(d, MarkConnectionFailed(d))
           /\ DagStep(d, MarkConnectionClosed(d))
<1>1. DagStep(d, MarkGoaway(d))
  BY Zenon DEF DagStep, MarkGoaway, IsDag, DagShape, ActiveStreams, CanAcceptNewStreams,
         SessionFrontiers, SessionTerminal
<1>2. DagStep(d, MarkConnectionFailed(d))
  BY Zenon DEF DagStep, MarkConnectionFailed, IsDag, DagShape, ActiveStreams, CanAcceptNewStreams,
         SessionFrontiers, StreamFrontiers, SessionTerminal, StreamTerminal
<1>3. ActiveStreams(d) = {} => DagStep(d, [d EXCEPT !.frontier = "Closed"])
  BY Zenon DEF DagStep, IsDag, DagShape, ActiveStreams, CanAcceptNewStreams,
         SessionFrontiers, SessionTerminal
<1> QED BY <1>1, <1>2, <1>3, Zenon DEF MarkConnectionClosed

\* What each kind of error does is one of the above.
LEMMA DagError ==
    ASSUME NEW d, IsDag(d), DagShape(d), NEW id, NEW kind \in ErrorKinds
    PROVE  /\ DagStep(d, ApplySessionError(d, kind))
           /\ DagStep(d, ApplyStreamError(d, id, kind))
<1>1. DagStep(d, d)
  BY Zenon DEF DagStep
<1> QED BY <1>1, DagEnd, DagRetire, Zenon DEF ApplySessionError, ApplyStreamError, ErrorKinds

\* reserve_stream on a session that accepts streams adds one live stream under
\* the counter's value and moves the counter on.
LEMMA DagReserve ==
    ASSUME NEW d, IsDag(d), DagShape(d), CanAcceptNewStreams(d)
    PROVE  LET e == ReserveStream(d)
           IN  /\ IsDag(e)
               /\ DagShape(e)
               /\ DOMAIN e.streams = DOMAIN d.streams \cup {d.next}
               /\ e.next = d.next + 2
<1> DEFINE p == PruneTerminalStreams(d)
<1>1. /\ IsDag(p) /\ DagShape(p) /\ DOMAIN p.streams = DOMAIN d.streams
      /\ p.next = d.next /\ p.frontier = "Open" /\ ~p.goaway
  BY Zenon DEF PruneTerminalStreams, IsDag, DagShape, ActiveStreams, CanAcceptNewStreams,
         SessionFrontiers, SessionTerminal, StreamTerminal
<1> DEFINE st == [id \in DOMAIN p.streams \cup {p.next} |->
                      IF id = p.next THEN "AttachedToExchange" ELSE p.streams[id]]
           e == [frontier |-> p.frontier, goaway |-> p.goaway, next |-> p.next + 2,
                 streams |-> st]
<1> HIDE DEF p
<1>2. e.streams = st /\ e.next = p.next + 2 /\ e.frontier = "Open" /\ ~e.goaway
  BY <1>1, Zenon DEF IsDag
<1>3. IsDag(e)
  <2>1. st \in [DOMAIN st -> StreamFrontiers] /\ DOMAIN st \subseteq Nat
    BY <1>1, Zenon DEF IsDag, StreamFrontiers
  <2> HIDE DEF st
  <2>2. e \in [frontier : SessionFrontiers, goaway : BOOLEAN, next : Nat,
               streams : [DOMAIN st -> StreamFrontiers]]
    BY <1>1, <2>1 DEF IsDag
  <2> QED BY <1>2, <2>1, <2>2, Zenon DEF IsDag
<1>4. ActiveStreams(e) = DOMAIN e.streams
  BY <1>1, <1>2, Zenon DEF ActiveStreams, DagShape, SessionTerminal, StreamTerminal
<1>5. DagShape(e)
  BY <1>2, <1>4, Zenon DEF DagShape
<1>6. e = ReserveStream(d)
  BY Zenon DEF ReserveStream, p
<1> HIDE DEF e
<1> QED BY <1>1, <1>2, <1>3, <1>5, <1>6, Zenon

----------------------------------------------------------------------------
\* Where a request holds a session that exists.
HoldsSession == {"probe", "clear", "ready", "reserve", "build", "sending", "committed",
                 "head_ready", "body", "streaming", "retired"}

\* Where a request has not reserved its stream yet.
Unreserved == {"lookup", "probe", "clear", "begin_open", "subscribe", "waiting",
               "connecting", "publish", "lower_flag", "notify", "ready", "reserve"}

\* Who refers to what: the id an opener drew is the newest and names no session
\* until it has connected, and a stream that was reserved is one its session's
\* counter has passed.
Ownership ==
    /\ \A s \in Sessions : dag[s].next >= 1
    /\ \A r \in Requests :
        /\ pc[r] \in HoldsSession => held[r] \in Sessions
        /\ pc[r] = "connecting" => /\ held[r] = nextSessionId
                                  /\ held[r] # None
                                  /\ nextSessionId \notin Sessions
        /\ pc[r] \in {"publish", "lower_flag", "notify"} => held[r] \in Sessions \cup {None}
        /\ stream[r] # None => held[r] \in Sessions /\ stream[r] < dag[held[r]].next
        /\ pc[r] \in Unreserved => stream[r] = None

IInv == TypeOK /\ ExclusiveOpen /\ SessionShape /\ StreamOwnership /\ Ownership

\* What every step but opening a session and reserving a stream does to the dags.
DagsEvolve ==
    /\ Sessions' = Sessions
    /\ dag' = [s \in Sessions |-> dag'[s]]
    /\ \A s \in Sessions : DagStep(dag[s], dag'[s])

\* A dag that does not change has taken a DagStep.
LEMMA DagsStutter ==
    ASSUME IInv, UNCHANGED dag
    PROVE  DagsEvolve
BY Zenon DEF DagsEvolve, DagStep, IInv, TypeOK, SessionShape, Sessions

\* An update of one session's dag is one of all.
LEMMA DagsUpdate ==
    ASSUME IInv, NEW s \in Sessions, NEW e, DagStep(dag[s], e), SetDag(s, e)
    PROVE  DagsEvolve
<1>1. Sessions' = Sessions /\ dag' = [t \in Sessions |-> dag'[t]]
  BY Zenon DEF SetDag, Sessions, IInv, TypeOK
<1>2. dag'[s] = e /\ \A t \in Sessions : t # s => dag'[t] = dag[t]
  BY Zenon DEF SetDag, Sessions, IInv, TypeOK
<1>3. \A t \in Sessions : DagStep(dag[t], dag[t])
  BY Zenon DEF DagStep, IInv, TypeOK, SessionShape
<1> QED BY <1>1, <1>2, <1>3, Zenon DEF DagsEvolve

\* The steps a request takes once it holds a session, and the connection tasks'
\* steps, keep the invariant: they change the dags by DagSteps and move requests
\* forward only.
QuietMove(q) ==
    /\ pc[q] \in HoldsSession
    /\ pc'[q] \in HoldsSession \cup Over
    /\ pc'[q] \in Unreserved => pc[q] \in Unreserved

\* A step that moves one request, and perhaps changes sessions, but opens none
\* and reserves no stream.
LEMMA QuietStep ==
    ASSUME IInv, DagsEvolve,
           UNCHANGED <<current, opening, nextSessionId, held, stream>>,
           conn' \in [Sessions -> {"running", "goaway", "ended"}],
           pc' \in [Requests -> Steps],
           \A q \in Requests : pc'[q] = pc[q] \/ QuietMove(q)
    PROVE  IInv'
<1> USE DEF IInv
<1>1. TypeOK'
  BY Zenon DEF TypeOK, DagsEvolve, DagStep
<1>2. ExclusiveOpen'
  <2>1. \A q \in Requests : pc'[q] \in OpenSection => pc[q] \in OpenSection
    BY Zenon DEF QuietMove, HoldsSession, OpenSection, Over
  <2> QED BY <2>1, Zenon DEF ExclusiveOpen
<1>3. SessionShape'
  BY Zenon DEF SessionShape, DagsEvolve, DagStep
<1>4. StreamOwnership'
  BY DEF StreamOwnership, DagsEvolve, DagStep
<1>5. Ownership'
  <2>1. \A s \in Sessions : dag'[s].next = dag[s].next
    BY Zenon DEF DagsEvolve, DagStep
  <2>2. \A q \in Requests :
            /\ pc'[q] \in HoldsSession => pc[q] \in HoldsSession
            /\ pc'[q] \in {"connecting", "publish", "lower_flag", "notify"} => pc'[q] = pc[q]
            /\ pc'[q] \in Unreserved => pc[q] \in Unreserved
    BY Zenon DEF QuietMove, HoldsSession, Over
  <2> QED BY <2>1, <2>2, Zenon DEF Ownership, DagsEvolve
<1> QED BY <1>1, <1>2, <1>3, <1>4, <1>5, Zenon

\* Updating a dag at a request that holds a session, or at a connection task.
LEMMA QuietActions ==
    ASSUME IInv, NEW r \in Requests,
           \/ Probe(r) \/ SenderReady(r) \/ SenderReadyFails(r) \/ BuildHttp2Request(r)
           \/ SendRequest(r) \/ NoteResponseHead(r) \/ SendRequestFails(r) \/ FromHyper(r)
           \/ NoteBodyReady(r) \/ NoteBodyEof(r) \/ NoteBodyError(r) \/ BodyDone(r)
    PROVE  DagsEvolve /\ IInv'
<1>1. /\ UNCHANGED <<current, opening, nextSessionId, held, stream, conn>>
      /\ pc' \in [Requests -> Steps]
      /\ \A q \in Requests : pc'[q] = pc[q] \/ QuietMove(q)
  BY DEF Probe, SenderReady, SenderReadyFails, BuildHttp2Request, SendRequest,
         NoteResponseHead, SendRequestFails, FromHyper, NoteBodyReady, NoteBodyEof,
         NoteBodyError, BodyDone, Goto, QuietMove, HoldsSession, Unreserved, Over,
         IInv, TypeOK, Steps
<1>2. held[r] \in Sessions
  BY Zenon DEF Probe, SenderReady, SenderReadyFails, BuildHttp2Request, SendRequest,
         NoteResponseHead, SendRequestFails, FromHyper, NoteBodyReady, NoteBodyEof,
         NoteBodyError, BodyDone, HoldsSession, IInv, Ownership
<1>3. IsDag(dag[held[r]]) /\ DagShape(dag[held[r]])
  BY <1>2, Zenon DEF IInv, TypeOK, SessionShape
<1>4. DagsEvolve
  <2>1. CASE Probe(r) \/ SenderReady(r) \/ BuildHttp2Request(r) \/ FromHyper(r) \/ BodyDone(r)
    BY <2>1, DagsStutter, Zenon DEF Probe, SenderReady, BuildHttp2Request, FromHyper, BodyDone
  <2>2. CASE SenderReadyFails(r)
    BY <1>2, <1>3, <2>2, DagError, DagsUpdate, Zenon DEF SenderReadyFails
  <2>3. CASE SendRequestFails(r) \/ NoteBodyError(r)
    BY <1>2, <1>3, <2>3, DagError, DagsUpdate, Zenon DEF SendRequestFails, NoteBodyError
  <2>4. CASE SendRequest(r) \/ NoteResponseHead(r) \/ NoteBodyReady(r)
    BY <1>2, <1>3, <2>4, DagProgress, DagsUpdate, Zenon DEF SendRequest, NoteResponseHead, NoteBodyReady
  <2>5. CASE NoteBodyEof(r)
    BY <1>2, <1>3, <2>5, DagRetire, DagsUpdate, Zenon DEF NoteBodyEof
  <2> QED BY <2>1, <2>2, <2>3, <2>4, <2>5, Zenon
<1>5. conn' \in [Sessions -> {"running", "goaway", "ended"}]
  BY <1>1, Zenon DEF IInv, TypeOK
<1> QED BY <1>1, <1>4, <1>5, QuietStep, Zenon

\* The steps of the connection tasks.
LEMMA ConnectionActions ==
    ASSUME IInv, NEW s \in Sessions, ConnectionStep(s)
    PROVE  DagsEvolve /\ IInv'
<1>1. /\ UNCHANGED <<current, opening, nextSessionId, held, stream, pc>>
      /\ conn' \in [Sessions -> {"running", "goaway", "ended"}]
  BY Zenon DEF ConnectionStep, ConnectionEnds, ConnectionClosesAfterGoaway, IInv, TypeOK
<1>2. IsDag(dag[s]) /\ DagShape(dag[s])
  BY Zenon DEF IInv, TypeOK, SessionShape
<1>3. DagsEvolve
  BY <1>2, DagEnd, DagsUpdate, Zenon DEF ConnectionStep, ConnectionEnds, ConnectionClosesAfterGoaway
<1> QED BY <1>1, <1>3, QuietStep, Zenon DEF IInv, TypeOK

\* A client that goes away leaves everything where it was: the flag stays up,
\* but nobody is left in the open section.
LEMMA CancelAction ==
    ASSUME IInv, NEW r \in Requests, Cancel(r)
    PROVE  DagsEvolve /\ IInv'
<1>1. /\ UNCHANGED <<current, opening, nextSessionId, dag, conn, held, stream>>
      /\ pc' \in [Requests -> Steps]
      /\ \A q \in Requests : pc'[q] = pc[q] \/ pc'[q] = "failed"
  BY Zenon DEF Cancel, Goto, IInv, TypeOK, Steps
<1>2. DagsEvolve
  BY <1>1, DagsStutter, Zenon
<1>3. TypeOK'
  BY <1>1, Zenon DEF IInv, TypeOK, Sessions
<1>4. ExclusiveOpen'
  BY <1>1, Zenon DEF IInv, ExclusiveOpen, OpenSection
<1>5. SessionShape' /\ StreamOwnership'
  <2>1. SessionShape'
    BY <1>1, Zenon DEF IInv, SessionShape, Sessions
  <2>2. StreamOwnership /\ dag' = dag /\ held' = held /\ stream' = stream
    BY <1>1, Zenon DEF IInv
  <2>3. StreamOwnership'
    BY <2>2 DEF StreamOwnership, Sessions
  <2> QED BY <2>1, <2>3, Zenon
<1>6. Ownership'
  BY <1>1, Zenon DEF IInv, Ownership, Sessions, HoldsSession, Unreserved
<1> QED BY <1>2, <1>3, <1>4, <1>5, <1>6, Zenon DEF IInv

\* The steps that look for a session, before one is opened or used.
LEMMA AcquireActions ==
    ASSUME IInv, NEW r \in Requests,
           Lookup(r) \/ ClearStale(r) \/ TryBeginOpen(r) \/ Subscribe(r)
    PROVE  DagsEvolve /\ IInv'
<1>1. /\ UNCHANGED <<dag, conn, stream>> /\ Sessions' = Sessions
      /\ stream[r] = None
      /\ pc' \in [Requests -> Steps]
      /\ \A q \in Requests : q # r => pc'[q] = pc[q] /\ held'[q] = held[q]
      /\ nextSessionId' \in Nat /\ nextSessionId <= nextSessionId'
  BY DEF Lookup, ClearStale, TryBeginOpen, Subscribe, Goto, IInv, TypeOK, Steps, Ownership,
         Unreserved, Sessions
<1>2. DagsEvolve
  BY <1>1, DagsStutter, Zenon
<1>3. /\ current' \in Sessions \cup {None}
      /\ opening' \in BOOLEAN
      /\ held' \in [Requests -> 0 .. nextSessionId']
  <2>1. Sessions \cup {None} \subseteq 0 .. nextSessionId
    BY DEF IInv, TypeOK, None
  <2>2. current' \in Sessions \cup {None}
    BY Zenon DEF Lookup, ClearStale, TryBeginOpen, Subscribe, IInv, TypeOK, Ownership
  <2>3. opening' \in BOOLEAN
    BY Zenon DEF Lookup, ClearStale, TryBeginOpen, Subscribe, IInv, TypeOK
  <2>4. held' \in [Requests -> 0 .. nextSessionId']
    BY <2>1 DEF Lookup, ClearStale, TryBeginOpen, Subscribe, IInv, TypeOK, None
  <2> QED BY <2>2, <2>3, <2>4, Zenon
<1>4. TypeOK'
  BY <1>1, <1>3 DEF IInv, TypeOK
<1>5. ExclusiveOpen'
  <2>1. CASE Lookup(r) \/ ClearStale(r) \/ Subscribe(r)
    BY <2>1 DEF Lookup, ClearStale, Subscribe, Goto, IInv, TypeOK, ExclusiveOpen, OpenSection
  <2>2. CASE TryBeginOpen(r)
    BY <2>2 DEF TryBeginOpen, Goto, IInv, TypeOK, ExclusiveOpen, OpenSection
  <2> QED BY <2>1, <2>2, Zenon
<1>6. SessionShape' /\ StreamOwnership'
  <2>1. \A q \in Requests : stream[q] # None => q # r /\ held'[q] = held[q]
    BY <1>1, Zenon
  <2>2. SessionShape'
    BY <1>1, Zenon DEF IInv, SessionShape
  <2> QED BY <1>1, <2>1, <2>2 DEF IInv, StreamOwnership
<1>7. Ownership'
  <2>1. \A s \in Sessions' : dag'[s].next >= 1
    BY <1>1, Zenon DEF IInv, Ownership
  <2>2. /\ pc'[r] \in HoldsSession => held'[r] \in Sessions
        /\ pc'[r] = "connecting" => /\ held'[r] = nextSessionId'
                                   /\ held'[r] # None
                                   /\ nextSessionId' \notin Sessions
        /\ pc'[r] \notin {"publish", "lower_flag", "notify"}
    BY DEF Lookup, ClearStale, TryBeginOpen, Subscribe, Goto, IInv, TypeOK, HoldsSession, None
  <2>3. \A q \in Requests : q # r /\ pc'[q] = "connecting" => nextSessionId' = nextSessionId
    <3>1. CASE TryBeginOpen(r)
      BY <1>1, <3>1, Zenon DEF TryBeginOpen, IInv, ExclusiveOpen, OpenSection
    <3>2. CASE Lookup(r) \/ ClearStale(r) \/ Subscribe(r)
      BY <3>2, Zenon DEF Lookup, ClearStale, Subscribe
    <3> QED BY <3>1, <3>2, Zenon
  <2> QED BY <1>1, <2>1, <2>2, <2>3, Zenon DEF IInv, Ownership
<1> QED BY <1>2, <1>4, <1>5, <1>6, <1>7, Zenon DEF IInv

\* The end of an open that failed, and finish_open.
LEMMA FinishActions ==
    ASSUME IInv, NEW r \in Requests,
           \/ OpenSessionFails(r) \/ FinishOpenPublish(r) \/ FinishOpenLowerFlag(r)
           \/ FinishOpenNotify(r)
    PROVE  DagsEvolve /\ IInv'
<1>1. /\ UNCHANGED <<nextSessionId, dag, conn, stream>> /\ Sessions' = Sessions
      /\ stream[r] = None
      /\ pc' \in [Requests -> Steps]
      /\ \A q \in Requests : q # r =>
            /\ held'[q] = held[q]
            /\ pc'[q] = pc[q] \/ (pc[q] = "waiting" /\ pc'[q] = "lookup")
  BY DEF OpenSessionFails, FinishOpenPublish, FinishOpenLowerFlag, FinishOpenNotify, Goto,
         IInv, TypeOK, Steps, Ownership, Unreserved, Sessions
<1>2. DagsEvolve
  BY <1>1, DagsStutter, Zenon
<1>3. /\ current' \in Sessions \cup {None}
      /\ opening' \in BOOLEAN
      /\ held' \in [Requests -> 0 .. nextSessionId']
  <2>1. Sessions \cup {None} \subseteq 0 .. nextSessionId
    BY DEF IInv, TypeOK, None
  <2>2. current' \in Sessions \cup {None}
    BY Zenon DEF OpenSessionFails, FinishOpenPublish, FinishOpenLowerFlag, FinishOpenNotify,
           IInv, TypeOK, Ownership
  <2>3. opening' \in BOOLEAN
    BY Zenon DEF OpenSessionFails, FinishOpenPublish, FinishOpenLowerFlag, FinishOpenNotify, IInv, TypeOK
  <2>4. held' \in [Requests -> 0 .. nextSessionId']
    BY <2>1, Zenon DEF OpenSessionFails, FinishOpenPublish, FinishOpenLowerFlag,
                FinishOpenNotify, IInv, TypeOK, None
  <2> QED BY <2>2, <2>3, <2>4, Zenon
<1>4. TypeOK'
  BY <1>1, <1>3, Zenon DEF IInv, TypeOK
<1>5. ExclusiveOpen'
  <2>1. CASE OpenSessionFails(r) \/ FinishOpenPublish(r)
    BY <2>1, Zenon DEF OpenSessionFails, FinishOpenPublish, Goto, IInv, TypeOK, ExclusiveOpen,
                OpenSection
  <2>2. CASE FinishOpenLowerFlag(r)
    <3>1. \A q \in Requests : pc'[q] \notin OpenSection
      BY <2>2, Zenon DEF FinishOpenLowerFlag, Goto, IInv, TypeOK, ExclusiveOpen, OpenSection
    <3> QED BY <3>1, Zenon DEF ExclusiveOpen
  <2>3. CASE FinishOpenNotify(r)
    <3>1. \A q \in Requests : pc'[q] \in OpenSection => pc'[q] = pc[q]
      BY <2>3, Zenon DEF FinishOpenNotify, OpenSection
    <3> QED BY <2>3, <3>1, Zenon DEF FinishOpenNotify, IInv, ExclusiveOpen
  <2> QED BY <2>1, <2>2, <2>3, Zenon
<1>6. SessionShape' /\ StreamOwnership'
  <2>1. \A q \in Requests : stream[q] # None => q # r /\ held'[q] = held[q]
    BY <1>1, Zenon
  <2>2. SessionShape'
    BY <1>1, Zenon DEF IInv, SessionShape
  <2>3. /\ dag' = dag /\ stream' = stream /\ Sessions' = Sessions
        /\ \A q \in Requests : stream[q] # None => held'[q] = held[q]
    BY <1>1, <2>1, Zenon
  <2>4. \A p, q \in Requests :
           p # q /\ held'[p] = held'[q] /\ stream'[p] # None => stream'[p] # stream'[q]
    BY <2>3 DEF IInv, StreamOwnership
  <2>5. \A s \in Sessions' : \A id \in DOMAIN dag'[s].streams :
           id # None /\ \E q \in Requests : held'[q] = s /\ stream'[q] = id
    <3>1. SUFFICES ASSUME NEW s \in Sessions, NEW id \in DOMAIN dag[s].streams
                   PROVE  id # None /\ \E q \in Requests : held'[q] = s /\ stream[q] = id
      BY <2>3
    <3>2. id # None /\ \E q \in Requests : held[q] = s /\ stream[q] = id
      BY Zenon DEF IInv, StreamOwnership
    <3>3. PICK q \in Requests : held[q] = s /\ stream[q] = id
      BY <3>2, Zenon
    <3>4. held'[q] = s
      BY <2>3, <3>2, <3>3, Zenon
    <3> QED BY <3>2, <3>3, <3>4, Zenon
  <2> QED BY <2>2, <2>4, <2>5, Zenon DEF StreamOwnership
<1>7. Ownership'
  <2>1. \A s \in Sessions' : dag'[s].next >= 1
    BY <1>1, Zenon DEF IInv, Ownership
  <2>2. /\ pc'[r] \in HoldsSession => held'[r] \in Sessions
        /\ pc'[r] # "connecting"
        /\ held'[r] \in Sessions \cup {None}
    BY Zenon DEF OpenSessionFails, FinishOpenPublish, FinishOpenLowerFlag, FinishOpenNotify, Goto,
           IInv, TypeOK, Ownership, HoldsSession
  <2>3. Ownership
    BY Zenon DEF IInv
  <2>4. ASSUME NEW q \in Requests, q # r
        PROVE  /\ held'[q] = held[q] /\ stream'[q] = stream[q]
               /\ pc'[q] = pc[q] \/ (pc[q] = "waiting" /\ pc'[q] = "lookup")
    BY <1>1, <2>4, Zenon
  <2>5. stream'[r] = None /\ nextSessionId' = nextSessionId /\ Sessions' = Sessions /\ dag' = dag
    BY <1>1, Zenon
  <2> QED BY <2>1, <2>2, <2>3, <2>4, <2>5, Zenon DEF Ownership, HoldsSession, Unreserved
<1> QED BY <1>2, <1>4, <1>5, <1>6, <1>7, Zenon DEF IInv

\* A session that opens is new: the others keep their dags.
LEMMA OpenAction ==
    ASSUME IInv, NEW r \in Requests, OpenSession(r)
    PROVE  /\ \A s \in Sessions : s \in Sessions' /\ dag'[s] = dag[s]
           /\ IInv'
<1>0. nextSessionId \in Nat
  BY Zenon DEF IInv, TypeOK
<1>1. /\ UNCHANGED <<current, opening, nextSessionId, held, stream>>
      /\ pc[r] = "connecting" /\ pc' = [pc EXCEPT ![r] = "publish"]
      /\ held[r] = nextSessionId /\ held[r] # None /\ held[r] \notin Sessions
      /\ stream[r] = None
      /\ held[r] \in 1 .. nextSessionId
  BY <1>0 DEF OpenSession, Goto, IInv, Ownership, Unreserved, None
<1>2. /\ Sessions' = Sessions \cup {held[r]}
      /\ dag' = [s \in Sessions' |-> dag'[s]]
      /\ dag'[held[r]] = NewDag
      /\ \A s \in Sessions : s # held[r] /\ dag'[s] = dag[s]
  BY <1>1, Zenon DEF OpenSession, Sessions
<1>3. conn' \in [Sessions' -> {"running", "goaway", "ended"}]
  BY <1>2, Zenon DEF OpenSession, IInv, TypeOK
<1>4. IsDag(NewDag) /\ DagShape(NewDag) /\ NewDag.next = 1 /\ DOMAIN NewDag.streams = {}
  BY Zenon DEF IsDag, DagShape, NewDag, SessionFrontiers, ActiveStreams, SessionTerminal
<1>5. TypeOK'
  BY <1>1, <1>2, <1>3, <1>4, Zenon DEF IInv, TypeOK, Steps
<1>6. ExclusiveOpen'
  BY <1>1, Zenon DEF IInv, TypeOK, ExclusiveOpen, OpenSection
<1>7. SessionShape'
  BY <1>2, <1>4, Zenon DEF IInv, SessionShape
<1>8. StreamOwnership'
  BY <1>1, <1>2, <1>4, SMTT(30) DEF IInv, StreamOwnership
<1>9. Ownership'
  <2>1. \A s \in Sessions' : dag'[s].next >= 1
    BY <1>2, <1>4 DEF IInv, Ownership
  <2>2. \A q \in Requests : q # r => pc'[q] = pc[q] /\ pc[q] # "connecting"
    BY <1>1, Zenon DEF IInv, TypeOK, ExclusiveOpen, OpenSection
  <2>3. pc'[r] = "publish"
    BY <1>1, Zenon DEF IInv, TypeOK
  <2> QED BY <1>1, <1>2, <2>1, <2>2, <2>3, SMTT(30) DEF IInv, Ownership, HoldsSession, Unreserved
<1> QED BY <1>2, <1>5, <1>6, <1>7, <1>8, <1>9, Zenon DEF IInv

\* A reservation adds one stream, to a session that accepts streams, under an id
\* no request holds.
LEMMA ReserveAction ==
    ASSUME IInv, NEW r \in Requests, ReserveStreamFor(r), Reusable(held[r])
    PROVE  /\ Sessions' = Sessions
           /\ \A s \in Sessions : s # held[r] => dag'[s] = dag[s]
           /\ IInv'
<1> DEFINE s == held[r]
           e == ReserveStream(dag[s])
<1>1. /\ UNCHANGED <<current, opening, nextSessionId, conn, held>>
      /\ pc[r] = "reserve" /\ pc' = [pc EXCEPT ![r] = "build"]
      /\ stream' = [stream EXCEPT ![r] = dag[s].next]
      /\ dag' = [dag EXCEPT ![s] = e]
      /\ s \in Sessions /\ IsDag(dag[s]) /\ DagShape(dag[s]) /\ CanAcceptNewStreams(dag[s])
      /\ dag[s].next \in Nat /\ dag[s].next >= 1
  BY Zenon DEF ReserveStreamFor, Goto, SetDag, Reusable, IInv, TypeOK, SessionShape, Ownership,
         HoldsSession, IsDag
<1>2. /\ IsDag(e) /\ DagShape(e)
      /\ DOMAIN e.streams \subseteq DOMAIN dag[s].streams \cup {dag[s].next}
      /\ e.next = dag[s].next + 2
  BY <1>1, DagReserve, Zenon
<1>3. /\ Sessions' = Sessions
      /\ dag' = [t \in Sessions |-> dag'[t]]
      /\ dag'[s] = e
      /\ \A t \in Sessions : t # s => dag'[t] = dag[t]
  BY <1>1, Zenon DEF Sessions, IInv, TypeOK
<1> HIDE DEF e
<1>4. /\ stream'[r] = dag[s].next /\ stream'[r] # None
      /\ \A q \in Requests : q # r => stream'[q] = stream[q] /\ pc'[q] = pc[q]
      /\ pc'[r] = "build"
  BY <1>1 DEF IInv, TypeOK, None
<1>5. TypeOK'
  BY <1>1, <1>2, <1>3, Zenon DEF IInv, TypeOK, Steps
<1>6. ExclusiveOpen'
  BY <1>1, <1>4, Zenon DEF IInv, ExclusiveOpen, OpenSection
<1>7. SessionShape'
  BY <1>2, <1>3, Zenon DEF IInv, SessionShape
<1>8. \A q \in Requests : held[q] = s /\ stream[q] # None => stream[q] # dag[s].next
  <2>1. \A q \in Requests : stream[q] \in Nat
    BY Zenon DEF IInv, TypeOK
  <2>2. \A q \in Requests : stream[q] # None => stream[q] < dag[held[q]].next
    BY Zenon DEF IInv, Ownership
  <2> QED BY <1>1, <2>1, <2>2
<1>9. StreamOwnership'
  <2>1. \A p, q \in Requests :
          p # q /\ held'[p] = held'[q] /\ stream'[p] # None => stream'[p] # stream'[q]
    BY <1>1, <1>4, <1>8 DEF IInv, TypeOK, StreamOwnership
  <2>2. stream[r] = None
    BY <1>1, Zenon DEF IInv, Ownership, Unreserved
  <2>3. ASSUME NEW t \in Sessions, NEW id \in DOMAIN dag'[t].streams
        PROVE  id # None /\ \E q \in Requests : held'[q] = t /\ stream'[q] = id
    <3>1. CASE t = s /\ id = dag[s].next
      BY <1>1, <1>4, <3>1, Zenon
    <3>2. CASE ~(t = s /\ id = dag[s].next)
      <4>1. id \in DOMAIN dag[t].streams
        BY <1>2, <1>3, <2>3, <3>2, Zenon
      <4>2. id # None /\ \E q \in Requests : held[q] = t /\ stream[q] = id
        BY <4>1, Zenon DEF IInv, StreamOwnership
      <4> QED BY <1>1, <1>4, <2>2, <4>2, Zenon
    <3> QED BY <3>1, <3>2, Zenon
  <2> QED BY <1>3, <2>1, <2>3, Zenon DEF StreamOwnership
<1>10. Ownership'
  <2>1. \A t \in Sessions : dag'[t].next \in Nat /\ dag[t].next \in Nat
                           /\ dag'[t].next >= dag[t].next /\ dag'[t].next >= 1
    BY <1>1, <1>2, <1>3, SMTT(30) DEF IInv, TypeOK, IsDag, Ownership
  <2>2. \A q \in Requests : stream'[q] # None =>
            held'[q] \in Sessions /\ stream'[q] < dag'[held'[q]].next
    <3>1. \A q \in Requests : stream[q] \in Nat
      BY Zenon DEF IInv, TypeOK
    <3>2. \A q \in Requests : stream[q] # None =>
              held[q] \in Sessions /\ stream[q] < dag[held[q]].next
      BY Zenon DEF IInv, Ownership
    <3>3. stream'[r] < dag'[s].next
      BY <1>1, <1>2, <1>3, <1>4
    <3> QED BY <1>1, <1>4, <2>1, <3>1, <3>2, <3>3, SMTT(30)
  <2> QED BY <1>1, <1>3, <1>4, <2>1, <2>2, SMTT(30) DEF IInv, Ownership, HoldsSession, Unreserved
<1> QED BY <1>3, <1>5, <1>6, <1>7, <1>9, <1>10, Zenon DEF IInv

\* What one step does to the sessions: it keeps the invariant, makes no session
\* usable again, and adds a stream only to a usable one.
DagsKept ==
    \A s \in Sessions :
        /\ CanAcceptNewStreams(dag'[s]) => CanAcceptNewStreams(dag[s])
        /\ DOMAIN dag'[s].streams \ DOMAIN dag[s].streams # {} => CanAcceptNewStreams(dag[s])

\* Every step keeps the invariant and the sessions that exist.
LEMMA Inductive ==
    ASSUME IInv, [Next]_vars
    PROVE  IInv' /\ DagsKept
<1>1. DagsEvolve => DagsKept
  BY Zenon DEF DagsEvolve, DagsKept, DagStep
<1>2. ASSUME NEW r \in Requests, RequestStep(r)
      PROVE  IInv' /\ DagsKept
  <2>1. CASE Lookup(r) \/ ClearStale(r) \/ TryBeginOpen(r) \/ Subscribe(r)
    BY <1>1, <2>1, AcquireActions, Zenon
  <2>2. CASE OpenSession(r)
    BY <2>2, OpenAction, Zenon DEF DagsKept
  <2>3. CASE \/ OpenSessionFails(r) \/ FinishOpenPublish(r) \/ FinishOpenLowerFlag(r)
             \/ FinishOpenNotify(r)
    BY <1>1, <2>3, FinishActions, Zenon
  <2>4. CASE ReserveStreamFor(r)
    <3>1. CASE Reusable(held[r])
      BY <2>4, <3>1, ReserveAction, Zenon DEF DagsKept, Reusable
    <3>2. CASE ~Reusable(held[r])
      <4>1. /\ UNCHANGED <<current, opening, nextSessionId, dag, conn, held, stream>>
            /\ pc[r] = "reserve" /\ pc' = [pc EXCEPT ![r] = "failed"]
        BY <2>4, <3>2, Zenon DEF ReserveStreamFor, Goto
      <4>2. /\ pc' \in [Requests -> Steps]
            /\ \A q \in Requests : pc'[q] = pc[q] \/ QuietMove(q)
        BY <4>1, Zenon DEF IInv, TypeOK, Steps, QuietMove, HoldsSession, Over, Unreserved
      <4> QED BY <1>1, <4>1, <4>2, DagsStutter, QuietStep, Zenon DEF IInv, TypeOK
    <3> QED BY <3>1, <3>2, Zenon
  <2>5. CASE \/ Probe(r) \/ SenderReady(r) \/ SenderReadyFails(r) \/ BuildHttp2Request(r)
             \/ SendRequest(r) \/ NoteResponseHead(r) \/ SendRequestFails(r) \/ FromHyper(r)
             \/ NoteBodyReady(r) \/ NoteBodyEof(r) \/ NoteBodyError(r) \/ BodyDone(r)
    BY <1>1, <2>5, QuietActions, Zenon
  <2> QED BY <1>2, <2>1, <2>2, <2>3, <2>4, <2>5, Zenon DEF RequestStep
<1>3. ASSUME NEW r \in Requests, Cancel(r)
      PROVE  IInv' /\ DagsKept
  BY <1>1, <1>3, CancelAction, Zenon
<1>4. ASSUME NEW s \in Sessions, ConnectionStep(s)
      PROVE  IInv' /\ DagsKept
  BY <1>1, <1>4, ConnectionActions, Zenon
<1>5. CASE UNCHANGED vars
  <2>1. UNCHANGED <<current, opening, nextSessionId, dag, conn, pc, held, stream>>
    BY <1>5, Zenon DEF vars
  <2> QED BY <1>1, <2>1, DagsStutter, QuietStep, Zenon DEF IInv, TypeOK
<1> QED BY <1>2, <1>3, <1>4, <1>5, Zenon DEF Next

\* No session has been opened yet.
LEMMA Initial == Init => IInv
<1> SUFFICES ASSUME Init PROVE IInv
  BY Zenon
<1>1. Sessions = {}
  BY Zenon DEF Init, Sessions
<1>2. TypeOK
  <2>1. dag = [s \in Sessions |-> dag[s]] /\ conn \in [Sessions -> {"running", "goaway", "ended"}]
    BY <1>1, Zenon DEF Init
  <2>2. /\ pc \in [Requests -> Steps]
        /\ held \in [Requests -> 0 .. nextSessionId]
        /\ stream \in [Requests -> Nat]
    BY DEF Init, None, Steps
  <2> QED BY <1>1, <2>1, <2>2, Zenon DEF Init, TypeOK
<1>3. ExclusiveOpen /\ SessionShape /\ StreamOwnership
  <2>1. \A r \in Requests : pc[r] = "lookup" /\ stream[r] = None
    BY Zenon DEF Init
  <2> QED BY <1>1, <2>1, Zenon DEF ExclusiveOpen, OpenSection, SessionShape, StreamOwnership
<1>4. Ownership
  BY <1>1, Zenon DEF Init, Ownership, HoldsSession
<1> QED BY <1>2, <1>3, <1>4, Zenon DEF IInv

\* The invariant holds throughout.
LEMMA Invariant == Spec => []IInv
<1>1. IInv /\ [Next]_vars => IInv'
  BY Inductive, Zenon
<1> QED BY <1>1, Initial, PTL DEF Spec

\* Every reachable state of the entry, its sessions and its requests has its type.
THEOREM TypeCorrect == Spec => []TypeOK
<1>1. IInv => TypeOK
  BY Zenon DEF IInv
<1> QED BY <1>1, Invariant, PTL

\* The opening flag is a lock: at most one request opens a session and
\* overwrites `current`, for any number of requests and cancellations.
THEOREM OpenIsExclusive == Spec => []ExclusiveOpen
<1>1. IInv => ExclusiveOpen
  BY Zenon DEF IInv
<1> QED BY <1>1, Invariant, PTL

\* Draining sessions always have a live stream left that will close them, and no
\* usable session keeps a stream that is over.
THEOREM SessionsAreShaped == Spec => []SessionShape
<1>1. IInv => SessionShape
  BY Zenon DEF IInv
<1> QED BY <1>1, Invariant, PTL

\* Every stream in a session's map belongs to exactly one request.
THEOREM StreamsAreOwned == Spec => []StreamOwnership
<1>1. IInv => StreamOwnership
  BY Zenon DEF IInv
<1> QED BY <1>1, Invariant, PTL

\* No session accepts streams again once it has stopped.
THEOREM SessionsNeverReopen == Spec => NeverReopens
<1>1. IInv /\ [Next]_vars =>
          [\A s \in Sessions : ~Reusable(s) => ~CanAcceptNewStreams(dag'[s])]_vars
  BY Inductive, Zenon DEF DagsKept, Reusable
<1> QED BY <1>1, Invariant, PTL DEF Spec, NeverReopens

\* Streams are attached to usable sessions only, GOAWAY or not.
THEOREM AttachmentIsLegal == Spec => AttachOnlyWhileOpen
<1>1. IInv /\ [Next]_vars =>
          [\A s \in Sessions :
              DOMAIN dag'[s].streams \ DOMAIN dag[s].streams # {} =>
                  CanAcceptNewStreams(dag[s])]_vars
  BY Inductive, Zenon DEF DagsKept
<1> QED BY <1>1, Invariant, PTL DEF Spec, AttachOnlyWhileOpen

\* Only finish_open takes a usable session out of the entry.
THEOREM StaleClearsAreHarmless == Spec => StaleClearIsHarmless
<1> DEFINE Harmless == current # None /\ Reusable(current) /\ current' # current =>
                           \E r \in Requests : pc[r] = "publish" /\ pc'[r] = "lower_flag"
<1>1. IInv /\ [Next]_vars => [Harmless]_vars
  <2> SUFFICES ASSUME IInv, Next, current' # current, Reusable(current)
               PROVE  \E r \in Requests : pc[r] = "publish" /\ pc'[r] = "lower_flag"
    BY Zenon DEF vars
  <2>1. PICK r \in Requests : ClearStale(r) \/ FinishOpenPublish(r)
    BY Zenon DEF Next, RequestStep, ConnectionStep, Lookup, Probe, TryBeginOpen, Subscribe,
           OpenSession, OpenSessionFails, FinishOpenLowerFlag, FinishOpenNotify, SenderReady,
           SenderReadyFails, ReserveStreamFor, BuildHttp2Request, SendRequest,
           NoteResponseHead, SendRequestFails, FromHyper, NoteBodyReady, NoteBodyEof,
           NoteBodyError, BodyDone, Cancel, ConnectionEnds, ConnectionClosesAfterGoaway
  <2>2. CASE ClearStale(r)
    BY <2>2, Zenon DEF ClearStale
  <2>3. CASE FinishOpenPublish(r)
    BY <2>3, Zenon DEF FinishOpenPublish, Goto, IInv, TypeOK
  <2> QED BY <2>1, <2>2, <2>3, Zenon
<1> QED BY <1>1, Invariant, PTL DEF Spec, StaleClearIsHarmless

----------------------------------------------------------------------------
(* One stream's end leaves the others alone.                               *)

Untouched(d, e, i) == i \in DOMAIN e.streams /\ e.streams[i] = d.streams[i]

\* Between d and e the session failed, or at most the stream k changed.
Isolated(d, e) ==
    \/ e.frontier = "Failed"
    \/ \E k : \A i \in ActiveStreams(d) \ {k} : Untouched(d, e, i)

LEMMA SameIsolated ==
    ASSUME NEW d, NEW e, e.streams = d.streams
    PROVE  Isolated(d, e)
BY Zenon DEF Isolated, Untouched, ActiveStreams

LEMMA AdvanceIsolated ==
    ASSUME NEW d, IsDag(d), NEW id
    PROVE  /\ Isolated(d, MarkStreamRequestCommitted(d, id))
           /\ Isolated(d, MarkStreamResponseHeadReady(d, id))
           /\ Isolated(d, MarkStreamResponseBodyReady(d, id))
<1>1. ASSUME NEW f PROVE Isolated(d, [d EXCEPT !.streams[id] = f])
  <2> DEFINE e == [d EXCEPT !.streams[id] = f]
  <2>1. DOMAIN e.streams = DOMAIN d.streams
          /\ \A i \in DOMAIN d.streams : i # id => e.streams[i] = d.streams[i]
    BY Zenon DEF IsDag
  <2> HIDE DEF e
  <2>2. Isolated(d, e)
    BY <2>1, Zenon DEF Isolated, Untouched, ActiveStreams
  <2> QED BY <2>2, Zenon DEF e
<1>2. Isolated(d, d)
  BY SameIsolated, Zenon
<1> QED BY <1>1, <1>2, Zenon DEF MarkStreamRequestCommitted, MarkStreamResponseHeadReady,
                          MarkStreamResponseBodyReady, AdvanceStream

LEMMA RetireIsolated ==
    ASSUME NEW d, IsDag(d), NEW id
    PROVE  /\ Isolated(d, MarkStreamClosed(d, id))
           /\ Isolated(d, MarkStreamReset(d, id))
<1>1. ASSUME NEW e, IsDag(e), DOMAIN e.streams = DOMAIN d.streams,
             \A i \in DOMAIN d.streams : i # id => e.streams[i] = d.streams[i]
      PROVE  Isolated(d, PruneTerminalStreams(e))
  <2>1. PruneTerminalStreams(e).streams = [i \in ActiveStreams(e) |-> e.streams[i]]
    BY <1>1, Zenon DEF PruneTerminalStreams, IsDag
  <2>2. \A i \in ActiveStreams(d) \ {id} : i \in ActiveStreams(e) /\ e.streams[i] = d.streams[i]
    BY <1>1, Zenon DEF ActiveStreams
  <2> QED BY <2>1, <2>2, Zenon DEF Isolated, Untouched
<1>2. ASSUME NEW f \in StreamFrontiers, id \in DOMAIN d.streams
      PROVE  Isolated(d, PruneTerminalStreams([d EXCEPT !.streams[id] = f]))
  <2> DEFINE e == [d EXCEPT !.streams[id] = f]
  <2>1. /\ IsDag(e) /\ DOMAIN e.streams = DOMAIN d.streams
        /\ \A i \in DOMAIN d.streams : e.streams[i] = IF i = id THEN f ELSE d.streams[i]
    BY <1>2, DagSetStream
  <2> HIDE DEF e
  <2>2. Isolated(d, PruneTerminalStreams(e))
    BY <1>1, <2>1, Zenon
  <2> QED BY <2>2, Zenon DEF e
<1>3. Isolated(d, PruneTerminalStreams(d))
  BY <1>1, Zenon
<1> QED BY <1>2, <1>3, Zenon DEF MarkStreamClosed, MarkStreamReset, AdvanceStream, StreamClosed,
                          StreamReset, StreamFrontiers

LEMMA EndIsolated ==
    ASSUME NEW d, IsDag(d)
    PROVE  /\ Isolated(d, MarkGoaway(d))
           /\ Isolated(d, MarkConnectionFailed(d))
           /\ Isolated(d, MarkConnectionClosed(d))
<1>1. MarkGoaway(d).streams = d.streams /\ [d EXCEPT !.frontier = "Closed"].streams = d.streams
  BY Zenon DEF MarkGoaway, IsDag
<1>2. MarkConnectionFailed(d).frontier = "Failed"
  BY Zenon DEF MarkConnectionFailed, IsDag
<1>3. Isolated(d, MarkConnectionFailed(d)) /\ Isolated(d, MarkGoaway(d))
        /\ Isolated(d, [d EXCEPT !.frontier = "Closed"])
  BY <1>1, <1>2, SameIsolated, Zenon DEF Isolated
<1> QED BY <1>3, Zenon DEF MarkConnectionClosed

LEMMA ErrorIsolated ==
    ASSUME NEW d, IsDag(d), NEW id, NEW kind \in ErrorKinds
    PROVE  /\ Isolated(d, ApplySessionError(d, kind))
           /\ Isolated(d, ApplyStreamError(d, id, kind))
<1>1. Isolated(d, d)
  BY SameIsolated, Zenon
<1> QED BY <1>1, EndIsolated, RetireIsolated, Zenon
           DEF ApplySessionError, ApplyStreamError, ErrorKinds

LEMMA ReserveIsolated ==
    ASSUME NEW d, IsDag(d)
    PROVE  Isolated(d, ReserveStream(d))
<1> DEFINE p == PruneTerminalStreams(d)
           e == ReserveStream(d)
<1>1. p.streams = [i \in ActiveStreams(d) |-> d.streams[i]]
  BY Zenon DEF PruneTerminalStreams, IsDag
<1>2. e.streams = [i \in DOMAIN p.streams \cup {p.next} |->
                       IF i = p.next THEN "AttachedToExchange" ELSE p.streams[i]]
  BY Zenon DEF ReserveStream
<1> HIDE DEF p, e
<1>3. \A i \in ActiveStreams(d) \ {p.next} : Untouched(d, e, i)
  BY <1>1, <1>2, Zenon DEF Untouched
<1>4. Isolated(d, e)
  BY <1>3, Zenon DEF Isolated
<1> QED BY <1>4, Zenon DEF e

LEMMA StepIsolated ==
    ASSUME IInv, [Next]_vars, NEW s \in Sessions
    PROVE  Isolated(dag[s], dag'[s])
<1>1. /\ \A t \in Sessions : IsDag(dag[t])
      /\ dag = [t \in Sessions |-> dag[t]]
      /\ \A r \in Requests : pc[r] \in HoldsSession => held[r] \in Sessions
  BY Zenon DEF IInv, TypeOK, Ownership
<1>2. ASSUME NEW t \in Sessions, NEW e, Isolated(dag[t], e), SetDag(t, e)
      PROVE  Isolated(dag[s], dag'[s])
  <2>1. dag'[s] = IF s = t THEN e ELSE dag[s]
    BY <1>1, <1>2, Zenon DEF SetDag
  <2> QED BY <1>2, <2>1, SameIsolated, Zenon
<1>3. CASE UNCHANGED dag
  BY <1>3, SameIsolated, Zenon
<1>4. ASSUME NEW r \in Requests, OpenSession(r) PROVE Isolated(dag[s], dag'[s])
  <2>1. held[r] \notin Sessions
    BY <1>4, Zenon DEF OpenSession, IInv, Ownership
  <2>2. dag'[s] = dag[s]
    BY <1>4, <2>1, Zenon DEF OpenSession
  <2> QED BY <2>2, SameIsolated, Zenon
<1>5. ASSUME NEW r \in Requests,
             \/ SenderReadyFails(r) \/ ReserveStreamFor(r) \/ SendRequest(r)
             \/ NoteResponseHead(r) \/ SendRequestFails(r) \/ NoteBodyReady(r)
             \/ NoteBodyEof(r) \/ NoteBodyError(r)
      PROVE  Isolated(dag[s], dag'[s])
  <2> DEFINE d == dag[held[r]]
  <2>1. pc[r] \in HoldsSession
    BY <1>5, Zenon DEF SenderReadyFails, ReserveStreamFor, SendRequest, NoteResponseHead,
                SendRequestFails, NoteBodyReady, NoteBodyEof, NoteBodyError, HoldsSession
  <2>2. held[r] \in Sessions /\ IsDag(d)
    BY <1>1, <2>1, Zenon
  <2>3. \/ UNCHANGED dag
        \/ \E kind \in ErrorKinds :
              \/ SetDag(held[r], ApplySessionError(d, kind))
              \/ SetDag(held[r], ApplyStreamError(d, stream[r], kind))
        \/ SetDag(held[r], ReserveStream(d))
        \/ SetDag(held[r], MarkStreamRequestCommitted(d, stream[r]))
        \/ SetDag(held[r], MarkStreamResponseHeadReady(d, stream[r]))
        \/ SetDag(held[r], MarkStreamResponseBodyReady(d, stream[r]))
        \/ SetDag(held[r], MarkStreamClosed(d, stream[r]))
    BY <1>5, Zenon DEF SenderReadyFails, ReserveStreamFor, SendRequest, NoteResponseHead,
                SendRequestFails, NoteBodyReady, NoteBodyEof, NoteBodyError
  <2> HIDE DEF d
  <2>4. ASSUME NEW e, Isolated(d, e), SetDag(held[r], e) PROVE Isolated(dag[s], dag'[s])
    BY <1>2, <2>2, <2>4, Zenon DEF d
  <2> QED BY <1>3, <2>2, <2>3, <2>4, ErrorIsolated, ReserveIsolated, AdvanceIsolated,
             RetireIsolated, Zenon
<1>6. ASSUME NEW t \in Sessions, ConnectionStep(t) PROVE Isolated(dag[s], dag'[s])
  <2>1. \/ SetDag(t, MarkConnectionClosed(dag[t]))
        \/ SetDag(t, MarkGoaway(dag[t]))
        \/ SetDag(t, MarkConnectionFailed(dag[t]))
    BY <1>6, Zenon DEF ConnectionStep, ConnectionEnds, ConnectionClosesAfterGoaway
  <2> QED BY <1>1, <1>2, <2>1, EndIsolated, Zenon
<1>7. ASSUME NEW r \in Requests, RequestStep(r) \/ Cancel(r) PROVE Isolated(dag[s], dag'[s])
  <2>1. CASE OpenSession(r)
    BY <1>4, <2>1, Zenon
  <2>2. CASE \/ SenderReadyFails(r) \/ ReserveStreamFor(r) \/ SendRequest(r)
             \/ NoteResponseHead(r) \/ SendRequestFails(r) \/ NoteBodyReady(r)
             \/ NoteBodyEof(r) \/ NoteBodyError(r)
    BY <1>5, <2>2, Zenon
  <2>3. CASE \/ Lookup(r) \/ Probe(r) \/ ClearStale(r) \/ TryBeginOpen(r) \/ Subscribe(r)
             \/ OpenSessionFails(r) \/ FinishOpenPublish(r) \/ FinishOpenLowerFlag(r)
             \/ FinishOpenNotify(r) \/ SenderReady(r) \/ BuildHttp2Request(r) \/ FromHyper(r)
             \/ BodyDone(r) \/ Cancel(r)
    BY <1>3, <2>3, Zenon DEF Lookup, Probe, ClearStale, TryBeginOpen, Subscribe, OpenSessionFails,
                      FinishOpenPublish, FinishOpenLowerFlag, FinishOpenNotify, SenderReady,
                      BuildHttp2Request, FromHyper, BodyDone, Cancel
  <2> QED BY <1>7, <2>1, <2>2, <2>3, Zenon DEF RequestStep
<1>8. CASE UNCHANGED vars
  BY <1>3, <1>8, Zenon DEF vars
<1> QED BY <1>6, <1>7, <1>8, Zenon DEF Next

\* A reset, an error or a GOAWAY met by one request changes that request's stream
\* only; two live streams change together only when the whole session fails
\* (apply_stream_error, mark_stream_reset, mark_connection_failed).
THEOREM ErrorsAreIsolated == Spec => ErrorIsolation
<1> DEFINE Alone == \A s \in Sessions :
          (\E i, j \in ActiveStreams(dag[s]) :
              /\ i # j
              /\ i \notin DOMAIN dag'[s].streams \/ dag'[s].streams[i] # dag[s].streams[i]
              /\ j \notin DOMAIN dag'[s].streams \/ dag'[s].streams[j] # dag[s].streams[j])
          => dag'[s].frontier = "Failed"
<1>1. IInv /\ [Next]_vars => [Alone]_vars
  BY StepIsolated DEF Isolated, Untouched
<1> QED BY <1>1, Invariant, PTL DEF Spec, ErrorIsolation
=============================================================================
