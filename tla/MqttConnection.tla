--------------------------- MODULE MqttConnection ---------------------------
(***************************************************************************)
(* The outbound MQTT session of src/src/abi_impl/mqtt.  One program makes  *)
(* one host call at a time; a call may have to open the carrier, write a   *)
(* packet and read packets until its answer comes.  The broker sends       *)
(* packets in any order, leaves bytes half delivered, closes or resets the *)
(* carrier; the keep-alive timer runs while the program waits.             *)
(*                                                                         *)
(* A packet crosses the carrier as two pieces, so that a read may end in   *)
(* the middle of one.  A publish of the broker carries its own number.     *)
(***************************************************************************)
EXTENDS Naturals, Sequences, FiniteSets, Functions

CONSTANTS
    MqttRequests,  \* the calls that open the session: connect, publish0, publish1,
                   \* subscribe, unsubscribe
    MaxMqttCalls,  \* bound: host calls the program makes
    MaxPackets,    \* bound: packets the broker sends
    MaxPacketId    \* u16::MAX in the code

ASSUME MqttAssumption ==
    /\ MqttRequests \subseteq {"connect", "publish0", "publish1", "subscribe", "unsubscribe"}
    /\ MaxPacketId \in Nat

VARIABLES
    mqtt,     \* MqttConnectionState
    mqttCall, \* the host call in progress, and how many were made
    wire,     \* the broker's side of the current carrier
    due,      \* the keep-alive interval has passed since the last activity
    live,     \* carriers whose socket is open
    carriers, \* carrier handles allocated so far
    seen      \* what happened, for the properties

mqttVars == <<mqtt, mqttCall, wire, due, live, carriers, seen>>

NoCarrier == 0
AckOf == [publish1 |-> "puback", subscribe |-> "suback", unsubscribe |-> "unsuback"]

\* an incoming packet: what it is, the id or number it names, whether its
\* reason code is below 0x80
Packet(type, id, ok) == [type |-> type, id |-> id, ok |-> ok]

MqttInit ==
    /\ mqtt = [phase |-> "Inactive", target |-> FALSE, carrier |-> NoCarrier,
               nextId |-> 1, keepAlive |-> TRUE, ping |-> FALSE, buffer |-> <<>>, events |-> <<>>]
    /\ mqttCall = [kind |-> "connect", pc |-> "idle", id |-> 0, made |-> 0]
    /\ wire = [pieces |-> <<>>, end |-> "open", connected |-> FALSE, ids |-> {}]
    /\ due = FALSE
    /\ live = {}
    /\ carriers = 0
    /\ seen = [sent |-> 0, published |-> 0, acked |-> {}, got |-> <<>>,
               confirmed |-> {}, done |-> {}, aligned |-> TRUE, orphans |-> {}]

-----------------------------------------------------------------------------
(* MqttConnectionState *)

MqttConfigure(c) ==
    [c EXCEPT !.phase = IF @ \in {"Inactive", "Closed", "Failed"} THEN "Configured" ELSE @]

AttachCarrier(c, h) ==
    [c EXCEPT !.carrier = h, !.ping = FALSE, !.buffer = <<>>, !.events = <<>>,
              !.phase = "CarrierAttached"]

NoteConnectSent(c) == [c EXCEPT !.phase = "ConnectSent"]
MqttMarkOpen(c) == [c EXCEPT !.phase = "Open", !.ping = FALSE]
MqttMarkClosed(c) == [c EXCEPT !.phase = "Closed", !.ping = FALSE]
\* Mutant: a failed session forgets its queue.
MqttMarkFailedAndEmpty(c) == [c EXCEPT !.phase = "Failed", !.ping = FALSE, !.events = <<>>]
MqttMarkFailed(c) == [c EXCEPT !.phase = "Failed", !.ping = FALSE]

NextPacketId(c) == IF c.nextId = 0 THEN 1 ELSE c.nextId
TakePacketId(c) ==
    LET next == NextPacketId(c)
    IN  [c EXCEPT !.nextId = IF next = MaxPacketId THEN 1 ELSE next + 1]

\* next_keep_alive_wait; with keep_alive_secs 0 there is no timer
KeepAliveExpired == mqtt.phase = "Open" /\ mqtt.keepAlive /\ due

-----------------------------------------------------------------------------
(* The carrier: what a write and a read of it may do *)

WriteOk == mqtt.carrier \in live /\ wire.end # "reset"
WriteFails == mqtt.carrier \notin live \/ wire.end # "open"

Complete(b) == Len(b) >= 2 /\ b[1].piece = 1
Misframed(b) == b # <<>> /\ b[1].piece = 2

\* decode_packet on bytes that start in the middle of a packet finds anything
Stray == {Packet("puback", 1, TRUE), Packet("publish0", 0, TRUE)}

\* the packets decode_packet may return for the buffer
Decodes(b) ==
    {p \in {b[i].packet : i \in 1..Len(b)} : Complete(b) /\ p = b[1].packet
                                             /\ p.type # "malformed"}
    \cup {p \in Stray : Misframed(b)}

DecodeFails(b) == (Complete(b) /\ b[1].packet.type = "malformed") \/ Misframed(b)
NeedsMore(b) == ~Complete(b)

Rest(b) == IF Misframed(b) THEN Tail(b) ELSE SubSeq(b, 3, Len(b))
HalfRead(b) == b # <<>> /\ b[Len(b)].piece = 1

\* the call returns; `state` is the connection it leaves behind
EndCall(state) ==
    /\ mqtt' = state
    /\ mqttCall' = [mqttCall EXCEPT !.pc = "idle", !.id = 0]

\* an error unwinds through read_next_packet, which holds the buffer: what was
\* read and not decoded is gone
Unwind(state) ==
    /\ EndCall([state EXCEPT !.buffer = <<>>])
    /\ seen' = [seen EXCEPT !.aligned = @ /\ ~HalfRead(mqtt.buffer)]

CloseCarrier(h) == live' = live \ {h}

-----------------------------------------------------------------------------
(* Host calls *)

MqttConfigurable == mqtt.phase \notin {"CarrierAttached", "ConnectSent", "Open"}

SetMqttTarget ==
    /\ mqttCall.pc = "idle" /\ MqttConfigurable
    /\ mqtt' = [MqttConfigure(mqtt) EXCEPT !.target = TRUE]
    /\ UNCHANGED <<mqttCall, wire, due, live, carriers, seen>>

\* set_keep_alive_secs: zero, which any program may set, turns the timer off
SetKeepAlive ==
    /\ mqttCall.pc = "idle" /\ MqttConfigurable
    /\ \E on \in BOOLEAN : mqtt' = [MqttConfigure(mqtt) EXCEPT !.keepAlive = on]
    /\ UNCHANGED <<mqttCall, wire, due, live, carriers, seen>>

\* every call but read_event and disconnect starts by opening the connection
BeginCall(kind) ==
    /\ mqttCall.pc = "idle" /\ mqttCall.made < MaxMqttCalls
    /\ mqttCall' = [mqttCall EXCEPT !.kind = kind, !.pc = "ensure", !.made = @ + 1]
    /\ UNCHANGED <<mqtt, wire, due, live, carriers, seen>>

\* the deliveries the program has seen; bytes that were no packet carry number 0
Received(got, e) == IF e.id # 0 THEN Append(got, e.id) ELSE got

\* read_event: a queued event, else the terminal event, else read for one
ReadEvent ==
    /\ mqttCall.pc = "idle" /\ mqttCall.made < MaxMqttCalls
    /\ \/ /\ mqtt.events # <<>>
          /\ mqtt' = [mqtt EXCEPT !.events = Tail(@)]
          /\ seen' = [seen EXCEPT !.got = Received(@, Head(mqtt.events))]
          /\ mqttCall' = [mqttCall EXCEPT !.kind = "read_event", !.made = @ + 1]
       \/ /\ mqtt.events = <<>>
          /\ mqttCall' = [mqttCall EXCEPT !.kind = "read_event", !.made = @ + 1,
                         !.pc = IF mqtt.phase \in {"Closed", "Failed"} THEN "idle" ELSE "ensure"]
          /\ UNCHANGED <<mqtt, seen>>
    /\ UNCHANGED <<wire, due, live, carriers>>

\* the DISCONNECT packet may or may not get through; the carrier goes either way
Disconnect ==
    /\ mqttCall.pc = "idle" /\ mqttCall.made < MaxMqttCalls
    /\ mqtt' = [MqttMarkClosed(mqtt) EXCEPT !.carrier = NoCarrier]
    /\ CloseCarrier(mqtt.carrier)
    /\ mqttCall' = [mqttCall EXCEPT !.kind = "disconnect", !.made = @ + 1]
    /\ UNCHANGED <<wire, due, carriers, seen>>

\* the reason text cannot be encoded: the call fails before it closes anything
DisconnectRefused ==
    /\ mqttCall.pc = "idle" /\ mqttCall.made < MaxMqttCalls /\ mqtt.carrier # NoCarrier
    /\ mqttCall' = [mqttCall EXCEPT !.kind = "disconnect", !.made = @ + 1]
    /\ UNCHANGED <<mqtt, wire, due, live, carriers, seen>>

-----------------------------------------------------------------------------
(* ensure_connection_open *)

SessionOpen ==
    /\ mqttCall.pc = "ensure" /\ mqtt.phase = "Open"
    /\ mqttCall' = [mqttCall EXCEPT !.pc = "send"]
    /\ UNCHANGED <<mqtt, wire, due, live, carriers, seen>>

\* the old carrier is closed first; the attempt ends before a new one exists
\* because no target is set or nothing answers at it
MqttOpenFails ==
    /\ mqttCall.pc = "ensure" /\ mqtt.phase # "Open"
    /\ EndCall([mqtt EXCEPT !.carrier = NoCarrier])
    /\ CloseCarrier(mqtt.carrier)
    /\ carriers' = IF mqtt.target THEN carriers + 1 ELSE carriers
    /\ UNCHANGED <<wire, due, seen>>

\* mqtts with a host that is no valid server name: the TCP carrier is connected
\* and stays in the table with no session attached to it
ServerNameRejected ==
    /\ mqttCall.pc = "ensure" /\ mqtt.phase # "Open" /\ mqtt.target
    /\ EndCall([mqtt EXCEPT !.carrier = NoCarrier])
    /\ carriers' = carriers + 1
    /\ live' = (live \ {mqtt.carrier}) \cup {carriers + 1}
    /\ seen' = [seen EXCEPT !.orphans = @ \cup {carriers + 1}]
    /\ UNCHANGED <<wire, due>>

\* Mutant: the old carrier stays open.
AttachBeside ==
    /\ mqttCall.pc = "ensure" /\ mqtt.phase # "Open" /\ mqtt.target
    /\ carriers' = carriers + 1
    /\ wire' = [pieces |-> <<>>, end |-> "open", connected |-> TRUE, ids |-> {}]
    /\ live' = live \cup {carriers + 1}
    /\ mqtt' = NoteConnectSent(AttachCarrier(MqttConfigure(mqtt), carriers + 1))
    /\ mqttCall' = [mqttCall EXCEPT !.pc = "connack"]
    /\ due' = FALSE
    /\ seen' = [seen EXCEPT !.acked = {}, !.aligned = TRUE]

AttachAndConnect ==
    /\ mqttCall.pc = "ensure" /\ mqtt.phase # "Open" /\ mqtt.target
    /\ carriers' = carriers + 1
    /\ wire' = [pieces |-> <<>>, end |-> "open", connected |-> TRUE, ids |-> {}]
    /\ live' = (live \ {mqtt.carrier}) \cup {carriers + 1}
    /\ mqtt' = NoteConnectSent(AttachCarrier(MqttConfigure(mqtt), carriers + 1))
    /\ mqttCall' = [mqttCall EXCEPT !.pc = "connack"]
    /\ due' = FALSE
    /\ seen' = [seen EXCEPT !.acked = {}, !.aligned = TRUE]

\* the CONNECT packet cannot be encoded: the carrier stays, attached and silent
ConnectRefused ==
    /\ mqttCall.pc = "ensure" /\ mqtt.phase # "Open" /\ mqtt.target
    /\ carriers' = carriers + 1
    /\ wire' = [pieces |-> <<>>, end |-> "open", connected |-> FALSE, ids |-> {}]
    /\ live' = (live \ {mqtt.carrier}) \cup {carriers + 1}
    /\ EndCall(AttachCarrier(MqttConfigure(mqtt), carriers + 1))
    /\ seen' = [seen EXCEPT !.acked = {}, !.aligned = TRUE]
    /\ UNCHANGED due

\* the CONNECT packet cannot be written
ConnectWriteFails ==
    /\ mqttCall.pc = "ensure" /\ mqtt.phase # "Open" /\ mqtt.target
    /\ carriers' = carriers + 1
    /\ live' = live \ {mqtt.carrier}
    /\ EndCall(MqttMarkFailed(AttachCarrier(MqttConfigure(mqtt), carriers + 1)))
    /\ seen' = [seen EXCEPT !.acked = {}, !.aligned = TRUE]
    /\ UNCHANGED <<wire, due>>

ConnAckReceived ==
    /\ mqttCall.pc = "connack"
    /\ \E p \in Decodes(mqtt.buffer) :
          LET c == [mqtt EXCEPT !.buffer = Rest(@)] IN
          IF p.type = "connack" /\ p.ok
          THEN /\ mqtt' = MqttMarkOpen(c)
               /\ mqttCall' = [mqttCall EXCEPT !.pc = "send"]
               /\ due' = FALSE
               /\ UNCHANGED live
          ELSE /\ EndCall(MqttMarkFailed(c))
               /\ CloseCarrier(mqtt.carrier)
               /\ UNCHANGED due
    /\ UNCHANGED <<wire, carriers, seen>>

-----------------------------------------------------------------------------
(* The request once the session is open *)

\* connect returns, read_event starts reading
NothingToSend ==
    /\ mqttCall.pc = "send" /\ mqttCall.kind \in {"connect", "read_event"}
    /\ mqttCall' = [mqttCall EXCEPT !.pc = IF mqttCall.kind = "connect" THEN "idle" ELSE "event"]
    /\ UNCHANGED <<mqtt, wire, due, live, carriers, seen>>

SendPacket ==
    /\ mqttCall.pc = "send" /\ mqttCall.kind \notin {"connect", "read_event"}
    /\ WriteOk
    /\ due' = FALSE
    /\ IF mqttCall.kind = "publish0"
       THEN /\ EndCall([mqtt EXCEPT !.ping = FALSE])
            /\ UNCHANGED wire
       ELSE LET id == NextPacketId(mqtt) IN
            /\ mqtt' = [TakePacketId(mqtt) EXCEPT !.ping = FALSE]
            /\ mqttCall' = [mqttCall EXCEPT !.pc = "ack", !.id = id]
            /\ wire' = [wire EXCEPT !.ids = @ \cup {<<AckOf[mqttCall.kind], id>>}]
    /\ UNCHANGED <<live, carriers, seen>>

\* a packet that cannot be encoded or written is the program's error; the phase
\* stays open, and the packet id is used up
SendFails ==
    /\ mqttCall.pc = "send" /\ mqttCall.kind \notin {"connect", "read_event"}
    /\ EndCall(IF mqttCall.kind = "publish0" THEN mqtt ELSE TakePacketId(mqtt))
    /\ UNCHANGED <<wire, due, live, carriers, seen>>

\* parse_qos refuses QoS 2 once the session is open, before an id is taken
QosRefused ==
    /\ mqttCall.pc = "send" /\ mqttCall.kind \in {"publish0", "publish1", "subscribe"}
    /\ EndCall(mqtt)
    /\ UNCHANGED <<wire, due, live, carriers, seen>>

-----------------------------------------------------------------------------
(* read_next_packet *)

Reading == mqttCall.pc \in {"connack", "ack", "event"}

ReadPieces ==
    /\ Reading /\ NeedsMore(mqtt.buffer) /\ ~KeepAliveExpired
    /\ mqtt.carrier \in live /\ wire.pieces # <<>>
    /\ \E n \in 1..Len(wire.pieces) :
          /\ mqtt' = [mqtt EXCEPT !.buffer = @ \o SubSeq(wire.pieces, 1, n), !.ping = FALSE]
          /\ wire' = [wire EXCEPT !.pieces = SubSeq(@, n + 1, Len(@))]
    /\ due' = FALSE
    /\ UNCHANGED <<mqttCall, live, carriers, seen>>

\* malformed bytes, or the carrier fails under the read or was taken away
MqttReadFails ==
    /\ Reading
    /\ \/ DecodeFails(mqtt.buffer)
       \/ /\ NeedsMore(mqtt.buffer) /\ ~KeepAliveExpired
          /\ mqtt.carrier \notin live \/ wire.end = "reset"
    /\ Unwind(mqtt)
    /\ UNCHANGED <<wire, due, live, carriers>>

\* end of stream: the session is closed, the buffer is put back; waiting for
\* CONNACK the carrier is closed too and the session failed
ReadEof ==
    /\ Reading /\ NeedsMore(mqtt.buffer) /\ ~KeepAliveExpired
    /\ mqtt.carrier \in live /\ wire.end = "fin" /\ wire.pieces = <<>>
    /\ IF mqttCall.pc = "connack"
       THEN EndCall(MqttMarkFailed(mqtt)) /\ CloseCarrier(mqtt.carrier)
       ELSE EndCall(MqttMarkClosed(mqtt)) /\ UNCHANGED live
    /\ UNCHANGED <<wire, due, carriers, seen>>

\* Mutant: every interval is answered with one more ping.
PingAgain ==
    /\ Reading /\ NeedsMore(mqtt.buffer) /\ KeepAliveExpired
    /\ \/ /\ WriteOk
          /\ mqtt' = [mqtt EXCEPT !.ping = FALSE]
          /\ due' = FALSE
          /\ UNCHANGED <<mqttCall, seen>>
       \/ /\ WriteFails
          /\ Unwind(mqtt)
          /\ UNCHANGED due
    /\ UNCHANGED <<wire, live, carriers>>

\* the interval passes in silence: ask the broker, and give up the next time
PingRequest ==
    /\ Reading /\ NeedsMore(mqtt.buffer) /\ KeepAliveExpired /\ ~mqtt.ping
    /\ \/ /\ WriteOk
          /\ mqtt' = [mqtt EXCEPT !.ping = TRUE]
          /\ due' = FALSE
          /\ UNCHANGED <<mqttCall, seen>>
       \/ /\ WriteFails
          /\ Unwind(mqtt)
          /\ UNCHANGED due
    /\ UNCHANGED <<wire, live, carriers>>

KeepAliveFails ==
    /\ Reading /\ NeedsMore(mqtt.buffer) /\ KeepAliveExpired /\ mqtt.ping
    /\ EndCall([MqttMarkFailed(mqtt) EXCEPT !.carrier = NoCarrier])
    /\ CloseCarrier(mqtt.carrier)
    /\ UNCHANGED <<wire, due, carriers, seen>>

-----------------------------------------------------------------------------
(* The packets that reach a waiting call *)

\* Mutant: any acknowledgement will do.
IsAnswerToAnything(p) == mqttCall.pc = "ack" /\ p.type = AckOf[mqttCall.kind]

IsAnswer(p) ==
    mqttCall.pc = "ack" /\ p.type = AckOf[mqttCall.kind] /\ p.id = mqttCall.id

AnswerReceived ==
    /\ mqttCall.pc = "ack"
    /\ \E p \in Decodes(mqtt.buffer) :
          /\ IsAnswer(p)
          /\ EndCall([mqtt EXCEPT !.buffer = Rest(@)])
          /\ seen' = [seen EXCEPT !.done =
                         IF p.ok THEN @ \cup {<<p.type, mqttCall.id, seen.aligned>>} ELSE @]
    /\ UNCHANGED <<wire, due, live, carriers>>

\* what handle_unsolicited_packet queues for the program
EventsOf(p) ==
    CASE p.type \in {"publish0", "publish1"} -> <<[type |-> "publish", id |-> p.id]>>
      [] p.type = "disconnect" -> <<[type |-> "closed", id |-> 0]>>
      [] OTHER -> <<>>

\* handle_unsolicited_packet; a read_event that finds an event queued returns it
Unsolicited(p) ==
    LET read == [mqtt EXCEPT !.buffer = Rest(@)]
        c == CASE p.type = "disconnect" -> MqttMarkClosed(read)
               [] p.type \in {"pingresp", "publish1"} -> [read EXCEPT !.ping = FALSE]
               [] OTHER -> read
        queue == mqtt.events \o EventsOf(p)
        taken == mqttCall.pc = "event" /\ queue # <<>>
    IN  /\ mqtt' = [c EXCEPT !.events = IF taken THEN Tail(queue) ELSE queue]
        /\ mqttCall' = IF taken THEN [mqttCall EXCEPT !.pc = "idle"] ELSE mqttCall
        /\ seen' = [seen EXCEPT
              !.acked = IF p.type = "publish1" THEN @ \cup {p.id} ELSE @,
              !.got = IF taken THEN Received(@, Head(queue)) ELSE @]
        /\ due' = IF p.type \in {"pingresp", "publish1"} THEN FALSE ELSE due

PacketHandled ==
    /\ mqttCall.pc \in {"ack", "event"}
    /\ \E p \in Decodes(mqtt.buffer) :
          /\ ~IsAnswer(p)
          /\ p.type = "publish1" => WriteOk
          /\ Unsolicited(p)
    /\ UNCHANGED <<wire, live, carriers>>

\* the PUBACK cannot be written: the call fails and the publish is not queued
PubackFails ==
    /\ mqttCall.pc \in {"ack", "event"} /\ WriteFails
    /\ \E p \in Decodes(mqtt.buffer) :
          p.type = "publish1" /\ EndCall([mqtt EXCEPT !.buffer = Rest(@)])
    /\ UNCHANGED <<wire, due, live, carriers, seen>>

-----------------------------------------------------------------------------
(* The broker and the clock *)

BrokerPackets ==
    {Packet("publish0", seen.published + 1, TRUE), Packet("publish1", seen.published + 1, TRUE),
     Packet("pingresp", 0, TRUE), Packet("disconnect", 0, TRUE), Packet("malformed", 0, TRUE)}
    \cup {Packet("connack", 0, ok) : ok \in BOOLEAN}
    \cup {Packet(r[1], r[2], ok) : r \in wire.ids, ok \in BOOLEAN}

BrokerSends ==
    /\ seen.sent < MaxPackets /\ wire.connected /\ wire.end = "open"
    /\ \E p \in BrokerPackets :
          /\ wire' = [wire EXCEPT !.pieces =
                         @ \o <<[packet |-> p, piece |-> 1], [packet |-> p, piece |-> 2]>>]
          /\ seen' = [seen EXCEPT
                !.sent = @ + 1,
                !.published = IF p.type \in {"publish0", "publish1"} THEN @ + 1 ELSE @,
                !.confirmed = IF <<p.type, p.id>> \in wire.ids /\ p.ok
                              THEN @ \cup {<<p.type, p.id>>} ELSE @]
    /\ UNCHANGED <<mqtt, mqttCall, due, live, carriers>>

BrokerEnds ==
    /\ wire.connected /\ wire.end = "open"
    /\ \E end \in {"fin", "reset"} : wire' = [wire EXCEPT !.end = end]
    /\ UNCHANGED <<mqtt, mqttCall, due, live, carriers, seen>>

\* the interval passes while the call waits on a silent carrier
IntervalPasses ==
    /\ Reading /\ mqtt.phase = "Open" /\ mqtt.keepAlive /\ ~due
    /\ NeedsMore(mqtt.buffer) /\ wire.pieces = <<>>
    /\ due' = TRUE
    /\ UNCHANGED <<mqtt, mqttCall, wire, live, carriers, seen>>

ClientStep ==
    \/ SessionOpen \/ MqttOpenFails \/ ServerNameRejected \/ AttachAndConnect
    \/ ConnectRefused \/ ConnectWriteFails
    \/ ConnAckReceived \/ NothingToSend \/ SendPacket \/ SendFails \/ QosRefused
    \/ ReadPieces \/ MqttReadFails \/ ReadEof \/ PingRequest \/ KeepAliveFails
    \/ AnswerReceived \/ PacketHandled \/ PubackFails

MqttNext ==
    \/ SetMqttTarget \/ SetKeepAlive \/ (\E kind \in MqttRequests : BeginCall(kind))
    \/ ReadEvent \/ Disconnect \/ DisconnectRefused
    \/ ClientStep
    \/ BrokerSends \/ BrokerEnds \/ IntervalPasses

MqttSpec == MqttInit /\ [][MqttNext]_mqttVars
MqttFairSpec == MqttSpec /\ WF_mqttVars(ClientStep) /\ WF_mqttVars(IntervalPasses)

-----------------------------------------------------------------------------
(* Properties *)

\* A publish, subscribe or unsubscribe that returned true was acknowledged by
\* the broker for that very packet, whatever came in between: acknowledgements
\* of earlier calls that failed, deliveries, keep-alive traffic
\* (wait_for_puback, wait_for_suback, wait_for_unsuback).  After a malformed
\* packet threw away half of the next one, the bytes may say anything.
TrueMeansAcknowledged ==
    \A d \in seen.done : d[3] => <<d[1], d[2]>> \in seen.confirmed

\* A publish the edge acknowledged to the broker on the current carrier is with
\* the program or in its event queue: a failed call, a remote disconnect, a
\* keep-alive expiry or the end of the stream does not drop it
\* (handle_unsolicited_packet, read_next_event_value).  The program sees
\* deliveries in the order the broker sent them, none twice.
AcknowledgedIsKept ==
    /\ seen.aligned =>
           \A m \in seen.acked \ {0} :
               \/ m \in Range(seen.got)
               \/ \E i \in 1..Len(mqtt.events) : mqtt.events[i].id = m
    /\ \A i, j \in 1..Len(seen.got) : i < j => seen.got[i] < seen.got[j]

\* An open socket belongs to the session's carrier, or to a TLS upgrade whose
\* server name was rejected: reconnecting never leaves the old carrier open
\* (close_connection_carrier before attach_carrier).
OneCarrier == live \ seen.orphans \subseteq {mqtt.carrier}

\* A call that waits on an open session does not wait forever on a silent
\* broker: the keep-alive ends the wait or the session (read_next_packet).  A
\* program that set the keep-alive to zero has no such bound, and neither has the
\* wait for CONNACK (next_keep_alive_wait).
SilenceIsNoticed ==
    (Reading /\ mqtt.phase = "Open" /\ mqtt.keepAlive) ~> (~Reading \/ mqtt.phase # "Open")
=============================================================================
