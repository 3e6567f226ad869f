------------------------------ MODULE MqttCodec ------------------------------
(***************************************************************************)
(* The MQTT 5 packet codec of src/src/abi_impl/mqtt/codec.rs on bytes, and *)
(* the read loop that cuts a byte stream into packets                      *)
(* (read_next_packet in mqtt/upstream.rs).  MqttConnection abstracts the   *)
(* stream to two pieces per packet; this module shows the cutting itself.  *)
(***************************************************************************)
EXTENDS Naturals, Sequences, FiniteSets, SequencesExt

CONSTANTS
    Lengths,    \* remaining lengths to encode
    Streams,    \* sequences of packets a broker may send
    Chunks      \* how many bytes a read of the carrier may return

VARIABLES
    packets,   \* what the broker sends
    stream,    \* its bytes that are still on their way
    buffer,    \* the read buffer
    decoded    \* the packets read so far

vars == <<packets, stream, buffer, decoded>>

-----------------------------------------------------------------------------
(* Variable byte integers *)

\* An encoder's error.  No encoding is empty.
Refused == <<>>

\* encode_variable_int: seven bits a byte, low first, the high bit says more
EncodeVariableInt(value) ==
    IF value > 268435455 THEN Refused ELSE
    LET size == CHOOSE n \in 1..4 : value < 128^n /\ (n = 1 \/ value >= 128^(n - 1))
    IN  [i \in 1..size |-> ((value \div 128^(i - 1)) % 128) + (IF i < size THEN 128 ELSE 0)]

\* Mutant: the fourth byte of a length is refused.
DecodeShortInt(bytes) ==
    LET last == {i \in 1..Len(bytes) : i <= 3 /\ bytes[i] < 128
                                       /\ \A j \in 1..(i - 1) : bytes[j] >= 128}
        Value(n) == FoldLeftDomain(LAMBDA sum, i : sum + (bytes[i] % 128) * 128^(i - 1),
                                   0, SubSeq(bytes, 1, n))
    IN  IF last # {} THEN LET n == CHOOSE n \in last : TRUE
                          IN  [is |-> "int", value |-> Value(n), took |-> n]
        ELSE [is |-> IF Len(bytes) >= 3 THEN "error" ELSE "more", value |-> 0, took |-> 0]

\* decode_variable_int: the value and the bytes it took, "more", or "error"
DecodeVariableInt(bytes) ==
    LET last == {i \in 1..Len(bytes) : i <= 4 /\ bytes[i] < 128
                                       /\ \A j \in 1..(i - 1) : bytes[j] >= 128}
        Value(n) == FoldLeftDomain(LAMBDA sum, i : sum + (bytes[i] % 128) * 128^(i - 1),
                                   0, SubSeq(bytes, 1, n))
    IN  IF last # {} THEN LET n == CHOOSE n \in last : TRUE
                          IN  [is |-> "int", value |-> Value(n), took |-> n]
        ELSE [is |-> IF Len(bytes) >= 4 THEN "error" ELSE "more", value |-> 0, took |-> 0]

-----------------------------------------------------------------------------
(* Packets.  A packet is its type and its fields; strings and payloads are  *)
(* byte sequences.                                                          *)

U16(n) == <<n \div 256, n % 256>>
ReadU16(b, at) == b[at] * 256 + b[at + 1]

EncodeUtf8(s) == IF Len(s) > 65535 THEN Refused ELSE U16(Len(s)) \o s

EncodeFixedPacket(header, body) ==
    IF EncodeVariableInt(Len(body)) = Refused THEN Refused
    ELSE <<header>> \o EncodeVariableInt(Len(body)) \o body

EncodePublishPacket(p) ==
    IF EncodeUtf8(p.topic) = Refused THEN Refused
    ELSE EncodeFixedPacket(48 + p.qos * 2 + (IF p.retain THEN 1 ELSE 0),
        EncodeUtf8(p.topic) \o (IF p.qos > 0 THEN U16(p.id) ELSE <<>>) \o <<0>> \o p.payload)

\* std::str::from_utf8: characters of one to four bytes, each in its shortest form,
\* no surrogates and nothing above U+10FFFF
IsUtf8(s) ==
    LET Width(b) == CASE b < 128 -> 1 [] b \in 194..223 -> 2 [] b \in 224..239 -> 3
                      [] b \in 240..244 -> 4 [] OTHER -> 0
        Second(b) == CASE b = 224 -> 160..191 [] b = 237 -> 128..159
                       [] b = 240 -> 144..191 [] b = 244 -> 128..143 [] OTHER -> 128..191
        Char(i) == /\ Width(s[i]) # 0 /\ i + Width(s[i]) <= Len(s) + 1
                   /\ \A j \in (i + 1)..(i + Width(s[i]) - 1) :
                         s[j] \in IF j = i + 1 THEN Second(s[i]) ELSE 128..191
        valid[i \in 1..(Len(s) + 1)] == i = Len(s) + 1 \/ (Char(i) /\ valid[i + Width(s[i])])
    IN  valid[1]

Error == [is |-> "error"]

\* decode_properties_length: the offset after the properties, 0 when truncated
AfterProperties(body, at) ==
    LET n == DecodeVariableInt(SubSeq(body, at, Len(body)))
    IN  IF n.is # "int" \/ at + n.took + n.value > Len(body) + 1 THEN 0
        ELSE at + n.took + n.value

DecodeConnack(body) ==
    IF Len(body) >= 2 /\ AfterProperties(body, 3) = Len(body) + 1
    THEN [is |-> "connack", reason |-> body[2]] ELSE Error

DecodePublish(flags, body) ==
    LET qos == (flags \div 2) % 4
        topicEnd == IF Len(body) >= 2 THEN 2 + ReadU16(body, 1) ELSE 0
        idEnd == topicEnd + (IF qos > 0 THEN 2 ELSE 0)
        start == IF idEnd < Len(body) THEN AfterProperties(body, idEnd + 1) ELSE 0
    IN  IF qos > 1 \/ Len(body) < 2 \/ topicEnd > Len(body) \/ idEnd > Len(body) \/ start = 0
           \/ ~IsUtf8(SubSeq(body, 3, topicEnd))
        THEN Error
        ELSE [is |-> "publish", qos |-> qos, retain |-> flags % 2 = 1, dup |-> flags >= 8,
              topic |-> SubSeq(body, 3, topicEnd),
              id |-> IF qos > 0 THEN ReadU16(body, topicEnd + 1) ELSE 0,
              payload |-> SubSeq(body, start, Len(body))]

\* the reason code and the properties of a PUBACK may both be left out
DecodePuback(body) ==
    IF Len(body) < 2 \/ (Len(body) > 3 /\ AfterProperties(body, 4) # Len(body) + 1) THEN Error
    ELSE [is |-> "puback", id |-> ReadU16(body, 1),
          reason |-> IF Len(body) > 2 THEN body[3] ELSE 0]

DecodeSuback(is, body) ==
    IF Len(body) < 3 \/ AfterProperties(body, 3) = 0 THEN Error
    ELSE [is |-> is, id |-> ReadU16(body, 1),
          reasons |-> SubSeq(body, AfterProperties(body, 3), Len(body))]

DecodeBody(header, body) ==
    CASE header \div 16 = 2  -> DecodeConnack(body)
      [] header \div 16 = 3  -> DecodePublish(header % 16, body)
      [] header \div 16 = 4  -> DecodePuback(body)
      [] header \div 16 = 9  -> DecodeSuback("suback", body)
      [] header \div 16 = 11 -> DecodeSuback("unsuback", body)
      [] header \div 16 = 13 -> [is |-> "pingresp"]
      [] header \div 16 = 14 -> [is |-> "disconnect", reason |-> IF body = <<>> THEN 0 ELSE body[1]]
      [] OTHER -> Error

\* decode_packet: the packet and the bytes it took
DecodePacket(bytes) ==
    LET n == IF Len(bytes) < 2 THEN [is |-> "more", value |-> 0, took |-> 0]
             ELSE DecodeVariableInt(Tail(bytes))
        total == 1 + n.took + n.value
    IN  CASE n.is # "int" -> [is |-> n.is]
          [] n.is = "int" /\ Len(bytes) < total -> [is |-> "more"]
          [] OTHER -> LET packet == DecodeBody(bytes[1], SubSeq(bytes, 2 + n.took, total))
                      IN  IF packet.is = "error" THEN Error
                          ELSE [is |-> "packet", took |-> total, packet |-> packet]

-----------------------------------------------------------------------------
(* The broker's side, external: how it encodes what it sends *)

Encode(p) ==
    CASE p.is = "publish" -> [EncodePublishPacket(p) EXCEPT ![1] = @ + (IF p.dup THEN 8 ELSE 0)]
      [] p.is = "connack" -> EncodeFixedPacket(32, <<0, p.reason, 0>>)
      [] p.is = "puback" -> IF p.reason = 0 THEN EncodeFixedPacket(64, U16(p.id))
                            ELSE EncodeFixedPacket(64, U16(p.id) \o <<p.reason, 0>>)
      [] p.is = "suback" -> EncodeFixedPacket(144, U16(p.id) \o <<0>> \o p.reasons)
      [] p.is = "unsuback" -> EncodeFixedPacket(176, U16(p.id) \o <<0>> \o p.reasons)
      [] p.is = "pingresp" -> EncodeFixedPacket(208, <<>>)
      [] p.is = "disconnect" -> IF p.reason = 0 THEN <<224, 0>>
                                ELSE EncodeFixedPacket(224, <<p.reason, 0>>)

-----------------------------------------------------------------------------
(* Reading *)

Init ==
    /\ packets \in Streams
    /\ stream = FlattenSeq([i \in 1..Len(packets) |-> Encode(packets[i])])
    /\ buffer = <<>>
    /\ decoded = <<>>

ReadChunk ==
    /\ DecodePacket(buffer).is = "more"
    /\ \E n \in Chunks :
          /\ n <= Len(stream)
          /\ buffer' = buffer \o SubSeq(stream, 1, n)
          /\ stream' = SubSeq(stream, n + 1, Len(stream))
    /\ UNCHANGED <<packets, decoded>>

NextPacket ==
    LET d == DecodePacket(buffer) IN
    /\ d.is = "packet"
    /\ decoded' = Append(decoded, d.packet)
    /\ buffer' = SubSeq(buffer, d.took + 1, Len(buffer))
    /\ UNCHANGED <<packets, stream>>

Next == ReadChunk \/ NextPacket

Spec == Init /\ [][Next]_vars

-----------------------------------------------------------------------------
(* Properties *)

\* However the stream is cut into chunks, the packets decoded are the packets
\* sent, in order and unchanged, and nothing is left when the stream is used up
\* (decode_packet with encode_publish_packet and the broker's encoders); the one
\* packet refused is the PUBLISH whose topic is not UTF-8.  Lengths too long to
\* stream here decode to themselves from their own bytes, whatever follows them,
\* and from no shorter prefix, and a length that cannot be encoded is refused
\* (encode_variable_int, decode_variable_int).
FramesExactly ==
    /\ IsPrefix(decoded, packets)
    /\ DecodePacket(buffer).is = "error" =>
          LET next == packets[Len(decoded) + 1]
          IN  next.is = "publish" /\ ~IsUtf8(next.topic)
    /\ \A i \in 1..Len(decoded) : decoded[i].is = "publish" => IsUtf8(decoded[i].topic)
    /\ stream = <<>> /\ DecodePacket(buffer).is = "more"
           => decoded = packets /\ buffer = <<>>
    /\ \A n \in Lengths :
          LET code == EncodeVariableInt(n) IN
          IF n >= 128^4 THEN code = Refused ELSE
          /\ DecodeVariableInt(code \o <<255>>) = [is |-> "int", value |-> n, took |-> Len(code)]
          /\ \A k \in 0..(Len(code) - 1) : DecodeVariableInt(SubSeq(code, 1, k)).is = "more"
=============================================================================
