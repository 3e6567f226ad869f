----------------------------- MODULE MCPrograms -----------------------------
(***************************************************************************)
(* What a program does with the host functions, one carrier at a time: the *)
(* transport of its downstream connections, its sockets, its MQTT and      *)
(* WebSocket connections and its HTTP exchanges.  `part' names the one     *)
(* that moves; the others stay in an initial state.                        *)
(***************************************************************************)
EXTENDS SocketTransport, DownstreamTransport, MqttConnection, WebSocket, Exchange, TLC

CONSTANTS c1, c2, c3

VARIABLES part, packets, stream, buffer, decoded

codecVars == <<packets, stream, buffer, decoded>>

\* A client that sends two bytes, with a TLS hello or without; a TLS client.
ClientScripts == {<<Hello, 1>>, <<1, 2>>, <<Hello>>}

Versions == {<<"h1">>, <<"h2", "h1">>, <<"h3", "h2", "h1">>}

\* The lengths at which the encoding grows, and every packet the client accepts, and
\* one with a topic that is not UTF-8.
Publish(q, n, topic) ==
    [is |-> "publish", qos |-> q, retain |-> q = 0, dup |-> q = 1, topic |-> topic,
     id |-> IF q > 0 THEN 258 ELSE 0, payload |-> [i \in 1 .. n |-> i % 256]]

BrokerStreams ==
    {<<Publish(0, 3, <<116>>), Publish(1, 130, <<195, 169>>), [is |-> "pingresp"]>>,
     <<Publish(0, 2, <<226, 130, 172>>), Publish(0, 1, <<240, 143, 128, 128>>), [is |-> "pingresp"]>>,
     <<[is |-> "connack", reason |-> 135], [is |-> "puback", id |-> 1, reason |-> 0],
       [is |-> "puback", id |-> 300, reason |-> 128]>>,
     <<[is |-> "suback", id |-> 2, reasons |-> <<0>>],
       [is |-> "unsuback", id |-> 3, reasons |-> <<17>>],
       [is |-> "disconnect", reason |-> 0], [is |-> "disconnect", reason |-> 130]>>}

Codec == INSTANCE MqttCodec WITH
    Lengths <- {0, 1, 127, 128, 16383, 16384, 2097151, 2097152, 268435455,
                268435456},
    Streams <- BrokerStreams, Chunks <- {1, 2, 5, 128}

Symmetry == Permutations({c1, c2})

----------------------------------------------------------------------------
\* One connection, of any client and goal ("transport"), or two TLS connections of
\* programs that change under them and read nothing before the handshake ("tls").
TlsStep(c) ==
    \/ Serve(c) \/ ClientSend(c) \/ ClientFin(c) \/ Write(c) \/ IoFails(c) \/ Close(c)
    \/ FromSocket(c) \/ FromSocketRejects(c) \/ Configure(c)
    \/ HandshakeBegin(c) \/ BuildConfigFails(c) \/ HandshakeEnd(c) \/ CacheConfig(c)
    \/ Handoff(c) \/ WebSocketAccept(c) \/ HttpReads(c)

\* An MQTT connection whose keep-alive is zero takes no steps that one with a
\* keep-alive does not take; only the latter is explored.
ProgramsInit ==
    /\ part \in {"transport", "tls", "sockets", "mqtt", "codec", "ws", "exchange"}
    /\ TransportInit
    /\ \A c \in {c1, c2} : conn[c] = Fresh(<<Hello>>, "none")
    /\ IF part = "transport" THEN conn[c3].script # <<Hello>>
       ELSE conn[c3] = Fresh(<<Hello>>, "none")
    /\ SocketInit
    /\ MqttInit
    /\ Codec!Init /\ (part # "codec" => packets[1].is = "connack")
    /\ WsInit
    /\ ExchangeInit /\ (part # "exchange" => inbound.length = 0)

ProgramsNext ==
    \/ /\ \/ part = "transport" /\ TransportStep(c3)
          \/ part = "tls" /\ \E c \in {c1, c2} : TlsStep(c)
          \/ part \in {"transport", "tls"} /\ (ClearConfigurations \/ StoreProgram)
       /\ UNCHANGED <<part, socketVars, mqttVars, codecVars, wsVars, exchangeVars>>
    \/ /\ part = "sockets" /\ SocketNext
       /\ UNCHANGED <<part, transportVars, mqttVars, codecVars, wsVars, exchangeVars>>
    \/ /\ part = "mqtt" /\ MqttNext /\ mqtt'.keepAlive
       /\ UNCHANGED <<part, transportVars, socketVars, codecVars, wsVars, exchangeVars>>
    \/ /\ part = "codec" /\ Codec!Next
       /\ UNCHANGED <<part, transportVars, socketVars, mqttVars, wsVars, exchangeVars>>
    \/ /\ part = "ws" /\ WsNext
       /\ UNCHANGED <<part, transportVars, socketVars, mqttVars, codecVars, exchangeVars>>
    \/ /\ part = "exchange" /\ ExchangeNext
       /\ UNCHANGED <<part, transportVars, socketVars, mqttVars, codecVars, wsVars>>

ProgramsSpec ==
    ProgramsInit /\ [][ProgramsNext]_<<part, transportVars, socketVars, mqttVars, codecVars,
                                       wsVars, exchangeVars>>

----------------------------------------------------------------------------
\* Packets come out of the read buffer as they were sent, wherever the stream was
\* cut, and lengths survive their encoding (MqttCodec).
FramesExactly == part = "codec" => Codec!FramesExactly
=============================================================================
