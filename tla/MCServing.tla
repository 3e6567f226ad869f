------------------------------ MODULE MCServing ------------------------------
(***************************************************************************)
(* What a request waits for while it is served: the next request on its    *)
(* HTTP/1.1 connection, the program's response, an upstream session, a     *)
(* relay, an MQTT broker, a WebRTC peer; and the store of the sessions     *)
(* that the downstream trackers keep.  `part' names the one that moves;    *)
(* the others stay in an initial state.  The fairness is that of each part.*)
(***************************************************************************)
EXTENDS BoundedLru, DownstreamResponse, ProxyPipe, WebRtc, FastPath, TLC

CONSTANTS r1, r2, k1, k2, k3, v1, v2

VARIABLES
    part,
    current, opening, nextSessionId, dag, link, at2, held, stream,
    mqtt, mqttCall, mqttWire, due, live, carriers, seen

http2Vars == <<current, opening, nextSessionId, dag, link, at2, held, stream>>
brokerVars == <<mqtt, mqttCall, mqttWire, due, live, carriers, seen>>

\* Two requests that are not cancelled.
Http2 == INSTANCE Http2Upstream WITH
    Requests <- {r1, r2}, CancelAllowed <- FALSE, conn <- link, pc <- at2

\* A stream of each kind, and a second socket.
KindOf == [d |-> "http", x |-> "exchange", u |-> "default", a |-> "socket", b |-> "socket"]

Mqtt == INSTANCE MqttConnection WITH
    MqttRequests <- {"connect", "publish0", "publish1", "unsubscribe"},
    MaxMqttCalls <- 2, MaxPackets <- 2, MaxPacketId <- 2, wire <- mqttWire

Request(framing, sizes, keep, fast, bad) ==
    [body |-> framing, sizes |-> sizes, keep |-> keep, fast |-> fast, bad |-> bad]

\* Two requests after one another: each framing, a body over the budget, a
\* malformed one, a request that the fast path leaves to hyper.
ClientScripts ==
    {<<Request("fixed", <<2>>, TRUE, TRUE, FALSE), Request("chunked", <<1, 1>>, TRUE, TRUE, FALSE)>>,
     <<Request("chunked", <<1, 3>>, TRUE, TRUE, FALSE), Request("empty", <<>>, FALSE, TRUE, FALSE)>>,
     <<Request("chunked", <<2>>, TRUE, TRUE, TRUE), Request("empty", <<>>, TRUE, FALSE, FALSE)>>,
     <<Request("empty", <<>>, TRUE, TRUE, FALSE), Request("fixed", <<1>>, TRUE, FALSE, FALSE)>>}

----------------------------------------------------------------------------
ServingInit ==
    /\ part \in {"lru", "http2", "response", "relay", "mqtt", "rtc", "fast"}
    /\ LruInit
    /\ Http2!Init
    /\ ResponseInit /\ (part # "response" => ~streams)
    /\ PipeInit
    /\ Mqtt!MqttInit
    /\ RtcInit
    /\ FastInit /\ (part # "fast" => req.body = "fixed")

ServingNext ==
    \/ /\ part = "lru" /\ LruNext
       /\ UNCHANGED <<part, http2Vars, responseVars, pipeVars, brokerVars, rtcVars, fastVars>>
    \/ /\ part = "http2" /\ Http2!Next
       /\ UNCHANGED <<part, lruVars, responseVars, pipeVars, brokerVars, rtcVars, fastVars>>
    \/ /\ part = "response" /\ ResponseNext
       /\ UNCHANGED <<part, lruVars, http2Vars, pipeVars, brokerVars, rtcVars, fastVars>>
    \/ /\ part = "relay" /\ PipeNext
       /\ UNCHANGED <<part, lruVars, http2Vars, responseVars, brokerVars, rtcVars, fastVars>>
    \/ /\ part = "mqtt" /\ Mqtt!MqttNext
       /\ UNCHANGED <<part, lruVars, http2Vars, responseVars, pipeVars, rtcVars, fastVars>>
    \/ /\ part = "rtc" /\ RtcNext
       /\ UNCHANGED <<part, lruVars, http2Vars, responseVars, pipeVars, brokerVars, fastVars>>
    \/ /\ part = "fast" /\ FastNext
       /\ UNCHANGED <<part, lruVars, http2Vars, responseVars, pipeVars, brokerVars, rtcVars>>

ServingSpec ==
    /\ ServingInit
    /\ [][ServingNext]_<<part, lruVars, http2Vars, responseVars, pipeVars, brokerVars, rtcVars,
                         fastVars>>
    /\ \A r \in {r1, r2} : WF_http2Vars(part = "http2" /\ Http2!AcquireStep(r))
    /\ WF_responseVars(part = "response" /\ NotifyWaiters)
    /\ WF_responseVars(part = "response" /\ FinishAfterRun)
    /\ WF_responseVars(part = "response" /\ Handler)
    /\ \A d \in {"right", "left"} : WF_pipeVars(part = "relay" /\ RelayStep(d))
    /\ \A s \in Streams : WF_pipeVars(part = "relay" /\ PeerFin(s))
    /\ WF_brokerVars(part = "mqtt" /\ Mqtt!ClientStep)
    /\ WF_brokerVars(part = "mqtt" /\ Mqtt!IntervalPasses)
    /\ WF_rtcVars(part = "rtc" /\ CallStep)
    /\ WF_fastVars(part = "fast" /\ Client)
    /\ WF_fastVars(part = "fast" /\ Loop)
    /\ WF_fastVars(part = "fast" /\ ReaderPulls)
    /\ WF_fastVars(part = "fast" /\ RunEnds)

----------------------------------------------------------------------------
\* A session is opened to its end: the flag `opening' comes down again
\* (Http2Upstream: try_begin_open, finish_open).
OpenEnds == Http2!OpenEnds

\* A broker that falls silent is noticed: a read of an open connection comes to an
\* end (MqttConnection: keep_alive_read_wait, the ping and its deadline).
SilenceIsNoticed == Mqtt!SilenceIsNoticed
=============================================================================
