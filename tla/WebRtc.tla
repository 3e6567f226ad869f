------------------------------- MODULE WebRtc -------------------------------
(***************************************************************************)
(* A WebRTC connection of abi_impl/webrtc/mod.rs: the record the host      *)
(* calls read and write, the runtime state the peer's callbacks write from *)
(* their own tasks, the inbox between them, and the one call in progress.  *)
(* Session descriptions, labels and payloads are abstracted; a message is  *)
(* its number, odd ones text, even ones binary.                            *)
(***************************************************************************)
EXTENDS Naturals, Sequences

CONSTANTS MaxMessages,  \* messages the remote peer sends
          MaxRtcCalls      \* host calls a program makes

VARIABLES
    rtc,    \* WebRtcConnectionState: phase, present, io, failed
    rt,      \* WebRtcRuntimeState: channel, open, closed, failed
    inbox,   \* messages delivered and not read
    rtcCall,    \* the host call in progress
    taken,   \* messages the program's reads took, in order (history)
    delivered, \* messages delivered so far (history)
    rtcCalls    \* host calls made

rtcVars == <<rtc, rt, inbox, rtcCall, taken, delivered, rtcCalls>>

RtcIdle == [op |-> "none", at |-> "idle", woken |-> FALSE]

RtcInit ==
    /\ rtc = [phase |-> "inactive", present |-> FALSE, io |-> FALSE, failed |-> FALSE]
    /\ rt = [channel |-> FALSE, open |-> FALSE, closed |-> FALSE, failed |-> FALSE]
    /\ inbox = <<>> /\ rtcCall = RtcIdle /\ taken = <<>> /\ delivered = 0 /\ rtcCalls = 0

-----------------------------------------------------------------------------
\* The record.
Configure(c) == [c EXCEPT !.present = TRUE, !.failed = FALSE,
                          !.phase = IF @ \in {"inactive", "closed", "failed"}
                                    THEN "configured" ELSE @]
AttachIo(c) == [Configure(c) EXCEPT !.io = TRUE]
SetRemoteDescription(c) == [Configure(c) EXCEPT !.phase = "remote-description-set"]
SetLocalDescription(c, phase) == [Configure(c) EXCEPT !.phase = phase]
IsOpen(c) == c.io /\ rt.open
NoteConnecting(c) ==
    [Configure(c) EXCEPT !.phase = IF IsOpen(c) THEN @ ELSE "connecting"]

\* refresh_async_state: a failure wins over open, open over closed.
Refresh(c) ==
    IF ~c.io THEN c
    ELSE IF rt.failed THEN [c EXCEPT !.phase = "failed", !.present = TRUE, !.failed = TRUE]
    ELSE IF rt.open THEN [c EXCEPT !.phase = "open", !.failed = FALSE]
    ELSE IF rt.closed THEN [c EXCEPT !.phase = "closed"] ELSE c
Eof(c) == Refresh(c).phase \in {"closed", "failed"}

-----------------------------------------------------------------------------
\* The callbacks the peer connection runs (attach_peer_callbacks,
\* attach_data_channel_handlers).  A remote channel is attached as it appears,
\* a local one by create_offer; the callbacks of every channel attached so far
\* write the same runtime state.
WakesOpen == rtcCall' = IF rtcCall.at = "opening" THEN [rtcCall EXCEPT !.woken = TRUE] ELSE rtcCall
WakesInbox == rtcCall' = IF rtcCall.at = "waiting" THEN [rtcCall EXCEPT !.woken = TRUE] ELSE rtcCall

OnDataChannel ==
    /\ rtc.io
    /\ rt' = [rt EXCEPT !.channel = TRUE, !.closed = FALSE, !.failed = FALSE]
    /\ UNCHANGED <<rtc, inbox, rtcCall, taken, delivered, rtcCalls>>

OnOpen ==
    /\ rt.channel /\ ~rt.open
    /\ rt' = [rt EXCEPT !.open = TRUE, !.closed = FALSE, !.failed = FALSE]
    /\ WakesOpen
    /\ UNCHANGED <<rtc, inbox, taken, delivered, rtcCalls>>

OnMessage ==
    /\ rt.channel /\ delivered < MaxMessages
    /\ delivered' = delivered + 1
    /\ inbox' = Append(inbox, delivered + 1)
    /\ WakesInbox
    /\ UNCHANGED <<rtc, rt, taken, rtcCalls>>

\* Closing wakes nobody: close_notify has no waiters.
OnClose ==
    /\ rt.channel
    /\ rt' = [rt EXCEPT !.open = FALSE, !.closed = TRUE]
    /\ UNCHANGED <<rtc, inbox, rtcCall, taken, delivered, rtcCalls>>

\* The peer connection failing, or being disconnected or closed.
OnPeerState ==
    /\ rtc.io
    /\ \E failed \in {rt.failed, TRUE} :
          rt' = [rt EXCEPT !.closed = TRUE, !.failed = failed]
    /\ UNCHANGED <<rtc, inbox, rtcCall, taken, delivered, rtcCalls>>

-----------------------------------------------------------------------------
\* The host calls.
RtcEnds == rtcCall' = RtcIdle

\* set_ice_servers, set_data_channel_label: refused once the peer exists.
Configures ==
    /\ rtcCall = RtcIdle /\ rtcCalls < MaxRtcCalls /\ ~rtc.io
    /\ rtc' = Configure(rtc)
    /\ rtcCalls' = rtcCalls + 1
    /\ UNCHANGED <<rt, inbox, rtcCall, taken, delivered>>

\* ensure_peer_connection: every other call needs a peer, and makes one.
Begin(op) ==
    /\ rtcCall = RtcIdle /\ rtcCalls < MaxRtcCalls
    /\ rtcCall' = [RtcIdle EXCEPT !.op = op, !.at = IF rtc.io THEN "peer" ELSE "create"]
    /\ rtcCalls' = rtcCalls + 1
    /\ UNCHANGED <<rtc, rt, inbox, taken, delivered>>

CreatePeer ==
    /\ rtcCall.at = "create"
    /\ rtc' = AttachIo(rtc)
    /\ rtcCall' = [rtcCall EXCEPT !.at = "peer"]
    /\ UNCHANGED <<rt, inbox, taken, delivered, rtcCalls>>

CreateFails ==
    /\ rtcCall.at = "create"
    /\ RtcEnds
    /\ UNCHANGED <<rtc, rt, inbox, taken, delivered, rtcCalls>>

\* ensure_local_data_channel
Attached == IF rt.channel THEN rt
            ELSE [rt EXCEPT !.channel = TRUE, !.closed = FALSE, !.failed = FALSE]

\* set_remote_description, create_offer, create_answer: a fault of the peer
\* connection ends the call and leaves the record alone; an offer may have
\* attached its data channel before it failed.
Describe ==
    /\ rtcCall.at = "peer" /\ rtcCall.op \in {"remote", "offer", "answer"}
    /\ \/ /\ rt' = IF rtcCall.op = "offer" THEN Attached ELSE rt
          /\ rtc' = CASE rtcCall.op = "remote" -> SetRemoteDescription(rtc)
                       [] rtcCall.op = "offer"  -> SetLocalDescription(rtc, "offer-created")
                       [] rtcCall.op = "answer" -> SetLocalDescription(rtc, "answer-created")
       \/ /\ rt' = rt \/ (rtcCall.op = "offer" /\ rt' = Attached)
          /\ UNCHANGED rtc
    /\ RtcEnds
    /\ UNCHANGED <<inbox, taken, delivered, rtcCalls>>

\* connection_connect, ensure_connection_open: go on when open, give up when
\* failed, wait otherwise.
Connecting ==
    /\ rtcCall.at = "peer" /\ rtcCall.op \in {"connect", "send", "text", "binary"}
    /\ rtc' = NoteConnecting(rtc)
    /\ rtcCall' = IF rt.open THEN [rtcCall EXCEPT !.at = "opened"]
               ELSE IF rt.failed THEN RtcIdle
               ELSE [rtcCall EXCEPT !.at = "opening"]
    /\ UNCHANGED <<rt, inbox, taken, delivered, rtcCalls>>

\* Mutant: the wait has no timeout, only the wake-up ends it.
OpenWaitNotified ==
    /\ rtcCall.at = "opening" /\ rtcCall.woken
    /\ rtcCall' = IF rt.failed \/ (~rt.open /\ rtcCall.op # "connect") THEN RtcIdle
               ELSE [rtcCall EXCEPT !.at = "opened"]
    /\ UNCHANGED <<rtc, rt, inbox, taken, delivered, rtcCalls>>

\* wait_until_open after the wake-up or the timeout, whichever comes first.
\* The wake-up may be missed; the state is looked at again either way.
OpenWaitEnds ==
    /\ rtcCall.at = "opening"
    /\ rtcCall' = IF rt.failed \/ (~rt.open /\ rtcCall.op # "connect") THEN RtcIdle
               ELSE [rtcCall EXCEPT !.at = "opened"]
    /\ UNCHANGED <<rtc, rt, inbox, taken, delivered, rtcCalls>>

\* The connection is open: connect returns, a read looks into the inbox, a send
\* hands its message to the data channel, if there is one.
Opened ==
    /\ rtcCall.at = "opened"
    /\ rtc' = Refresh(rtc)
    /\ rtcCall' = CASE rtcCall.op \in {"text", "binary"} -> [rtcCall EXCEPT !.at = "pop"]
                    [] rtcCall.op = "send" /\ rt.channel -> [rtcCall EXCEPT !.at = "sending"]
                    [] OTHER -> RtcIdle
    /\ UNCHANGED <<rt, inbox, taken, delivered, rtcCalls>>

\* The data channel takes the message or refuses it; the record does not change
\* either way.  No timeout bounds the wait for it.
SendEnds ==
    /\ rtcCall.at = "sending"
    /\ RtcEnds
    /\ UNCHANGED <<rtc, rt, inbox, taken, delivered, rtcCalls>>

\* Mutant: the newest message is taken first.
PopNewest ==
    /\ rtcCall.at = "pop" /\ inbox # <<>>
    /\ taken' = Append(taken, inbox[Len(inbox)])
    /\ inbox' = SubSeq(inbox, 1, Len(inbox) - 1)
    /\ RtcEnds
    /\ UNCHANGED <<rtc, rt, delivered, rtcCalls>>

\* pop_next_message takes the first message (one of the wrong kind is taken
\* and reported), reports a failure, or returns nothing once closed; only then
\* does it start to wait.
PopMessage ==
    /\ rtcCall.at = "pop" /\ inbox # <<>>
    /\ taken' = Append(taken, Head(inbox))
    /\ inbox' = Tail(inbox)
    /\ RtcEnds
    /\ UNCHANGED <<rtc, rt, delivered, rtcCalls>>

PopNothing ==
    /\ rtcCall.at = "pop" /\ inbox = <<>>
    /\ rtcCall' = IF rt.failed \/ rt.closed THEN RtcIdle ELSE [rtcCall EXCEPT !.at = "checked"]
    /\ UNCHANGED <<rtc, rt, inbox, taken, delivered, rtcCalls>>

\* Between the look and the registration a message wakes nobody.
PopWaits ==
    /\ rtcCall.at = "checked"
    /\ rtcCall' = [rtcCall EXCEPT !.at = "waiting", !.woken = FALSE]
    /\ UNCHANGED <<rtc, rt, inbox, taken, delivered, rtcCalls>>

PopWakes ==
    /\ rtcCall.at = "waiting" /\ rtcCall.woken
    /\ rtcCall' = [rtcCall EXCEPT !.at = "pop", !.woken = FALSE]
    /\ UNCHANGED <<rtc, rt, inbox, taken, delivered, rtcCalls>>

\* connection_close: the peer goes, the record says closed.
Close ==
    /\ rtcCall.at = "peer" /\ rtcCall.op = "close"
    /\ \/ rtc' = [rtc EXCEPT !.phase = "closed"]
       \/ UNCHANGED rtc
    /\ RtcEnds
    /\ UNCHANGED <<rt, inbox, taken, delivered, rtcCalls>>

-----------------------------------------------------------------------------
Callbacks == OnDataChannel \/ OnOpen \/ OnMessage \/ OnClose \/ OnPeerState
CallStep == \/ CreatePeer \/ CreateFails \/ Describe \/ Connecting
            \/ OpenWaitEnds \/ Opened
            \/ PopMessage \/ PopNothing \/ PopWaits \/ PopWakes \/ Close

RtcNext == \/ Callbacks \/ CallStep \/ SendEnds \/ Configures
           \/ \E op \in {"remote", "offer", "answer", "connect", "send", "text",
                         "binary", "close"} : Begin(op)

RtcSpec == RtcInit /\ [][RtcNext]_rtcVars
\* A call in progress is driven on: its futures are polled, timers fire.  When the
\* data channel accepts a message is up to the peer: SendEnds is not fair.
RtcFairSpec == RtcSpec /\ WF_rtcVars(CallStep)

-----------------------------------------------------------------------------
\* Across failures, closes and reopenings of the channel, the program's reads
\* take every message once and in the order the callbacks delivered them.
ReadInOrder == taken \o inbox = [k \in 1..delivered |-> k]

\* Connecting comes back whatever the peer does and whichever wake-up is missed:
\* the timeout ends the wait (wait_until_open).  A send comes back too, or gets as
\* far as the data channel, whose own wait nothing bounds.
ConnectReturns ==
    /\ rtcCall.op = "connect" ~> rtcCall = RtcIdle
    /\ rtcCall.op = "send" ~> rtcCall = RtcIdle \/ rtcCall.at = "sending"
=============================================================================
