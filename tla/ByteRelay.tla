------------------------------ MODULE ByteRelay ------------------------------
(***************************************************************************)
(* What proxy::pipe and proxy::forward promise about bytes: each direction *)
(* is a store-and-forward relay with one chunk under way.  It takes the    *)
(* next bytes its source has sent, gives exactly those to its destination, *)
(* and ends the destination only when the source has ended and everything *)
(* it sent has been given.  A call may be abandoned at any moment.         *)
(***************************************************************************)
EXTENDS Sequences, Naturals

CONSTANTS Directions

VARIABLES
    sent,    \* per direction: the bytes its source has sent
    fin,     \* per direction: its source sends no more
    taken,   \* per direction: how many of them the relay has taken
    given,   \* per direction: what the destination has been given
    ended    \* per direction: the destination has been ended

relay == <<sent, fin, taken, given, ended>>

Idle ==
    /\ taken = [d \in Directions |-> 0]
    /\ given = [d \in Directions |-> <<>>]
    /\ ended = [d \in Directions |-> FALSE]

IsPrefixOf(s, t) == Len(s) <= Len(t) /\ s = SubSeq(t, 1, Len(s))

Taken(d) == SubSeq(sent[d], 1, taken[d])

\* A new call, or the end of one: nothing is under way.
Restart ==
    /\ taken' = [d \in Directions |-> 0]
    /\ given' = [d \in Directions |-> <<>>]
    /\ ended' = [d \in Directions |-> FALSE]

SourceSends ==
    /\ \A d \in Directions :
         /\ IsPrefixOf(sent[d], sent'[d])
         /\ fin[d] => fin'[d] /\ sent'[d] = sent[d]
    /\ UNCHANGED <<taken, given, ended>>

Take(d) ==
    /\ given[d] = Taken(d)
    /\ ~ended[d]
    /\ \E n \in (taken[d] + 1)..Len(sent[d]) : taken' = [taken EXCEPT ![d] = n]
    /\ UNCHANGED <<sent, fin, given, ended>>

Give(d) ==
    /\ ~ended[d]
    /\ given' = [given EXCEPT ![d] = Taken(d)]
    /\ UNCHANGED <<sent, fin, taken, ended>>

End(d) ==
    /\ fin[d]
    /\ given[d] = sent[d]
    /\ ended' = [ended EXCEPT ![d] = TRUE]
    /\ UNCHANGED <<sent, fin, taken, given>>

Next ==
    \/ Restart \/ SourceSends
    \/ \E d \in Directions : Take(d) \/ Give(d) \/ End(d)

Spec == Idle /\ [][Next]_relay

=============================================================================
