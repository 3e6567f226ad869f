---------------------------- MODULE DebugSession ----------------------------
(***************************************************************************)
(* The store of the one debug session (src/debug_session.rs).  A session   *)
(* is interactive, with a debugger behind a mutex that a remote bridge or  *)
(* a TCP client commands, or it records runs of the requests it matches.   *)
(* Requests keep their own reference to a session, so a session lives on   *)
(* after it has left the store: sessions are numbered in the order they    *)
(* were started and `slot' is the one in the store.                        *)
(*                                                                         *)
(* The store's active flag changes under the store's write lock, and every *)
(* reader that finds it set reads the session under the read lock, so a    *)
(* reader sees what the slot holds at one of its two reads.                *)
(***************************************************************************)
EXTENDS Naturals, Sequences, FiniteSets

CONSTANTS Requests,     \* requests that may match a session
          MaxSessions,  \* bound: sessions started
          Target,       \* record_count of recording sessions
          MatchSets,    \* the sets of requests a session's header and path match
          None

ASSUME SessionAssumption ==
    /\ IsFiniteSet(Requests)
    /\ MaxSessions \in Nat
    /\ Target \in Nat \ {0}
    /\ MatchSets \subseteq SUBSET Requests
    /\ None \notin Requests \cup Nat

VARIABLES slot, sess

Modes == {"remote", "tcp", "recording"}

NewSession(mode, match) ==
    [mode |-> mode, match |-> match, open |-> TRUE, holder |-> None,
     captured |-> 0, next |-> 1, completed |-> FALSE, outbox |-> <<>>]

Interactive(s) == sess[s].mode # "recording"

\* request_will_attach_debugger
Attaches(r) == slot # None /\ r \in sess[slot].match

\* request_uses_blocking_debugger
Blocks(r) == Attaches(r) /\ Interactive(slot)

-----------------------------------------------------------------------------
\* start_debug_session; with a session in the store it is refused.
StartSession ==
    /\ slot = None
    /\ Len(sess) < MaxSessions
    /\ \E mode \in Modes, match \in MatchSets :
           sess' = Append(sess, NewSession(mode, match))
    /\ slot' = Len(sess) + 1

\* DebugSession::close reaches only the bridge of a remote session.
Close(s) == sess' = [sess EXCEPT ![s].open = @ /\ sess[s].mode # "remote"]

\* stop_debug_session
StopSession ==
    /\ slot # None
    /\ Close(slot)
    /\ slot' = None

\* Mutant: whatever session is in the store is removed.
StopAny(s) == IF slot = None THEN UNCHANGED <<slot, sess>> ELSE StopSession

\* Mutant: the session leaves the store and its bridge stays open.
StopWithoutClose(s) ==
    IF slot = s THEN slot' = None /\ UNCHANGED sess ELSE UNCHANGED <<slot, sess>>

\* stop_debug_session_if_match
StopIfMatch(s) == IF slot = s THEN StopSession ELSE UNCHANGED <<slot, sess>>

-----------------------------------------------------------------------------
(* A slice of a request's VM, run_vm_with_optional_debugger: what the      *)
(* session found in the store asks of it.  The id of the request, which    *)
(* the session keeps for its status, is left out.                          *)

RecordingDone(s) == sess[s].completed

\* The recording of one slice enters the outbox under the runtime lock; one
\* that cannot be encoded is counted and left out.
Push(s, encoded) ==
    LET n == sess[s]
        captured == n.captured + 1
        completed == n.completed \/ captured >= Target
    IN  sess' = [sess EXCEPT
            ![s].captured = captured,
            ![s].next = @ + 1,
            ![s].completed = completed,
            ![s].outbox = IF encoded
                          THEN Append(@, [session |-> s, seq |-> n.next,
                                          completed |-> completed])
                          ELSE @]

\* The debugger's mutex.
LockDebugger(s, r) ==
    /\ sess[s].holder = None
    /\ sess' = [sess EXCEPT ![s].holder = r]

UnlockDebugger(s) == sess' = [sess EXCEPT ![s].holder = None]

\* drain_recording_artifacts empties the outbox of the session in the store.
Drained == IF slot = None \/ Interactive(slot) THEN <<>> ELSE sess[slot].outbox

Drain ==
    sess' = IF slot = None THEN sess ELSE [sess EXCEPT ![slot].outbox = <<>>]
=============================================================================
