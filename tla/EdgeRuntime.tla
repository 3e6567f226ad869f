----------------------------- MODULE EdgeRuntime -----------------------------
(***************************************************************************)
(* The requests of VmRunner, the operator's calls through the admin API,   *)
(* and the client of the control plane (src/active_control_plane.rs),      *)
(* which polls for a command, executes it, and sends the recordings it     *)
(* takes from the debug session.                                           *)
(*                                                                         *)
(* Nothing happens at the edge between the answer to a poll and the end of *)
(* its command but a debugger's answer, so a command is one step or, for   *)
(* the debugger, two.  The report of a command's result changes nothing    *)
(* here, whether it arrives or not.                                        *)
(***************************************************************************)
EXTENDS VmRunner

VARIABLES cp,         \* the control plane's client: pc, the session it commands,
                      \* and the recordings it has taken and not sent
          delivered   \* the recordings the control plane has got, in order

vars == <<slot, sess, program, pool, req, cp, delivered>>

Init ==
    /\ slot = None
    /\ sess = <<>>
    /\ program = 0
    /\ pool = [p \in Programs |-> <<>>]
    /\ req = [r \in Requests |-> NewRequest]
    /\ cp = [pc |-> "poll", target |-> None, queue |-> <<>>]
    /\ delivered = <<>>

\* The admin API's handlers.
AdminApply == ApplyProgram /\ UNCHANGED <<cp, delivered>>
AdminStart == StartSession /\ UNCHANGED <<program, pool, req, cp, delivered>>
AdminStop == StopSession /\ UNCHANGED <<program, pool, req, cp, delivered>>

-----------------------------------------------------------------------------
\* execute_command; a poll without a command, or with one that reads or is
\* refused, goes on as well.  A poll that fails is repeated.
Command ==
    /\ cp.pc = "poll"
    /\ cp' = [cp EXCEPT !.pc = "drain"]
    /\ \/ ApplyProgram
       \/ StartSession /\ UNCHANGED <<program, pool, req>>
       \/ StopSession /\ UNCHANGED <<program, pool, req>>
       \/ UNCHANGED <<slot, sess, program, pool, req>>
    /\ UNCHANGED delivered

\* run_debug_command holds on to the session it found while it waits.
DebugCommand ==
    /\ cp.pc = "poll"
    /\ slot # None
    /\ sess[slot].mode = "remote"
    /\ cp' = [cp EXCEPT !.pc = "command", !.target = slot]
    /\ UNCHANGED <<slot, sess, program, pool, req, delivered>>

\* The request paused there goes on; or it only answered, or nobody did.
DebugAnswer ==
    /\ cp.pc = "command"
    /\ cp' = [cp EXCEPT !.pc = "drain", !.target = None]
    /\ \/ \E r \in Requests :
              /\ At(r, "paused")
              /\ req[r].dbg = cp.target
              /\ Goto(r, "debug")
       \/ UNCHANGED req
    /\ UNCHANGED <<slot, sess, program, pool, delivered>>

\* The loop over what was drained; after it the client sleeps and polls again.
Sending(queue) ==
    [pc |-> IF queue = <<>> THEN "poll" ELSE "send", target |-> None, queue |-> queue]

\* Mutant: the recordings stay in the outbox.
CopyRecordings ==
    /\ cp.pc = "drain"
    /\ cp' = Sending(Drained)
    /\ UNCHANGED <<slot, sess, program, pool, req, delivered>>

DrainRecordings ==
    /\ cp.pc = "drain"
    /\ cp' = Sending(Drained)
    /\ Drain
    /\ UNCHANGED <<slot, program, pool, req, delivered>>

\* One report for each; it arrives, or it is lost for good.
SendRecording ==
    /\ cp.pc = "send"
    /\ cp' = Sending(Tail(cp.queue))
    /\ \/ delivered' = Append(delivered, Head(cp.queue))
       \/ UNCHANGED delivered
    /\ UNCHANGED <<slot, sess, program, pool, req>>

Request(r) == RequestStep(r) /\ UNCHANGED <<cp, delivered>>

ControlPlane ==
    Command \/ DebugCommand \/ DebugAnswer \/ DrainRecordings \/ SendRecording

Next ==
    \/ \E r \in Requests : Request(r)
    \/ AdminApply \/ AdminStart \/ AdminStop
    \/ ControlPlane

Spec == Init /\ [][Next]_vars

-----------------------------------------------------------------------------
Sessions == 1 .. MaxSessions
Artifacts == [session : Sessions, seq : Nat, completed : BOOLEAN]
Vms == [prog : 0 .. MaxPrograms, bridge : Requests \cup {None}, clean : BOOLEAN]

\* The types of the state; a bucket holds no more than VM_POOL_MAX_PER_BUCKET VMs.
TypeOK ==
    /\ slot \in Sessions \cup {None}
    /\ slot # None => slot \in DOMAIN sess
    /\ \A s \in DOMAIN sess :
           sess[s] \in [mode : Modes, match : MatchSets, open : BOOLEAN,
                        holder : Requests \cup {None},
                        captured : Nat, next : Nat, completed : BOOLEAN,
                        outbox : Seq(Artifacts)]
    /\ program \in 0 .. MaxPrograms
    /\ pool \in [Programs -> Seq(Vms)]
    /\ \A p \in Programs : Len(pool[p]) <= PoolMax
    /\ req \in [Requests ->
           [pc : {"new", "ask", "askBlocking", "acquire", "slice", "run", "lock", "debug",
                  "paused", "detach", "record", "await", "recycle", "done"},
            prog : 0 .. MaxPrograms, attach : BOOLEAN, blocking : BOOLEAN,
            asked : Sessions \cup {None}, vm : Vms, dbg : Sessions \cup {None},
            slices : 0 .. MaxSlices, status : Statuses \cup {"none"}]]
    /\ cp \in [pc : {"poll", "command", "drain", "send"},
               target : Sessions \cup {None}, queue : Seq(Artifacts)]
    /\ delivered \in Seq(Artifacts)

Owning == {"slice", "run", "detach", "record", "await", "recycle"} \cup InDebugger

\* A request runs the program it took its snapshot of, to its end, and the
\* operations its VM starts are its own, whatever is applied or recycled meanwhile.
\* A VM in a program's pool was made for that program, holds no request's bridge
\* and has its scope closed: acquire_vm_runner_store uses it as it is.  Requests
\* of an older program give their VMs back after a new one was applied.
OwnVm ==
    /\ \A r \in Requests :
          req[r].pc \in Owning => req[r].vm.prog = req[r].prog /\ req[r].vm.bridge = r
    /\ \A p \in Programs : \A i \in DOMAIN pool[p] : pool[p][i] = NewVm(p)

\* Only the operator's stop, or a detach from the session itself, ends a session:
\* a debugger that detaches late does not end the session started after its own
\* (stop_debug_session_if_match), and no request ends a recording, or a session
\* that does not match it.
DetachKeepsNewer ==
    [][\A r \in Requests : Detach(r) /\ slot' # slot =>
           slot = req[r].dbg /\ Interactive(slot) /\ r \in sess[slot].match]_vars

\* A remote session that has left the store has its bridge closed, so that the
\* requests still paused in its debugger go on: no command can reach them any more.
RemovedIsClosed ==
    \A s \in DOMAIN sess : sess[s].mode = "remote" /\ slot # s => ~sess[s].open

\* What the control plane gets of a session, followed by what is on its way, is
\* in the order recorded, without repetition, and says that the recording is
\* complete from the target's recording on.  Requests that saw the recording
\* unfinished record past its target, each at most once: the check and the push
\* are two sections of the runtime's lock.
RecordingsInOrder ==
    \A s \in DOMAIN sess :
        LET all == delivered \o cp.queue \o sess[s].outbox
            mine == {i \in DOMAIN all : all[i].session = s}
        IN  /\ \A i, j \in mine : i < j => all[i].seq < all[j].seq
            /\ \A i \in mine : all[i].completed <=> all[i].seq >= Target
            /\ sess[s].captured <= Target + Cardinality(Requests) - 1

\* A request that meets, in the debugger, the session that was in the store when
\* request_uses_blocking_debugger looked, runs on a blocking thread: a debugger
\* that pauses there does not stop a worker of the runtime.
PausedOnThread ==
    \A r \in Requests :
        req[r].pc \in InDebugger /\ req[r].dbg = req[r].asked => req[r].blocking
=============================================================================
