------------------------------ MODULE VmRunner ------------------------------
(***************************************************************************)
(* How a request runs the loaded program (src/runtime.rs,                  *)
(* src/runtime/http_plane/proxy_path.rs, src/runtime/vm_runner.rs): the    *)
(* snapshot of the program, the two questions to the debug store, the VM   *)
(* taken from the program's pool or made new, its slices with or without a *)
(* debugger, and the return of the VM to the pool.                         *)
(*                                                                         *)
(* A VM is the program it was made for, the request whose asynchronous     *)
(* bridge it holds, and whether its execution scope is closed.  Fuel and   *)
(* epochs only decide where a slice ends, and it may end anywhere here.    *)
(***************************************************************************)
EXTENDS DebugSession

CONSTANTS MaxPrograms,  \* bound: programs applied
          MaxSlices,    \* bound: slices of one request
          PoolMax,      \* VM_POOL_MAX_PER_BUCKET
          Threading     \* whether vm_execution.execution_mode is Threading

ASSUME RunnerAssumption ==
    /\ MaxPrograms \in Nat
    /\ MaxSlices \in Nat
    /\ PoolMax \in Nat
    /\ Threading \in BOOLEAN

VARIABLES program,   \* active_program: 0 while none is loaded
          pool,      \* LoadedProgram::vm_pool, one bucket per program
          req        \* the requests

Programs == 1 .. MaxPrograms

NoVm == [prog |-> 0, bridge |-> None, clean |-> TRUE]
NewVm(p) == [prog |-> p, bridge |-> None, clean |-> TRUE]

NewRequest ==
    [pc |-> "new", prog |-> 0, attach |-> FALSE, blocking |-> FALSE, asked |-> None,
     vm |-> NoVm, dbg |-> None, slices |-> 0, status |-> "none"]

\* An answered request has dropped what it held.
Done == [NewRequest EXCEPT !.pc = "done"]

\* The places where a request runs inside a debugger or waits for one.
InDebugger == {"lock", "debug", "paused"}

Set(r, new) == req' = [req EXCEPT ![r] = new]
Goto(r, pc) == Set(r, [req[r] EXCEPT !.pc = pc])
At(r, pc) == req[r].pc = pc

-----------------------------------------------------------------------------
\* apply_program_from_bytes with a payload that decodes and validates: a new
\* program with an empty pool takes the place of the old one.  Any other payload
\* changes nothing.
ApplyProgram ==
    /\ program < MaxPrograms
    /\ program' = program + 1
    /\ UNCHANGED <<pool, req, slot, sess>>

\* prepare_data_plane_http_request_context: the snapshot of the program, or 404.
Prepare(r) ==
    /\ At(r, "new")
    /\ Set(r, IF program = 0 THEN Done
              ELSE [req[r] EXCEPT !.pc = "ask", !.prog = program])
    /\ UNCHANGED <<program, pool, slot, sess>>

\* VmDebugInvocation is filled by two reads of the store, one after the other.
AskAttach(r) ==
    /\ At(r, "ask")
    /\ Set(r, [req[r] EXCEPT !.pc = "askBlocking", !.attach = Attaches(r)])
    /\ UNCHANGED <<program, pool, slot, sess>>

\* Mutant: the mode of execution does not depend on the debugger.
AskNothing(r) ==
    /\ At(r, "askBlocking")
    /\ Set(r, [req[r] EXCEPT !.pc = "acquire", !.blocking = Threading, !.asked = slot])
    /\ UNCHANGED <<program, pool, slot, sess>>

AskBlocking(r) ==
    /\ At(r, "askBlocking")
    /\ Set(r, [req[r] EXCEPT !.pc = "acquire", !.blocking = Threading \/ Blocks(r),
                             !.asked = slot])
    /\ UNCHANGED <<program, pool, slot, sess>>

-----------------------------------------------------------------------------
\* Mutant: a pooled VM keeps the bridge it has.
AcquirePooledAsIs(r) ==
    LET p == req[r].prog
    IN  /\ At(r, "acquire")
        /\ ~req[r].attach
        /\ pool[p] # <<>>
        /\ Set(r, [req[r] EXCEPT !.pc = "slice", !.vm = pool[p][Len(pool[p])]])
        /\ pool' = [pool EXCEPT ![p] = SubSeq(@, 1, Len(@) - 1)]
        /\ UNCHANGED <<program, slot, sess>>

\* acquire_vm_runner_store: the most recent VM of the program's pool, with the
\* request's bridge; never for a request that may meet a debugger.
AcquirePooled(r) ==
    LET p == req[r].prog
    IN  /\ At(r, "acquire")
        /\ ~req[r].attach
        /\ pool[p] # <<>>
        /\ Set(r, [req[r] EXCEPT !.pc = "slice",
                                 !.vm = [pool[p][Len(pool[p])] EXCEPT !.bridge = r]])
        /\ pool' = [pool EXCEPT ![p] = SubSeq(@, 1, Len(@) - 1)]
        /\ UNCHANGED <<program, slot, sess>>

\* A pooled VM that does not take the bridge is lost, and the request fails.
AcquireFails(r) ==
    LET p == req[r].prog
    IN  /\ At(r, "acquire")
        /\ ~req[r].attach
        /\ pool[p] # <<>>
        /\ Set(r, Done)
        /\ pool' = [pool EXCEPT ![p] = SubSeq(@, 1, Len(@) - 1)]
        /\ UNCHANGED <<program, slot, sess>>

\* Otherwise a new VM, whose host modules may fail to register.
AcquireNew(r) ==
    LET p == req[r].prog
    IN  /\ At(r, "acquire")
        /\ req[r].attach \/ pool[p] = <<>>
        /\ \/ Set(r, [req[r] EXCEPT !.pc = "slice", !.vm = [NewVm(p) EXCEPT !.bridge = r]])
           \/ Set(r, Done)
        /\ UNCHANGED <<program, pool, slot, sess>>

-----------------------------------------------------------------------------
(* The slices of the run.                                                  *)

\* run_vm_with_optional_debugger looks at the store again at every slice.
BeginSlice(r) ==
    LET begun == [req[r] EXCEPT !.slices = @ + 1, !.vm.clean = FALSE]
    IN  /\ At(r, "slice")
        /\ req[r].slices < MaxSlices
        /\ Set(r, IF ~req[r].attach \/ ~Attaches(r) THEN [begun EXCEPT !.pc = "run"]
                  ELSE IF Interactive(slot) THEN [begun EXCEPT !.pc = "lock", !.dbg = slot]
                  ELSE IF RecordingDone(slot) THEN [begun EXCEPT !.pc = "run"]
                  ELSE [begun EXCEPT !.pc = "record", !.dbg = slot])
        /\ UNCHANGED <<program, pool, slot, sess>>

TakeDebugger(r) ==
    /\ At(r, "lock")
    /\ LockDebugger(req[r].dbg, r)
    /\ Goto(r, "debug")
    /\ UNCHANGED <<program, pool, slot>>

\* The debugger stops the program and waits for a command, as long as there is
\* someone to give it one.
Pause(r) ==
    /\ At(r, "debug")
    /\ sess[req[r].dbg].open
    /\ Goto(r, "paused")
    /\ UNCHANGED <<program, pool, slot, sess>>

\* The user of a TCP debugger goes on, or the bridge of a remote one is closed.
\* A command over the bridge is the control plane's, in EdgeRuntime.
Resume(r) ==
    /\ At(r, "paused")
    /\ sess[req[r].dbg].mode = "tcp" \/ ~sess[req[r].dbg].open
    /\ Goto(r, "debug")
    /\ UNCHANGED <<program, pool, slot, sess>>

Statuses == {"halted", "yielded", "waiting", "error"}

\* Where the loop of run_vm_async and run_vm_threading goes after a slice.
AfterSlice(x, status) ==
    CASE status = "halted" -> [x EXCEPT !.pc = "recycle", !.dbg = None, !.status = "none"]
      [] status = "yielded" -> [x EXCEPT !.pc = "slice", !.dbg = None, !.status = "none"]
      [] status = "waiting" -> [x EXCEPT !.pc = "await", !.dbg = None, !.status = "none"]
      [] status = "error" -> Done

EndSlice(r) ==
    /\ At(r, "run")
    /\ \E status \in Statuses : Set(r, AfterSlice(req[r], status))
    /\ UNCHANGED <<program, pool, slot, sess>>

\* The debugger's mutex is released before a detach is acted on.
EndDebugSlice(r) ==
    /\ At(r, "debug")
    /\ UnlockDebugger(req[r].dbg)
    /\ \E status \in Statuses, detached \in BOOLEAN :
           Set(r, IF detached
                  THEN [req[r] EXCEPT !.pc = "detach", !.status = status]
                  ELSE AfterSlice(req[r], status))
    /\ UNCHANGED <<program, pool, slot>>

Detach(r) ==
    /\ At(r, "detach")
    /\ StopIfMatch(req[r].dbg)
    /\ Set(r, AfterSlice(req[r], req[r].status))
    /\ UNCHANGED <<program, pool>>

EndRecordedSlice(r) ==
    /\ At(r, "record")
    /\ \E encoded \in BOOLEAN : Push(req[r].dbg, encoded)
    /\ \E status \in Statuses : Set(r, AfterSlice(req[r], status))
    /\ UNCHANGED <<program, pool, slot>>

\* await_waiting_host_op: the operation's result is there, or it failed.
EndAwait(r) ==
    /\ At(r, "await")
    /\ Goto(r, "slice") \/ Set(r, Done)
    /\ UNCHANGED <<program, pool, slot, sess>>

-----------------------------------------------------------------------------
\* recycle_vm_runner_store, for a VM taken with a pool key: it is reset, its
\* scope must be closed after one poll, and its bridge is taken away; a VM that
\* fails any of these, or finds the pool full, is dropped.
Recycle(r) ==
    LET p == req[r].prog
    IN  /\ At(r, "recycle")
        /\ Set(r, Done)
        /\ \/ /\ ~req[r].attach
              /\ pool' = IF Len(pool[p]) < PoolMax
                         THEN [pool EXCEPT ![p] =
                                   Append(@, [req[r].vm EXCEPT !.bridge = None, !.clean = TRUE])]
                         ELSE pool
           \/ UNCHANGED pool
        /\ UNCHANGED <<program, slot, sess>>

RequestStep(r) ==
    \/ Prepare(r) \/ AskAttach(r) \/ AskBlocking(r)
    \/ AcquirePooled(r) \/ AcquireFails(r) \/ AcquireNew(r)
    \/ BeginSlice(r) \/ TakeDebugger(r) \/ Pause(r) \/ Resume(r)
    \/ EndSlice(r) \/ EndDebugSlice(r) \/ Detach(r) \/ EndRecordedSlice(r)
    \/ EndAwait(r) \/ Recycle(r)
=============================================================================
