------------------------------ MODULE Kernels ------------------------------
(***************************************************************************)
(* pkg/jupyter/manager.go, the lifecycle half of kernel.go and the context *)
(* handlers of pkg/handlers/code.go.  Spawn reserves a slot of m.sem,      *)
(* boots a kernel and registers it under an id; a releaser goroutine gives *)
(* the slot back when the kernel's done channel closes.  Shutdown is       *)
(* called by the delete handler, the idle sweep, Close, and by Spawn       *)
(* itself for a kernel that did not come up or lost the race for its id.   *)
(***************************************************************************)
EXTENDS Naturals, FiniteSets

CONSTANTS
    Kern,           \* bound: Spawn calls, one kernel each, all for one id
    MaxKernels,     \* capacity of m.sem (10 in the code): may be any smaller one
    NoKern

ASSUME KernConstants == MaxKernels \in Nat \ {0} /\ Kern \cap {NoKern, "stop", "close"} = {}

VARIABLES
    context,    \* m.kernels[id], or NoKern
    kcap, kslots,       \* m.sem: capacity and tokens
    closing,    \* m.cancel has run: the context of every process is gone
    kpc,        \* of a Spawn: see KernTypeOK
    kproc,      \* the kernel's process: "none", "runs", "dead"
    kclosed, kdone,     \* k.closed and k.done
    konce,      \* killNow's once: "new", "runs", "done"
    kwaiter,    \* who got the end of cmd.Wait: "nobody", "loop", "kill"
    kfile, ksock,       \* its connection file and its sockets exist
    call,       \* where a Shutdown call is: "out", "enter", "grace", "once", "kill"
    on,         \* the kernel it is about
    todo        \* kernels a caller still has to shut down

\* Who calls Kernel.Shutdown: a Spawn for its own kernel, the delete handler and
\* the idle sweep (one call of either), and Manager.Close.
Caller == Kern \cup {"stop", "close"}

kmgrVars == <<context, kcap, kslots, closing>>
kernVars == <<kproc, kclosed, kdone, konce, kwaiter, kfile, ksock>>
callVarsK == <<call, on, todo>>
kernelsVars == <<kmgrVars, kpc, kernVars, callVarsK>>

KernTypeOK ==
    /\ context \in Kern \cup {NoKern} /\ kcap \in 1..MaxKernels /\ kslots \in 0..kcap
    /\ closing \in BOOLEAN
    /\ kpc \in [Kern -> {"idle", "reserve", "start", "boot", "insert", "undo", "live", "freed", "refused"}]
    /\ kproc \in [Kern -> {"none", "runs", "dead"}]
    /\ {kclosed, kdone, kfile, ksock} \subseteq [Kern -> BOOLEAN]
    /\ konce \in [Kern -> {"new", "runs", "done"}] /\ kwaiter \in [Kern -> {"nobody", "loop", "kill"}]
    /\ call \in [Caller -> {"out", "enter", "grace", "once", "kill"}]
    /\ on \in [Caller -> Kern \cup {NoKern}] /\ todo \in [Caller -> SUBSET Kern]

KernInit ==
    /\ context = NoKern /\ kcap \in 1..MaxKernels /\ kslots = 0 /\ closing = FALSE
    /\ kpc = [k \in Kern |-> "idle"] /\ kproc = [k \in Kern |-> "none"]
    /\ kclosed = [k \in Kern |-> FALSE] /\ kdone = [k \in Kern |-> FALSE]
    /\ konce = [k \in Kern |-> "new"] /\ kwaiter = [k \in Kern |-> "nobody"]
    /\ kfile = [k \in Kern |-> FALSE] /\ ksock = [k \in Kern |-> FALSE]
    /\ call = [c \in Caller |-> "out"] /\ on = [c \in Caller |-> NoKern]
    /\ todo = [c \in Caller |-> {}]

GoTo(k, l) == kpc' = [kpc EXCEPT ![k] = l]

-----------------------------------------------------------------------------
(* Manager.Spawn and StartKernel.                                          *)

\* CodeCreateContextHandler: the quick check of the id (409), before any slot.
SpawnCheck(k) ==
    /\ kpc[k] = "idle" /\ GoTo(k, IF context = NoKern THEN "reserve" ELSE "refused")
    /\ UNCHANGED <<kmgrVars, kernVars, callVarsK>>

\* A slot, or ErrKernelCapacity (503).
Reserve(k) ==
    /\ kpc[k] = "reserve"
    /\ IF kslots < kcap THEN kslots' = kslots + 1 /\ GoTo(k, "start")
       ELSE GoTo(k, "refused") /\ UNCHANGED kslots
    /\ UNCHANGED <<context, kcap, closing, kernVars, callVarsK>>

\* No such language, no process, or sockets that cannot be dialled: the process,
\* if any, is killed, its connection file removed, and Spawn returns the slot.
KernelFails(k) ==
    /\ kpc[k] = "start" /\ GoTo(k, "refused") /\ kslots' = kslots - 1
    /\ UNCHANGED <<context, kcap, closing, kernVars, callVarsK>>

\* The process, its five sockets, iopubLoop and processWaitLoop.
StartKernel(k) ==
    /\ kpc[k] = "start" /\ ~closing /\ GoTo(k, "boot")
    /\ kproc' = [kproc EXCEPT ![k] = "runs"]
    /\ kfile' = [kfile EXCEPT ![k] = TRUE] /\ ksock' = [ksock EXCEPT ![k] = TRUE]
    /\ UNCHANGED <<kmgrVars, kclosed, kdone, konce, kwaiter, callVarsK>>

\* waitReady: kernel_info is answered within ten seconds and while the request
\* lives, and the warm-up's failure is tolerated; or the kernel is shut down.
Ready(k) ==
    /\ kpc[k] = "boot" /\ kproc[k] = "runs" /\ GoTo(k, "insert")
    /\ UNCHANGED <<kmgrVars, kernVars, callVarsK>>
ShutOwn(k) ==
    /\ GoTo(k, "undo") /\ call' = [call EXCEPT ![k] = "enter"] /\ on' = [on EXCEPT ![k] = k]
NotReady(k) ==
    /\ kpc[k] = "boot" /\ ShutOwn(k)
    /\ UNCHANGED <<kmgrVars, kernVars, todo>>

\* The second check, under the lock: the kernel is registered and a releaser waits
\* for its end; or another Spawn was faster and ours is torn down.
InsertKernel(k) ==
    /\ kpc[k] = "insert"
    /\ IF context = NoKern
       THEN context' = k /\ GoTo(k, "live") /\ UNCHANGED <<call, on>>
       ELSE ShutOwn(k) /\ UNCHANGED context
    /\ UNCHANGED <<kcap, kslots, closing, kernVars, todo>>

\* The torn-down kernel's slot goes back once Shutdown has returned.
Undone(k) ==
    /\ kpc[k] = "undo" /\ call[k] = "out" /\ GoTo(k, "refused") /\ kslots' = kslots - 1
    /\ UNCHANGED <<context, kcap, closing, kernVars, callVarsK>>

\* The releaser: the entry goes if it is still this kernel's, then the slot.
ReleaseKernel(k) ==
    /\ kpc[k] = "live" /\ kdone[k] /\ GoTo(k, "freed")
    /\ context' = (IF context = k THEN NoKern ELSE context)
    /\ kslots' = kslots - 1
    /\ UNCHANGED <<kcap, closing, kernVars, callVarsK>>

-----------------------------------------------------------------------------
(* The process and processWaitLoop.                                        *)

\* It honours a shutdown_request, crashes, or runs exit().
KernelExits(k) ==
    /\ kproc[k] = "runs" /\ kproc' = [kproc EXCEPT ![k] = "dead"]
    /\ UNCHANGED <<kmgrVars, kpc, kclosed, kdone, konce, kwaiter, kfile, ksock, callVarsK>>

\* cmd.Wait of a command with a context: the goroutine that watches the context
\* hands its result to one receiver, and a second Wait under way waits for ever.
WaitLoopEnds(k) ==
    /\ kproc[k] = "dead" /\ kwaiter[k] = "nobody"
    /\ kwaiter' = [kwaiter EXCEPT ![k] = "loop"]
    /\ kclosed' = [kclosed EXCEPT ![k] = TRUE] /\ kdone' = [kdone EXCEPT ![k] = TRUE]
    /\ kfile' = [kfile EXCEPT ![k] = FALSE]
    /\ UNCHANGED <<kmgrVars, kpc, kproc, konce, ksock, callVarsK>>

\* killNow's own cmd.Wait is the one that returns: processWaitLoop never does.
KillWaits(k) ==
    /\ konce[k] = "runs" /\ kproc[k] = "dead" /\ kwaiter[k] = "nobody"
    /\ kwaiter' = [kwaiter EXCEPT ![k] = "kill"]
    /\ UNCHANGED <<kmgrVars, kpc, kproc, kclosed, kdone, konce, kfile, ksock, callVarsK>>

-----------------------------------------------------------------------------
(* Kernel.Shutdown, as a subroutine of a caller.                           *)

At(c, l) ==
    /\ call' = [call EXCEPT ![c] = l]
    /\ on' = IF l = "out" THEN [on EXCEPT ![c] = NoKern] ELSE on

\* A closed kernel needs nothing (its sockets stay open if it ended by itself);
\* otherwise the kernel is asked to stop over the control socket.
Shutdown(c) ==
    /\ call[c] = "enter" /\ At(c, IF kclosed[on[c]] THEN "out" ELSE "grace")
    /\ UNCHANGED <<kmgrVars, kpc, kernVars, todo>>

\* It ends, or the grace period does.
GraceEnds(c) ==
    /\ call[c] = "grace" /\ At(c, "once")
    /\ UNCHANGED <<kmgrVars, kpc, kernVars, todo>>

\* killNow, once per kernel: later callers wait for the first.
KillStarts(c) ==
    LET k == on[c] IN
    /\ call[c] = "once" /\ konce[k] # "runs"
    /\ IF konce[k] = "new"
       THEN /\ konce' = [konce EXCEPT ![k] = "runs"] /\ kclosed' = [kclosed EXCEPT ![k] = TRUE]
            /\ At(c, "kill")
       ELSE At(c, "out") /\ UNCHANGED <<konce, kclosed>>
    /\ UNCHANGED <<kmgrVars, kpc, kproc, kdone, kwaiter, kfile, ksock, todo>>

\* MUTANT: no SIGKILL after the two seconds.
KillEnds_TermOnly(c) ==
    LET k == on[c] IN
    /\ call[c] = "kill" /\ At(c, "out")
    /\ UNCHANGED kproc
    /\ konce' = [konce EXCEPT ![k] = "done"]
    /\ ksock' = [ksock EXCEPT ![k] = FALSE] /\ kfile' = [kfile EXCEPT ![k] = FALSE]
    /\ UNCHANGED <<kmgrVars, kpc, kclosed, kdone, kwaiter, todo>>

\* The group is gone after its SIGTERM, or after the SIGKILL two seconds later.
KillEnds(c) ==
    LET k == on[c] IN
    /\ call[c] = "kill" /\ At(c, "out")
    /\ kproc' = [kproc EXCEPT ![k] = "dead"] /\ konce' = [konce EXCEPT ![k] = "done"]
    /\ ksock' = [ksock EXCEPT ![k] = FALSE] /\ kfile' = [kfile EXCEPT ![k] = FALSE]
    /\ UNCHANGED <<kmgrVars, kpc, kclosed, kdone, kwaiter, todo>>

\* A caller with several kernels takes them one after the other.
NextKernel(c) ==
    /\ call[c] = "out" /\ todo[c] # {}
    /\ \E k \in todo[c] :
        /\ todo' = [todo EXCEPT ![c] = @ \ {k}]
        /\ on' = [on EXCEPT ![c] = k] /\ call' = [call EXCEPT ![c] = "enter"]
    /\ UNCHANGED <<kmgrVars, kpc, kernVars>>

-----------------------------------------------------------------------------
(* Who shuts kernels down.                                                 *)

Idling(c) == call[c] = "out" /\ todo[c] = {}

\* DELETE /v1/code/contexts/{id} (a miss is a 404), and the sweep, which lists the
\* kernels without an Execute for half an hour: both act after the lock is released.
StopContext ==
    /\ Idling("stop") /\ context # NoKern
    /\ todo' = [todo EXCEPT !["stop"] = {context}]
    /\ UNCHANGED <<kmgrVars, kpc, kernVars, call, on>>

\* Manager.Close: the context every process was started with is cancelled, which
\* kills them; then the map is emptied and what it held is shut down.
CloseCancel ==
    /\ ~closing /\ closing' = TRUE
    /\ kproc' = [k \in Kern |-> IF kproc[k] = "runs" THEN "dead" ELSE kproc[k]]
    /\ UNCHANGED <<context, kcap, kslots, kpc, kclosed, kdone, konce, kwaiter, kfile, ksock, callVarsK>>
CloseTake ==
    /\ closing /\ Idling("close") /\ context # NoKern
    /\ todo' = [todo EXCEPT !["close"] = {context}] /\ context' = NoKern
    /\ UNCHANGED <<kcap, kslots, closing, kpc, kernVars, call, on>>

SpawnStep(k) ==
    \/ Reserve(k) \/ KernelFails(k) \/ StartKernel(k) \/ Ready(k) \/ NotReady(k)
    \/ InsertKernel(k) \/ Undone(k) \/ ReleaseKernel(k)
ShutdownStep(c) == Shutdown(c) \/ GraceEnds(c) \/ KillStarts(c) \/ KillEnds(c) \/ NextKernel(c)

Waited(k) == WaitLoopEnds(k) \/ KillWaits(k)

KernNext ==
    \/ \E k \in Kern : SpawnCheck(k) \/ SpawnStep(k) \/ KernelExits(k) \/ Waited(k)
    \/ \E c \in Caller : ShutdownStep(c)
    \/ StopContext \/ CloseCancel \/ CloseTake

KernSpec == KernInit /\ [][KernNext]_kernelsVars

\* Goroutines run on, timers fire, and an exited process is waited for; a kernel
\* may run for ever.
KernFair ==
    /\ \A k \in Kern : WF_kernelsVars(SpawnStep(k))
    /\ \A k \in Kern : WF_kernelsVars(Waited(k))
    /\ \A c \in Caller : WF_kernelsVars(ShutdownStep(c))

-----------------------------------------------------------------------------
(* Properties.                                                             *)

HoldsSlot(k) == kpc[k] \in {"start", "boot", "insert", "undo", "live"}

\* The cap on kernels is a cap on processes: m.sem holds one token per kernel in
\* the making, registered or being torn down, no process runs without one, what the
\* map holds is a kernel whose releaser is still due, and one that runs is in it.
KernelsAccounted ==
    /\ kslots = Cardinality({k \in Kern : HoldsSlot(k)})
    /\ \A k \in Kern : kproc[k] = "runs" => HoldsSlot(k)
    /\ context # NoKern => kpc[context] = "live"
    /\ \A k \in Kern : kpc[k] = "live" /\ kproc[k] = "runs" => context = k

\* Every Spawn answers and every Shutdown returns, whatever the kernels do; a
\* kernel nobody has begun to kill gives its slot and its id back when it ends.
KernelsSettled ==
    /\ \A k \in Kern : kpc[k] \in {"idle", "live", "freed", "refused"}
    /\ \A c \in Caller : call[c] = "out"
    /\ \A k \in Kern : kpc[k] = "live" /\ kproc[k] = "dead" => konce[k] # "new"
KernelCallsReturn == []<>KernelsSettled

\* manager.go:122, "Release the semaphore when the kernel finishes (and delete the
\* map entry so a re-Spawn with the same id can succeed)".
FinishedIsReleased == \A k \in Kern : (kpc[k] = "live" /\ kproc[k] = "dead") ~> (kpc[k] = "freed")

\* kernel.go:541, "the irrecoverable teardown": a kernel that is over keeps no socket.
NoSocketLeft == \A k \in Kern : (kpc[k] = "freed") ~> ~ksock[k]
==============================================================================
