----------------------------- MODULE KernelExec -----------------------------
(***************************************************************************)
(* pkg/jupyter/iopub.go, Execute and its reply goroutine in kernel.go, and *)
(* the execute handler of pkg/handlers/code.go, on one kernel.  The kernel *)
(* publishes what its cells print on one socket, which iopubLoop routes to *)
(* the execution that subscribed under the cell's message id, and answers  *)
(* on another, where every waiting goroutine may receive any answer.       *)
(***************************************************************************)
EXTENDS Naturals, Sequences

CONSTANTS
    Execs,          \* bound: executions, numbered as they arrive; a number is a message id
    BufCap,         \* capacity of a subscription's channel (256)
    MaxOut,         \* bound: what a cell prints
    WireCap,        \* bound: published messages under way (the kernel waits for more room)
    NoMsg

Exec == 1..Execs

ASSUME ExecConstants ==
    /\ {Execs, BufCap, WireCap} \subseteq Nat \ {0} /\ MaxOut \in Nat
    /\ NoMsg \notin [of : Exec, kind : {"out", "idle"}, sub : BOOLEAN]

VARIABLES
    epc,        \* of an execution: see ExecTypeOK
    idle, answered,     \* streamSSE's idle and gotReply
    owed,       \* outputs of its cell it has not passed on yet
    reader,     \* its reply goroutine: "none", "recv", "left" (only a Recv remains),
                \* "has" (the reply is in replyCh), "over"
    subs,       \* executions in r.subs
    ch, shut,   \* a subscription's channel: content, closed
    lost,       \* its dropped counter is not zero
    hand,       \* what iopubLoop holds: [of, kind, sub]
    up, socks,  \* the kernel's process runs; its sockets are open
    sweep,      \* CloseAll: "no", "run", "over"
    toClose,    \* the subscriptions it has taken out of the map
    work,       \* the kernel's queue of cells
    prints, replied,    \* outputs of the first one so far; has it been answered?
    iopub, shellq,      \* messages on their way from the kernel
    panic       \* "none", or "runtime": a panic outside a handler ends the process

cellVars == <<work, prints, replied, iopub, shellq, up>>
endVars == <<socks, sweep, toClose>>
chanVars == <<subs, ch, shut, lost>>
streamVars == <<idle, answered, owed>>
execVars == <<epc, streamVars, reader, chanVars, hand, endVars, cellVars, panic>>

Kind == {"out", "idle"}

ExecTypeOK ==
    /\ epc \in [Exec -> {"new", "subscribe", "send", "stream", "unsub", "close", "over", "aborted"}]
    /\ {idle, answered, shut, lost} \subseteq [Exec -> BOOLEAN]
    /\ owed \in [Exec -> 0..MaxOut] /\ prints \in 0..MaxOut
    /\ reader \in [Exec -> {"none", "recv", "left", "has", "over"}]
    /\ subs \subseteq Exec /\ toClose \subseteq Exec
    /\ \A e \in Exec : ch[e] \in Seq(Kind) /\ Len(ch[e]) <= BufCap
    /\ hand \in [of : Exec, kind : Kind, sub : BOOLEAN] \cup {NoMsg}
    /\ {up, socks, replied} \subseteq BOOLEAN
    /\ sweep \in {"no", "run", "over"} /\ panic \in {"none", "runtime"}
    /\ {work, shellq} \subseteq Seq(Exec) /\ iopub \in Seq([of : Exec, kind : Kind])

ExecInit ==
    /\ epc = [e \in Exec |-> "new"]
    /\ idle = [e \in Exec |-> FALSE] /\ answered = [e \in Exec |-> FALSE] /\ owed = [e \in Exec |-> 0]
    /\ reader = [e \in Exec |-> "none"] 
    /\ subs = {} /\ ch = [e \in Exec |-> <<>>] /\ shut = [e \in Exec |-> FALSE]
    /\ lost = [e \in Exec |-> FALSE] /\ hand = NoMsg
    /\ up = TRUE /\ socks = TRUE /\ sweep = "no" /\ toClose = {}
    /\ work = <<>> /\ replied = FALSE /\ prints = 0
    /\ iopub = <<>> /\ shellq = <<>> /\ panic = "none"

\* k.closed: killNow has begun or processWaitLoop has seen the end.
Closed == ~socks \/ sweep # "no"

\* Nobody looks at the stream any more.
Forgets(e) ==
    /\ idle' = [idle EXCEPT ![e] = FALSE] /\ answered' = [answered EXCEPT ![e] = FALSE]
    /\ owed' = [owed EXCEPT ![e] = 0]

Goes(e, l) == epc' = [epc EXCEPT ![e] = l]

-----------------------------------------------------------------------------
(* Kernel.Execute.                                                         *)

\* A closed kernel is refused with an error event.
Execute(e) ==
    /\ epc[e] = "new" /\ (\A f \in 1..(e - 1) : epc[f] # "new")
    /\ Goes(e, IF Closed THEN "over" ELSE "subscribe")
    /\ UNCHANGED <<streamVars, reader, chanVars, hand, endVars, cellVars, panic>>

\* The subscription comes before the request, and may come after CloseAll.
Subscribe(e) ==
    /\ epc[e] = "subscribe" /\ Goes(e, "send") /\ subs' = subs \cup {e}
    /\ UNCHANGED <<streamVars, reader, ch, shut, lost, hand, endVars, cellVars, panic>>

\* The request goes out under shellMu and a goroutine starts to read replies; a
\* socket that is closed fails, and the subscription is undone.
Send(e) ==
    /\ epc[e] = "send"
    /\ IF socks
       THEN /\ Goes(e, "stream") /\ reader' = [reader EXCEPT ![e] = "recv"]
            /\ work' = IF up THEN Append(work, e) ELSE work
       ELSE Goes(e, "unsub") /\ UNCHANGED <<reader, work>>
    /\ UNCHANGED <<streamVars, chanVars, hand, endVars, panic, prints, replied, iopub, shellq, up>>

-----------------------------------------------------------------------------
(* The reply goroutine and recvShell.                                      *)

\* One of the Recvs gets the next reply: its own is passed on, another's is dropped
\* and the goroutine reads again; a Recv its caller has left drops what it gets.
RecvShell(e) ==
    /\ socks /\ shellq # <<>> /\ reader[e] \in {"recv", "left"}
    /\ shellq' = Tail(shellq)
    /\ reader' = [reader EXCEPT ![e] = IF @ = "left" THEN "over" ELSE IF Head(shellq) = e THEN "has" ELSE @]
    /\ UNCHANGED <<epc, streamVars, chanVars, hand, endVars, panic, work, prints, replied, iopub, up>>

\* The socket fails: the goroutine returns, and streamSSE waits for its context.
ReadFails(e) ==
    /\ reader[e] = "recv" /\ ~socks /\ reader' = [reader EXCEPT ![e] = "over"]
    /\ UNCHANGED <<epc, streamVars, chanVars, hand, endVars, cellVars, panic>>

-----------------------------------------------------------------------------
(* streamSSE and CodeExecuteHandler.                                       *)

\* The wall-clock timeout or the client's disconnect, at any time: the handler and
\* the reply goroutine return, the latter's Recv stays behind.
ContextEnds(e) ==
    /\ epc[e] = "stream" /\ Goes(e, "unsub")
    /\ reader' = [reader EXCEPT ![e] = IF @ = "recv" THEN "left" ELSE "over"]
    /\ Forgets(e) /\ ch' = [ch EXCEPT ![e] = <<>>]
    /\ UNCHANGED <<subs, shut, lost, hand, endVars, cellVars, panic>>

\* An iopub event: passed on, and the status idle noted.  A closed channel counts as
\* idle once its buffer is empty.
TakeIOPub(e) ==
    /\ epc[e] = "stream" /\ ~(idle[e] /\ answered[e])
    /\ \/ /\ ch[e] # <<>> /\ ch' = [ch EXCEPT ![e] = Tail(@)]
          /\ IF Head(ch[e]) = "idle" THEN idle' = [idle EXCEPT ![e] = TRUE] /\ UNCHANGED owed
             ELSE owed' = [owed EXCEPT ![e] = @ - 1] /\ UNCHANGED idle
       \/ /\ ch[e] = <<>> /\ shut[e] /\ ~idle[e]
          /\ idle' = [idle EXCEPT ![e] = TRUE] /\ UNCHANGED <<owed, ch>>
    /\ UNCHANGED <<epc, answered, reader, subs, shut, lost, hand, endVars, cellVars, panic>>
TakeReply(e) ==
    /\ epc[e] = "stream" /\ ~(idle[e] /\ answered[e])
    /\ reader[e] = "has" /\ reader' = [reader EXCEPT ![e] = "over"]
    /\ answered' = [answered EXCEPT ![e] = TRUE]
    /\ UNCHANGED <<epc, idle, owed, chanVars, hand, endVars, cellVars, panic>>

\* MUTANT: the reply is enough.
StreamEnds_OnReply(e) ==
    /\ epc[e] = "stream" /\ answered[e] /\ Goes(e, "unsub")
    /\ UNCHANGED <<streamVars, reader, chanVars, hand, endVars, cellVars, panic>>

\* Both seen: then the deferred Close.
StreamEnds(e) ==
    /\ epc[e] = "stream" /\ idle[e] /\ answered[e] /\ Goes(e, "unsub")
    /\ UNCHANGED <<streamVars, reader, chanVars, hand, endVars, cellVars, panic>>

\* unsub: out of the map under the lock, then the channel is closed: a panic, which
\* net/http confines to this request, when CloseAll has closed it.
Unsub(e) ==
    /\ epc[e] = "unsub" /\ Goes(e, "close") /\ subs' = subs \ {e}
    /\ UNCHANGED <<streamVars, reader, ch, shut, lost, hand, endVars, cellVars, panic>>
UnsubClose(e) ==
    /\ epc[e] = "close" /\ Goes(e, IF shut[e] THEN "aborted" ELSE "over")
    /\ shut' = [shut EXCEPT ![e] = TRUE]
    /\ Forgets(e) /\ ch' = [ch EXCEPT ![e] = <<>>] /\ lost' = [lost EXCEPT ![e] = FALSE]
    /\ UNCHANGED <<reader, subs, hand, endVars, cellVars, panic>>

-----------------------------------------------------------------------------
(* iopubLoop, Dispatch and CloseAll.                                       *)

\* A message is received and its subscription looked up under the read lock.  The
\* loop looks at k.closed before it blocks, so it may still route one after the end.
Dispatch ==
    /\ hand = NoMsg /\ socks /\ iopub # <<>>
    /\ hand' = [of |-> Head(iopub).of, kind |-> Head(iopub).kind, sub |-> Head(iopub).of \in subs]
    /\ iopub' = Tail(iopub)
    /\ UNCHANGED <<epc, streamVars, reader, chanVars, endVars, panic, work, prints, replied, shellq, up>>

\* The send, after the lock is released: a full channel drops the message, a closed
\* one panics, in a goroutine nobody recovers.
DispatchSend ==
    /\ hand # NoMsg /\ hand' = NoMsg
    /\ LET e == hand.of IN
        IF ~hand.sub THEN UNCHANGED <<ch, lost, panic>>
        ELSE IF shut[e] THEN panic' = "runtime" /\ UNCHANGED <<ch, lost>>
        ELSE IF Len(ch[e]) < BufCap
        THEN ch' = [ch EXCEPT ![e] = Append(@, hand.kind)] /\ UNCHANGED <<lost, panic>>
        ELSE lost' = [lost EXCEPT ![e] = TRUE] /\ UNCHANGED <<ch, panic>>
    /\ UNCHANGED <<epc, streamVars, reader, subs, shut, endVars, cellVars>>
\* The process is gone, and what it was working on.
Gone == up' = FALSE /\ work' = <<>> /\ prints' = 0 /\ replied' = FALSE

\* killNow: closed, the process killed, the sockets closed.
KillKernel ==
    /\ ~Closed /\ Gone /\ socks' = FALSE /\ iopub' = <<>> /\ shellq' = <<>>
    /\ UNCHANGED <<epc, streamVars, reader, chanVars, hand, panic, sweep, toClose>>

\* processWaitLoop: closed; CloseAll takes the map, and closes channel by channel.
CloseAllTakes ==
    /\ ~up /\ sweep = "no" /\ sweep' = "run"
    /\ toClose' = subs /\ subs' = {}
    /\ UNCHANGED <<epc, streamVars, reader, ch, shut, lost, hand, cellVars, panic, socks>>
CloseAllCloses ==
    /\ sweep = "run"
    /\ IF toClose = {} THEN sweep' = "over" /\ UNCHANGED <<toClose, shut, panic>>
       ELSE \E e \in toClose :
            /\ toClose' = toClose \ {e} /\ shut' = [shut EXCEPT ![e] = TRUE]
            /\ panic' = (IF shut[e] THEN "runtime" ELSE panic) /\ UNCHANGED sweep
    /\ UNCHANGED <<epc, streamVars, reader, subs, ch, lost, hand, cellVars, socks>>

-----------------------------------------------------------------------------
(* The kernel's process: one cell after the other.                         *)

Publish(m) == Len(iopub) < WireCap /\ iopub' = Append(iopub, [of |-> Head(work), kind |-> m])

\* A cell prints; is answered on the shell socket; and the kernel is idle again.
CellPrints ==
    /\ up /\ work # <<>> /\ ~replied /\ prints < MaxOut
    /\ Publish("out") /\ prints' = prints + 1
    /\ LET e == Head(work) IN
        owed' = IF epc[e] = "stream" THEN [owed EXCEPT ![e] = @ + 1] ELSE owed
    /\ UNCHANGED <<epc, idle, answered, reader, chanVars, hand, endVars, panic, work, replied, shellq, up>>
CellReplies ==
    /\ up /\ work # <<>> /\ ~replied /\ replied' = TRUE /\ shellq' = Append(shellq, Head(work))
    /\ UNCHANGED <<epc, streamVars, reader, chanVars, hand, endVars, panic, work, prints, iopub, up>>
CellIdle ==
    /\ up /\ replied /\ replied' = FALSE /\ Publish("idle") /\ work' = Tail(work) /\ prints' = 0
    /\ UNCHANGED <<epc, streamVars, reader, chanVars, hand, endVars, panic, shellq, up>>
ProcessEnds ==
    /\ up /\ Gone
    /\ UNCHANGED <<epc, streamVars, reader, chanVars, hand, endVars, panic, iopub, shellq>>

ExecStep(e) ==
    \/ Subscribe(e) \/ Send(e) \/ ReadFails(e) \/ TakeIOPub(e) \/ TakeReply(e)
    \/ StreamEnds(e) \/ Unsub(e) \/ UnsubClose(e)
Routing == Dispatch \/ DispatchSend \/ CloseAllTakes \/ CloseAllCloses

ExecNext ==
    /\ panic = "none"
    /\ \/ \E e \in Exec : Execute(e) \/ ExecStep(e) \/ RecvShell(e) \/ ContextEnds(e)
       \/ Routing \/ KillKernel \/ CellPrints \/ CellReplies \/ CellIdle \/ ProcessEnds

ExecSpec == ExecInit /\ [][ExecNext]_execVars

\* Goroutines run on and the kernel works; a client may wait for ever.
ExecFair ==
    /\ \A e \in Exec : WF_execVars(panic = "none" /\ (ExecStep(e) \/ RecvShell(e)))
    /\ WF_execVars(panic = "none" /\ Routing) /\ WF_execVars(panic = "none" /\ (CellReplies \/ CellIdle))

-----------------------------------------------------------------------------
(* Properties.                                                             *)

\* "callers can surface 'logs were lossy' instead of silently dropping bytes": an
\* execution that has seen the kernel's idle and its reply has passed on everything
\* its cell printed, unless its own counter or the end of the kernel says otherwise.
OutputWhole ==
    \A e \in Exec : epc[e] = "unsub" /\ answered[e] /\ ~lost[e] /\ ~shut[e] => owed[e] = 0

\* kernel.go:83, "safe for concurrent calls into Execute and Shutdown": neither ends
\* the runtime.
NoPanic == panic = "none"

\* kernel.go:83 again: an execution whose cell is answered gets its reply without
\* waiting for its timeout.
RepliesArrive ==
    \A e \in Exec : (replied /\ work # <<>> /\ Head(work) = e) ~> (reader[e] # "recv" \/ ~up \/ panic # "none")
==============================================================================
