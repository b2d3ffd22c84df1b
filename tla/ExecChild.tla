----------------------------- MODULE ExecChild -----------------------------
(***************************************************************************)
(* cmd/authproxy exec.go and main.go: the auth proxy as the supervisor of  *)
(* the application it stands in front of, and as a plain server.  Three    *)
(* events race for the end of the process: the application exits, a        *)
(* signal arrives, the listener fails.  Two goroutines wait for the same   *)
(* child, and the store is opened by a third.                              *)
(***************************************************************************)
EXTENDS Naturals, FiniteSets

CONSTANTS PortNum,  \* values PORT may have: their numbers
          TopPort   \* 65535

ASSUME PortsAreNumbers == PortNum \subseteq Nat /\ TopPort \in Nat

VARIABLES
    exec,       \* AGENTRY_AUTHPROXY_EXEC is set
    main,       \* where the main goroutine is
    child,      \* the application: "none", "up", "exited" (not waited for), "reaped"
    status,     \* what it exited with: 0, 1, or "signal"
    tree,       \* its own children are up
    waiter,     \* the goroutine in Childproc.Wait
    listen,     \* the goroutine in listen
    store,      \* the store is "closed", "open", or "released" by the teardown
    sigCh,      \* a signal is in the channel
    cause,      \* the case the select took
    killed,     \* history: the child was sent SIGKILL
    stray,      \* history: a signal was sent to a process id that was reaped
    request,    \* a request the server is at: "none", "at", "cut"
    code        \* the exit status of the process

execVars == <<exec, main, child, status, tree, waiter, listen, store, sigCh, cause,
              killed, stray, request, code>>

ExecTypeOK ==
    /\ exec \in BOOLEAN /\ tree \in BOOLEAN /\ sigCh \in BOOLEAN /\ killed \in BOOLEAN
    /\ main \in {"booting", "select", "grace", "lastwait", "drain", "ending", "exited"}
    /\ child \in {"none", "up", "exited", "reaped"} /\ status \in {"none", "0", "1", "signal"}
    /\ waiter \in {"off", "waiting", "sent"}
    /\ listen \in {"off", "building", "serving", "failed"}
    /\ store \in {"closed", "open", "released"} /\ cause \in {"none", "child", "signal", "listener"}
    /\ request \in {"none", "at", "cut"} /\ code \in {"none", "0", "1", "255", "default"}
    /\ stray \in BOOLEAN /\ (main = "exited" <=> code # "none")

-----------------------------------------------------------------------------
(* Before the first process starts.                                        *)

\* A port as it is written: its number, and whether zeros come before it.
PortText == [num : PortNum, padded : BOOLEAN]

\* resolveUpstreamPort: an explicit port that is not written like the listener's, or the
\* next one; {} is a refusal.  Only the second is compared with the highest port.
UpstreamPort(port, explicit) ==
    IF explicit # {} THEN {e.num : e \in explicit \ {port}}
    ELSE IF port.num + 1 > TopPort THEN {} ELSE {port.num + 1}

\* Written without zeros, the application's port is never the listener's ("a recipe for
\* the proxy hammering its own listener", exec.go:102), and the next port exists.
ASSUME UpstreamElsewhere ==
    \A p \in PortText, e \in {{}} \cup {{q} : q \in PortText} :
        /\ ~p.padded /\ (\A q \in e : ~q.padded) => p.num \notin UpstreamPort(p, e)
        /\ e = {} => \A n \in UpstreamPort(p, e) : n <= TopPort

ExecInit ==
    /\ exec \in BOOLEAN /\ main = "booting" /\ child = "none" /\ status = "none" /\ tree = FALSE
    /\ waiter = "off" /\ listen = "off" /\ store = "closed" /\ sigCh = FALSE /\ cause = "none"
    /\ killed = FALSE /\ stray = FALSE /\ request = "none" /\ code = "none"

Exit(c) == main' = "exited" /\ code' = c
Cut == request' = IF request = "at" THEN "cut" ELSE request

\* startChild fails, or in plain mode buildMux does.
BootFails ==
    /\ main = "booting" /\ Exit("1")
    /\ UNCHANGED <<exec, child, status, tree, waiter, listen, store, sigCh, cause, killed, stray, request>>

\* startChild; the two goroutines; signal.Notify.  A signal in between finds no handler:
\* the process is gone and the application stays.
StartChild ==
    /\ main = "booting" /\ exec
    /\ child' = "up" /\ tree' \in BOOLEAN
    /\ \/ main' = "select" /\ waiter' = "waiting" /\ listen' = "building" /\ UNCHANGED code
       \/ Exit("default") /\ UNCHANGED <<waiter, listen>>
    /\ UNCHANGED <<exec, status, store, sigCh, cause, killed, stray, request>>

\* Plain mode: the store is opened first, then the listener and the handler of signals.
StartPlain ==
    /\ main = "booting" /\ ~exec
    /\ store' \in {"open", "closed"} /\ listen' = "serving" /\ main' = "select"
    /\ UNCHANGED <<exec, child, status, tree, waiter, sigCh, cause, killed, stray, request, code>>

-----------------------------------------------------------------------------
(* The listener, the requests, the child and the signals.                  *)

\* buildMux in the listening goroutine: no store in passthrough mode.
BuildMux ==
    /\ listen = "building" /\ main # "exited"
    /\ \/ listen' = "serving" /\ store' \in {"open", "closed"}
       \/ listen' = "failed" /\ UNCHANGED store
    /\ UNCHANGED <<exec, main, child, status, tree, waiter, sigCh, cause, killed, stray, request, code>>

ListenerFails ==
    /\ listen = "serving" /\ main \in {"select", "grace", "lastwait"} /\ listen' = "failed"
    /\ UNCHANGED <<exec, main, child, status, tree, waiter, store, sigCh, cause, killed, stray, request, code>>

Request ==
    /\ main # "exited"
    /\ \/ request = "none" /\ listen = "serving" /\ main # "drain" /\ request' = "at"
       \/ request = "at" /\ request' = "none"
    /\ UNCHANGED <<exec, main, child, status, tree, waiter, listen, store, sigCh, cause, killed, stray, code>>

\* The application exits by itself, or because of a signal it was sent.
ChildExits(s) ==
    /\ child = "up" /\ child' = "exited" /\ status' = s
    /\ s = "signal" => killed \/ cause # "none" \/ sigCh \/ main = "exited"
    /\ UNCHANGED <<exec, main, tree, waiter, listen, store, sigCh, cause, killed, stray, request, code>>

TreeExits ==
    /\ tree /\ tree' = FALSE
    /\ UNCHANGED <<exec, main, child, status, waiter, listen, store, sigCh, cause, killed, stray, request, code>>

\* SIGTERM to the proxy alone (a container's init) or to its group (project_stop), which
\* the application then gets too.
Signal ==
    /\ main \in {"select", "grace", "lastwait", "drain"} /\ ~sigCh /\ cause # "signal"
    /\ sigCh' = TRUE
    /\ UNCHANGED <<exec, main, child, status, tree, waiter, listen, store, cause, killed, stray, request, code>>

\* Childproc.Wait returns; the channel has room for its one value.
WaitReturns ==
    /\ main # "exited" /\ waiter = "waiting" /\ child \in {"exited", "reaped"}
    /\ waiter' = "sent" /\ child' = "reaped"
    /\ UNCHANGED <<exec, main, status, tree, listen, store, sigCh, cause, killed, stray, request, code>>

-----------------------------------------------------------------------------
(* runExecMode's select, and Shutdown.                                     *)

\* ExitCode is -1 for a signal, which a process passes on as 255.
CodeOf(s) == IF s = "signal" THEN "255" ELSE s

\* The child's exit first: no signal, nobody to wait for.
TakeChild ==
    /\ main = "select" /\ exec /\ waiter = "sent"
    /\ cause' = "child" /\ main' = "ending"
    /\ UNCHANGED <<exec, child, status, tree, waiter, listen, store, sigCh, killed, stray, request, code>>

\* Shutdown: SIGTERM to the child's process id, whoever has it by now.
Shutdown(c) ==
    /\ main = "select" /\ exec
    /\ cause' = c /\ main' = "grace" /\ stray' = (child = "reaped")
    /\ UNCHANGED <<exec, child, status, tree, waiter, listen, store, killed, request, code>>

TakeSignal == sigCh /\ sigCh' = FALSE /\ Shutdown("signal")
TakeListener == listen = "failed" /\ UNCHANGED sigCh /\ Shutdown("listener")

\* Its second waiter: Process.Wait returns, with the status or an error, once the child
\* has exited.
GraceEnds ==
    /\ main \in {"grace", "lastwait"} /\ child \in {"exited", "reaped"}
    /\ child' = "reaped" /\ main' = "ending"
    /\ UNCHANGED <<exec, status, tree, waiter, listen, store, sigCh, cause, killed, stray, request, code>>

\* MUTANT: after fifteen seconds the application is left to itself.
GraceOver_NoKill ==
    /\ main = "grace" /\ child = "up" /\ main' = "lastwait"
    /\ UNCHANGED <<exec, child, status, tree, waiter, listen, store, sigCh, cause, killed, stray, request, code>>

\* Fifteen seconds: SIGKILL, to the child only.
GraceOver ==
    /\ main = "grace" /\ child = "up" /\ main' = "lastwait" /\ killed' = TRUE
    /\ UNCHANGED <<exec, child, status, tree, waiter, listen, store, sigCh, cause, stray, request, code>>

\* Sixteen: the context ends the last wait.
ContextEnds ==
    /\ main = "lastwait" /\ main' = "ending"
    /\ UNCHANGED <<exec, child, status, tree, waiter, listen, store, sigCh, cause, killed, stray, request, code>>

\* run: the store is released if the main goroutine sees the teardown that the listening
\* goroutine assigned; nothing orders the two.  The server is not shut down: what it was
\* at is cut.
ExecEnds ==
    /\ main = "ending" /\ exec
    /\ store' \in (IF store = "open" THEN {"open", "released"} ELSE {store})
    /\ Cut
    /\ Exit(CASE cause = "child" -> CodeOf(status) [] cause = "signal" -> "0" [] OTHER -> "1")
    /\ UNCHANGED <<exec, child, status, tree, waiter, listen, sigCh, cause, killed, stray>>

-----------------------------------------------------------------------------
(* run in plain mode.                                                      *)

PlainStops ==
    /\ main = "select" /\ ~exec /\ sigCh /\ main' = "drain" /\ cause' = "signal"
    /\ sigCh' = FALSE
    /\ UNCHANGED <<exec, child, status, tree, waiter, listen, store, killed, stray, request, code>>

\* srv.Shutdown: the requests end, or fifteen seconds do; a request may take sixty.
PlainEnds ==
    /\ main = "drain" /\ Cut
    /\ Exit(IF request = "at" THEN "1" ELSE "0")
    /\ store' = IF store = "open" THEN "released" ELSE store
    /\ UNCHANGED <<exec, child, status, tree, waiter, listen, sigCh, cause, killed, stray>>

PlainFails ==
    /\ main = "select" /\ ~exec /\ listen = "failed" /\ cause' = "listener" /\ Cut /\ Exit("1")
    /\ store' = IF store = "open" THEN "released" ELSE store
    /\ UNCHANGED <<exec, child, status, tree, waiter, listen, sigCh, killed, stray>>

ExecNext ==
    \/ BootFails \/ StartChild \/ StartPlain \/ BuildMux \/ ListenerFails \/ Request
    \/ (\E s \in {"0", "1", "signal"} : ChildExits(s)) \/ TreeExits \/ Signal \/ WaitReturns
    \/ TakeChild \/ TakeSignal \/ TakeListener \/ GraceEnds \/ GraceOver \/ ContextEnds \/ ExecEnds
    \/ PlainStops \/ PlainEnds \/ PlainFails

ExecSpec == ExecInit /\ [][ExecNext]_execVars

-----------------------------------------------------------------------------
(* Properties.                                                             *)

\* "so a stuck app can't outlive a container shutdown" (exec.go:39): once the supervisor
\* has run, an application that is still there has been sent SIGKILL.
NoStuckApp == main = "exited" /\ code # "default" /\ child = "up" => killed

\* A success is never reported for an application that failed, nor for a listener that
\* did, and in plain mode never with a request cut short.
StatusHonest ==
    code = "0" =>
        /\ cause # "none" /\ cause # "listener"
        /\ cause = "child" => status = "0"
        /\ ~exec => request # "cut" /\ store # "open"

ExecSound == NoStuckApp /\ StatusHonest

\* "child dies → authproxy logs + exits with child's status" (exec.go:42).
StatusIsChilds == main = "exited" /\ exec /\ waiter = "sent" => code = CodeOf(status)

\* The store is closed at the end (main.go:76), a signal meets the child only
\* (exec.go:179), and nothing of the application is left (exec.go:36).
StoreReleased == main = "exited" => store # "open"
NoStraySignal == ~stray
TreeGone == main = "exited" /\ code # "default" => ~tree
=============================================================================
