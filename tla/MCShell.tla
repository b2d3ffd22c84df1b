------------------------------- MODULE MCShell -------------------------------
(***************************************************************************)
(* Commands for TLC: command_run's sessions, background commands, the code *)
(* contexts' kernels, executions on one kernel, requests for one file, the *)
(* file handlers' answers and the cache of ports.  They share nothing, so a behaviour         *)
(* exercises one of them and leaves the others as they start: the states   *)
(* add up instead of multiplying.                                          *)
(***************************************************************************)
EXTENDS Background, ShellSessions, Kernels, KernelExec, Files, PortCache

CONSTANTS x1, x2     \* what contents are made of

VARIABLE part

Init ==
    /\ part \in {"background", "sessions", "kernels", "executions", "files", "answers", "ports"}
    /\ BgInit /\ SessInit /\ KernInit /\ ExecInit /\ FilesInit /\ PortsInit
    /\ IF part = "answers" THEN AnswersInit ELSE ask = NoAsk
    /\ part # "sessions" => width = SemCap
    /\ part # "kernels" => kcap = MaxKernels
    /\ part # "files" => name = NoFile

Next ==
    /\ UNCHANGED <<part, ask>>
    /\ \/ part = "background" /\ BgNext /\ UNCHANGED <<shellVars, kernelsVars, execVars, fileVars, portVars>>
       \/ part = "sessions" /\ SessNext /\ UNCHANGED <<bgVars, kernelsVars, execVars, fileVars, portVars>>
       \/ part = "kernels" /\ KernNext /\ UNCHANGED <<bgVars, shellVars, execVars, fileVars, portVars>>
       \/ part = "executions" /\ ExecNext /\ UNCHANGED <<bgVars, shellVars, kernelsVars, fileVars, portVars>>
       \/ part = "files" /\ FilesNext /\ UNCHANGED <<bgVars, shellVars, kernelsVars, execVars, portVars>>
       \/ part = "ports" /\ PortsNext /\ UNCHANGED <<bgVars, shellVars, kernelsVars, execVars, fileVars>>

\* Each module's fairness, of the part that moves.
Fairness ==
    /\ \A c \in Cmd : /\ WF_bgVars(part = "background" /\ Starting(c))
                     /\ WF_bgVars(part = "background" /\ Waiting(c))
                     /\ WF_bgVars(part = "background" /\ Killing(c))
    /\ \A k \in Req : /\ WF_shellVars(part = "sessions" /\ AcquireSem(k))
                     /\ WF_shellVars(part = "sessions" /\ Step(k))
    /\ \A s \in Sess : /\ WF_shellVars(part = "sessions" /\ ReadLoopEnds(s))
                      /\ WF_shellVars(part = "sessions" /\ CloseSession(s))
    /\ WF_shellVars(part = "sessions" /\ SweepSession)
    /\ \A k \in Kern : /\ WF_kernelsVars(part = "kernels" /\ SpawnStep(k))
                      /\ WF_kernelsVars(part = "kernels" /\ Waited(k))
    /\ \A c \in Caller : WF_kernelsVars(part = "kernels" /\ ShutdownStep(c))

Spec == Init /\ [][Next]_<<part, ask, bgVars, shellVars, kernelsVars, execVars, fileVars, portVars>> /\ Fairness

\* Contents a client writes, and the edits it asks for: one place, or two steps of
\* which the second sees what the first did.
MCPayload == {<<x1>>, <<x2, x1>>}
EditOf(old, new) == [old |-> old, new |-> new, all |-> FALSE, expected |-> 0]
MCPatch == {<<EditOf(<<x1>>, <<x2>>)>>, <<EditOf(<<x1>>, <<x1, x2>>), EditOf(<<x2>>, <<x1>>)>>}

\* The types of the parts.
ShellTypeOK == BgTypeOK /\ SessTypeOK /\ KernTypeOK /\ ExecTypeOK /\ FilesTypeOK /\ PortsTypeOK

\* However commands end (background.go:162) and however kernels are raced for, crash or
\* are torn down (manager.go:112): no slot is lost or doubled, no process unaccounted.
NothingLeaks == SlotsKept /\ KernelsAccounted

\* The handlers: whole contents under every interleaving and a crash (file.go:206,
\* FilesWhole), answers that keep their limits (file.go:85, AnswersRight), and ports no
\* staler than the cache and one fetch allow (port_discovery.go:40, PortsFresh).
HandlersRight == FilesWhole /\ AnswersRight /\ PortsFresh

\* What every client may count on: an interrupted group dies (background.go:269),
\* every command_run returns whatever hangs (session.go:101), and every kernel is
\* started, refused or shut down in finite time (manager.go:83 and 161).  No call
\* is made twice, so each ends if again and again none is under way.
CommandsProgress == []<>(InterruptsSettled /\ CallsSettled /\ KernelsSettled)
==============================================================================
