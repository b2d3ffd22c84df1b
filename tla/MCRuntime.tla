------------------------------- MODULE MCRuntime ------------------------------
(***************************************************************************)
(* What the runtime keeps running, for TLC: terminals (the ring buffer,    *)
(* the PTY manager, one PTY with its clients) and projects.  Each module   *)
(* abstracts the others away, so a behaviour exercises one of them and     *)
(* leaves the others as they start: the states add up instead of           *)
(* multiplying.                                                            *)
(***************************************************************************)
EXTENDS Ring, PtyManager, PtyStream, Projects

CONSTANTS web, db

\* web needs db.
MCDependsOn == [n \in Name |-> IF n = web /\ db \in Name THEN <<db>> ELSE <<>>]

VARIABLE part

Init ==
    /\ part \in {"ring", "manager", "stream", "projects"}
    /\ RingInit /\ PtyInit /\ StreamInit /\ ProjectsInit

Next ==
    /\ UNCHANGED part
    /\ \/ part = "ring" /\ RingNext /\ UNCHANGED <<ptyVars, streamVars, projectVars>>
       \/ part = "manager" /\ PtyNext /\ UNCHANGED <<ringVars, streamVars, projectVars>>
       \/ part = "stream" /\ StreamNext /\ UNCHANGED <<ringVars, ptyVars, projectVars>>
       \/ part = "projects" /\ ProjectsNext /\ UNCHANGED <<ringVars, ptyVars, streamVars>>

Moves == Init /\ [][Next]_<<part, ringVars, ptyVars, streamVars, projectVars>>

\* Every goroutine of the part that moves runs on and a killed bash dies; bash,
\* projects and clients do as they please.
Fairness ==
    /\ \A k \in Caller : WF_ptyVars(part = "manager" /\ Creating(k))
    /\ \A p \in Pty : /\ WF_ptyVars(part = "manager" /\ Ending(p))
                     /\ WF_ptyVars(part = "manager" /\ Sweep(p))
    /\ WF_streamVars(part = "stream" /\ Reading)
    /\ WF_streamVars(part = "stream" /\ Winding)
    /\ WF_streamVars(part = "stream" /\ CloseKill)
    /\ \A c \in Client : WF_streamVars(part = "stream" /\ Serve(c))
    /\ \A t \in Thread : WF_projectVars(part = "projects" /\ Serving(t))
    /\ \A i \in Inst : WF_projectVars(part = "projects" /\ Watching(i))

Spec == Moves /\ Fairness

\* The types of the parts.
RuntimeTypeOK == RingTypeOK /\ PtyTypeOK /\ StreamTypeOK /\ ProjectsTypeOK

\* Projects whatever is started, stopped and crashes at once (project.go:159, 418):
\* every process can be found to be stopped, and a killed one is not restarted.
SupervisorRight == OneProcess /\ KilledStaysDown

\* A terminal's slot comes back, its output reaches the clients, and every start,
\* stop and restart of a project returns.
RuntimeServes == SlotComesBack /\ StreamServes /\ StartsReturn

\* Projects alone, for the promise of their stop.
ProjectsOnly == part = "projects" /\ Moves
==============================================================================
