------------------------- MODULE MCSandboxLifecycle -------------------------
(* SandboxLifecycle for TLC: clients racing for one name, and the reaper. *)
EXTENDS SandboxLifecycle, TLC

Symmetry == Permutations(Procs)

\* Every handler goroutine runs, the reaper's ticker fires, time passes, and the
\* daemon does not refuse to remove the same sandbox for ever.
Fairness ==
    /\ \A p \in Procs : WF_vars(Handle(p))
    /\ WF_vars(Tick) /\ WF_vars(sweep)
    /\ \A id \in Ids :
          /\ SF_vars(ReapRemove(id))
          /\ WF_vars(ReapRemove(id) \/ ReapError(id))
          /\ WF_vars(ReapDrop(id))

FairSpec == Spec /\ Fairness

\* Whatever fails: a create waits for no port that cannot come (provisioner.go:565),
\* and an overdue sandbox is removed in the end (reaper.go:75).
ServedAndReaped == EveryRequestAnswered /\ OverdueIsReaped
============================================================================
