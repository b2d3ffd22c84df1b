---------------------------- MODULE MCProvisioner ----------------------------
(***************************************************************************)
(* Sandboxes for TLC: created and deleted by name, and the builds in one   *)
(* of them.  The two share nothing here, so a behaviour exercises one and  *)
(* leaves the other as it starts: the states add up instead of             *)
(* multiplying.                                                            *)
(***************************************************************************)
EXTENDS SandboxLifecycle, DeployBuild, SandboxConfig, TLC

CONSTANTS b1, b2, t1, p1, p2    \* members of Build, Tag and Proj

VARIABLE part

\* Builds up to their names and those of tags and projects; there is source to build.
UpToNames ==
    /\ tag[b1] = t1 /\ disk \notin {{}, {p2}}
    /\ LET place == [r \in Proj \cup {Root} |-> CASE r = Root -> 0 [] r = p1 -> 1 [] r = p2 -> 2]
       IN  place[proj[b1]] <= place[proj[b2]]

ProvInit ==
    /\ part \in {"sandboxes", "builds"}
    /\ Init /\ BuildInit /\ UpToNames
    /\ part # "builds" => /\ tag = [b \in Build |-> t1]
                          /\ proj = [b \in Build |-> Root] /\ disk = {p1}

ProvNext ==
    /\ UNCHANGED part
    /\ \/ part = "sandboxes" /\ Next /\ UNCHANGED buildVars
       \/ part = "builds" /\ BuildNext /\ UNCHANGED vars

ProvSpec == ProvInit /\ [][ProvNext]_<<part, vars, buildVars>>

\* Requests for sandboxes are alike.
Symmetry == Permutations(Procs)

\* The types of the part that moves.
ProvTypeOK == IF part = "builds" THEN BuildTypeOK ELSE TypeOK
==============================================================================
