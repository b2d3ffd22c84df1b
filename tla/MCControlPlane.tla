--------------------------- MODULE MCControlPlane ---------------------------
(***************************************************************************)
(* The control plane for TLC: the bridge and its gate, and the             *)
(* provisioner's runs, bindings and self-update.  They share nothing, so a *)
(* behaviour exercises one of them and leaves the others as they start: the *)
(* states add up instead of multiplying.                                   *)
(***************************************************************************)
EXTENDS Bridge, BridgeGate, DeployRun, Bindings, SelfUpdate, TLC

CONSTANTS a1, a2, a3    \* members of Call

\* Every well-formed certificate in its own role, one tenant per cluster, the
\* devices of every tenant.
OrgOf == [i \in ClusterId |-> IF i = (CHOOSE k \in ClusterId : TRUE)
                              THEN CHOOSE o \in Org : TRUE
                              ELSE CHOOSE o \in Org : Org = {o} \/ o # (CHOOSE p \in Org : TRUE)]
ClusterHandshakes ==
    {[role |-> "cluster", id |-> i, cn |-> <<"cluster", i>>,
      who |-> [org |-> OrgOf[i], admin |-> FALSE]] : i \in ClusterId}
DeviceHandshakes ==
    {[role |-> "device", id |-> i, cn |-> <<"device", i>>,
      who |-> [org |-> o, admin |-> FALSE]] : i \in DeviceId, o \in Org}
MCHandshake == ClusterHandshakes \cup DeviceHandshakes
MCRoute == [cluster : ClusterId, org : Org \cup {None}]

VARIABLE part

\* Binding requests up to their names; at least two of them write.
UpToNames ==
    LET place == [bind |-> 1, secret |-> 2, resolve |-> 3, build |-> 4]
    IN  /\ place[kind[a1]] <= place[kind[a2]] /\ place[kind[a2]] <= place[kind[a3]]
        /\ kind[a2] \in {"bind", "secret"}

PlaneInit ==
    /\ part \in {"bridge", "gate_org", "gate_password", "runs", "bindings", "update"}
    /\ Init /\ GateInit /\ RunInit /\ BindInit /\ UpdInit /\ UpToNames
    /\ part # "bindings" => /\ kind = [c \in Call |-> "bind"] /\ keys = [c \in Call |-> Key]
                            /\ svc = [c \in Call |-> CHOOSE s \in Svc : TRUE]

\* The gate by what its sites are: nobody signs in where passwords are wanted, and no
\* site has a password where sign-ins are.
OrgSites == \A s \in Site : published'[s].mode # "password"
NoSignIn == signedIn' = signedIn

rest == <<runVars, bindVars, updateVars>>

PlaneNext ==
    /\ UNCHANGED part
    /\ \/ part = "bridge" /\ Next /\ UNCHANGED <<gateVars, rest>>
       \/ part = "gate_org" /\ GateNext /\ OrgSites /\ UNCHANGED <<vars, rest>>
       \/ part = "gate_password" /\ GateNext /\ NoSignIn /\ UNCHANGED <<vars, rest>>
       \/ part = "runs" /\ RunNext /\ UNCHANGED <<vars, gateVars, bindVars, updateVars>>
       \/ part = "bindings" /\ BindNext /\ UNCHANGED <<vars, gateVars, runVars, updateVars>>
       \/ part = "update" /\ UpdNext /\ UNCHANGED <<vars, gateVars, runVars, bindVars>>

\* The bridge's fairness, while it is the part that moves.
Fairness ==
    /\ \A c \in Conn : WF_vars(part = "bridge" /\ Serve(c)) /\ WF_vars(part = "bridge" /\ Leave(c))
    /\ \A q \in Req : WF_vars(part = "bridge" /\ Handle(q))

PlaneSpec ==
    PlaneInit /\ [][PlaneNext]_<<part, vars, gateVars, runVars, bindVars, updateVars>> /\ Fairness

\* The types of the part that moves.
PlaneTypeOK ==
    CASE part = "bridge" -> TypeOK
      [] part \in {"gate_org", "gate_password"} -> GateTypeOK
      [] part = "runs" -> RunTypeOK
      [] part = "bindings" -> BindTypeOK
      [] part = "update" -> UpdTypeOK
==============================================================================
