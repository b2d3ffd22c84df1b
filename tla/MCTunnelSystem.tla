--------------------------- MODULE MCTunnelSystem ---------------------------
(***************************************************************************)
(* The tunnel for TLC: the control tunnel (clusters with one certificate   *)
(* each, no devices or browsers), the byte pump, the backoff, and the      *)
(* certificate bundle.  The four share no state, so a behaviour exercises  *)
(* one part and leaves the others as they start: the states add up instead *)
(* of multiplying.                                                         *)
(***************************************************************************)
EXTENDS TunnelSystem, CopyStreams, Backoff, ClusterCert

MCHandshake ==
    {[role |-> "cluster", id |-> i, cn |-> <<"cluster", i>>,
      who |-> [org |-> o, admin |-> FALSE]] : i \in ClusterId, o \in Org}
MCRoute == [cluster : ClusterId, org : Org]

VARIABLE part

AllInit ==
    /\ part \in {"system", "copy", "backoff", "cert"}
    /\ SysInit /\ CopyInit /\ BackoffInit /\ CertInit
    /\ part # "cert" => issued = 0      \* one of the bundle's two initial states

AllNext ==
    /\ UNCHANGED part
    /\ \/ part = "system" /\ SysNext /\ UNCHANGED <<copyVars, backoffVars, certVars>>
       \/ part = "copy" /\ CopyNext /\ UNCHANGED <<sysvars, backoffVars, certVars>>
       \/ part = "backoff" /\ BackoffNext /\ UNCHANGED <<sysvars, copyVars, certVars>>
       \/ part = "cert" /\ CertNext /\ UNCHANGED <<sysvars, copyVars, backoffVars>>

\* Goroutines run, timers fire, and yamux keepalives find dead sessions (in the
\* behaviours that are about the tunnel).
SysFair ==
    /\ \A i \in ClusterId : WF_sysvars(part = "system" /\ AgentStep(i))
    /\ \A c \in Conn : /\ WF_sysvars(part = "system" /\ BridgeStep(c))
                       /\ WF_sysvars(part = "system" /\ Noticed(c))

\* The process is started, its goroutines run, and days go by.
CertFair ==
    /\ WF_certVars(part = "cert" /\ (Run \/ RunCertRenewer))
    /\ WF_certVars(part = "cert" /\ Day)
    /\ \A t \in Task : WF_certVars(part = "cert" /\ Enroll(t))
    /\ WF_certVars(part = "cert" /\ (ReenrollClusterCert \/ redial))

AllSpec ==
    /\ AllInit /\ [][AllNext]_<<part, sysvars, copyVars, backoffVars, certVars>>
    /\ SysFair /\ CertFair
    /\ CopyFair     \* asks nothing of the pump's initial state

\* The types of the four parts.
AllTypeOK == SysTypeOK /\ CopyTypeOK /\ BackoffTypeOK /\ CertTypeOK

\* EventuallyRoutable of module TunnelSystem, where the tunnel moves at all: once
\* faults have ceased, the bridge routes to the session each provisioner serves.
SystemRoutable == (part = "system") => EventuallyRoutable

\* A tunnelled stream hands on what it was given and nothing else (copy.go:61), and
\* the pause between dials grows to its cap and not beyond it (backoff.go:97).
LinkFaithful == PumpFaithful /\ Ramp

\* Once faults have ceased: the tunnel is up, no goroutine of a stream is left
\* behind, and a certificate the bridge rejects has been replaced.
TunnelSettles == SystemRoutable /\ AllGoroutinesEnd /\ CertHeals
=============================================================================
