---------------------------- MODULE TunnelSystem ----------------------------
(***************************************************************************)
(* The control tunnel end to end: every provisioner's BrokerClient.Run     *)
(* (pkg/provisioner/broker_client.go) with tunnel.Dial and tunnel.Accept   *)
(* (pkg/tunnel/handshake.go) against the bridge of module Bridge.  The two *)
(* ends of a session notice its death at different times: a provisioner    *)
(* can redial while the bridge still believes in its old session, and a    *)
(* goroutine of the bridge can register a session that is already dead.    *)
(***************************************************************************)
EXTENDS Bridge

CONSTANTS
    FaultKinds, \* what may go wrong
    MaxFaults   \* bound: how often

ASSUME SystemConstants ==
    /\ FaultKinds \subseteq {"network", "enroll", "rotate", "revoke", "silence", "shutdown", "cancel"}
    /\ MaxFaults \in Nat
    /\ \A i \in ClusterId : \E h \in Handshake : h.role = "cluster" /\ h.id = i

VARIABLES
    agent,      \* the loop of each cluster's BrokerClient
    faults      \* faults so far

sysvars == <<vars, agent, faults>>

\* The locals of Run: where the loop is, the session it holds, the count of
\* consecutive rejections, whether the bridge's CA still knows its certificate,
\* and whether ctx was cancelled.
Agent == [pc : {"dial", "handshake", "silent", "serve", "backoff", "reenroll", "done"},
          conn : Conn \cup {None}, certRejects : 0..2, stale : BOOLEAN, cancelled : BOOLEAN]

SysTypeOK ==
    /\ TypeOK /\ agent \in [ClusterId -> Agent] /\ faults \in 0..MaxFaults
    /\ \A i \in ClusterId : agent[i].conn # None <=> agent[i].pc \in {"handshake", "serve"}

SysInit ==
    /\ Init
    /\ agent = [i \in ClusterId |-> [pc |-> "dial", conn |-> None, certRejects |-> 0,
                                     stale |-> FALSE, cancelled |-> FALSE]]
    /\ faults = 0

Fault(kind) == kind \in FaultKinds /\ faults < MaxFaults /\ faults' = faults + 1

\* The handshake cluster i sends.
Hello(i) == CHOOSE h \in Handshake : h.role = "cluster" /\ h.id = i

Become(i, a) == agent' = [agent EXCEPT ![i] = a]

-----------------------------------------------------------------------------
(* BrokerClient.Run.                                                       *)

\* MUTANT: every failed dial counts as a rejected certificate.
dialFailed_AnyError(i, isCertRejection) ==
    LET a == agent[i]
        n == IF a.certRejects = 2 THEN 2 ELSE a.certRejects + 1
    IN Become(i, [a EXCEPT !.certRejects = n, !.conn = None,
                           !.pc = IF n >= 2 THEN "reenroll" ELSE "backoff"])

\* A dial failed.  isCertRejection tells a TLS rejection from the rest; the
\* second in a row calls reenroll, everything else backs off.
dialFailed(i, isCertRejection) ==
    LET a == agent[i]
        n == IF isCertRejection THEN (IF a.certRejects = 2 THEN 2 ELSE a.certRejects + 1) ELSE 0
    IN Become(i, [a EXCEPT !.certRejects = n, !.conn = None,
                           !.pc = IF n >= 2 THEN "reenroll" ELSE "backoff"])

\* ctx.Err() at the top of the loop.
Return(i) ==
    /\ agent[i].pc \in {"dial", "backoff"} /\ agent[i].cancelled
    /\ Become(i, [agent[i] EXCEPT !.pc = "done"])
    /\ UNCHANGED <<vars, faults>>

\* tunnel.Dial succeeds as far as the bridge is concerned: handleTunnel has
\* accepted the session and sent its 200.
DialAccepted(i, c) ==
    /\ agent[i].pc = "dial" /\ ~agent[i].cancelled /\ ~agent[i].stale
    /\ \A j \in ClusterId : agent[j].conn # c
    /\ handleTunnel(c, Hello(i))
    /\ Become(i, [agent[i] EXCEPT !.pc = "handshake", !.conn = c])
    /\ UNCHANGED faults

\* tunnel.Dial fails: the network (a fault), the TLS handshake of a stale
\* certificate, or mtlsGate's 403, which is an ErrHandshakeFailed.
DialFails(i) ==
    /\ agent[i].pc = "dial" /\ ~agent[i].cancelled
    /\ \/ Fault("network") /\ dialFailed(i, FALSE)
       \/ agent[i].stale /\ dialFailed(i, TRUE) /\ UNCHANGED faults
       \/ /\ ~agent[i].stale /\ ~mtlsGate(Hello(i).cn)
          /\ dialFailed(i, FALSE) /\ UNCHANGED faults
    /\ UNCHANGED vars

\* The peer accepts the TCP connection and never answers: nothing bounds
\* readHandshakeResponse.
DialSilent(i) ==
    /\ agent[i].pc = "dial" /\ ~agent[i].cancelled
    /\ Fault("silence")
    /\ Become(i, [agent[i] EXCEPT !.pc = "silent"])
    /\ UNCHANGED vars

\* readHandshakeResponse returns: the 200, or the error of a broken
\* connection.  On success Run serves the session.
Handshaken(i) ==
    LET a == agent[i] IN
    /\ a.pc = "handshake"
    /\ IF up[a.conn] THEN Become(i, [a EXCEPT !.pc = "serve", !.certRejects = 0])
       ELSE dialFailed(i, FALSE)
    /\ UNCHANGED <<vars, faults>>

\* MUTANT: the next dial starts with the old session still referenced.
ServeEnds_KeepSession(i) ==
    LET a == agent[i] IN
    /\ a.pc = "serve" /\ ~up[a.conn]
    /\ Become(i, [a EXCEPT !.pc = IF a.cancelled THEN "done" ELSE "dial"])
    /\ UNCHANGED <<vars, faults>>

\* srv.Serve(sess) returns because the session closed; Run looks at ctx only
\* now, then dials again without backing off.
ServeEnds(i) ==
    LET a == agent[i] IN
    /\ a.pc = "serve" /\ ~up[a.conn]
    /\ Become(i, [a EXCEPT !.conn = None, !.pc = IF a.cancelled THEN "done" ELSE "dial"])
    /\ UNCHANGED <<vars, faults>>

\* The provisioner's end of the session dies; the bridge does not know yet.
LinkCut(i) ==
    LET a == agent[i] IN
    /\ a.pc \in {"handshake", "serve"} /\ Fault("network")
    /\ IF a.pc = "handshake" THEN dialFailed(i, FALSE)
       ELSE Become(i, [a EXCEPT !.conn = None, !.pc = IF a.cancelled THEN "done" ELSE "dial"])
    /\ UNCHANGED vars

\* The timer of the backoff fires.
BackedOff(i) ==
    /\ agent[i].pc = "backoff" /\ ~agent[i].cancelled
    /\ Become(i, [agent[i] EXCEPT !.pc = "dial"])
    /\ UNCHANGED <<vars, faults>>

\* reenroll: with a certificate of the current CA the loop dials at once, a
\* failure backs off and leaves the count where it is.
reenroll(i) ==
    /\ agent[i].pc = "reenroll"
    /\ \/ /\ Become(i, [agent[i] EXCEPT !.stale = FALSE, !.certRejects = 0, !.pc = "dial"])
          /\ UNCHANGED faults
       \/ Fault("enroll") /\ Become(i, [agent[i] EXCEPT !.pc = "backoff"])
    /\ UNCHANGED vars

AgentStep(i) ==
    \/ Return(i) \/ DialFails(i) \/ Handshaken(i) \/ ServeEnds(i) \/ BackedOff(i) \/ reenroll(i)
    \/ \E c \in Conn : DialAccepted(i, c)

-----------------------------------------------------------------------------
(* The bridge and the environment.                                         *)

\* yamux on the bridge notices that the provisioner let the session go.
Noticed(c) ==
    /\ \A i \in ClusterId : agent[i].conn # c
    /\ SessionLost(c) /\ UNCHANGED <<agent, faults>>

BridgeStep(c) == (Serve(c) \/ Leave(c)) /\ UNCHANGED <<agent, faults>>

Environment ==
    \/ \E i \in ClusterId : LinkCut(i) \/ DialSilent(i)
    \/ \E c \in Conn : Fault("network") /\ SessionLost(c) /\ UNCHANGED agent
    \/ Fault("shutdown") /\ Shutdown /\ UNCHANGED agent
    \/ Fault("rotate") /\ UNCHANGED vars
         /\ agent' = [i \in ClusterId |-> [agent[i] EXCEPT !.stale = TRUE]]
    \/ \E cns \in SUBSET CN : /\ Fault("revoke") /\ cns # revoked
                              /\ handleRevokedCNsPut(cns) /\ UNCHANGED agent
    \/ \E i \in ClusterId : /\ Fault("cancel") /\ ~agent[i].cancelled
                            /\ Become(i, [agent[i] EXCEPT !.cancelled = TRUE]) /\ UNCHANGED vars

SysNext ==
    \/ \E i \in ClusterId : AgentStep(i)
    \/ \E c \in Conn : BridgeStep(c) \/ Noticed(c)
    \/ Environment

SysSpec == SysInit /\ [][SysNext]_sysvars

-----------------------------------------------------------------------------
(* Properties.                                                             *)

Routable(i) == agent[i].pc = "serve" /\ clusters[i] = agent[i].conn /\ up[agent[i].conn]

\* Once faults cease, every provisioner is connected and the bridge routes to
\* the very session it serves, for good: redials, late registrations, kicks of
\* a superseded session and re-enrollments settle.  The exceptions are a
\* provisioner that was stopped or revoked, or whose dial met a silent peer.
EventuallyRoutable ==
    <>[](\A i \in ClusterId :
            \/ agent[i].cancelled \/ agent[i].pc = "silent" \/ ~mtlsGate(Hello(i).cn)
            \/ Routable(i))

\* The enroll token is spent only on a certificate the bridge really rejects:
\* network failures and refusals between two rejections reset the count.
ReenrollOnlyStale == \A i \in ClusterId : agent[i].pc = "reenroll" => agent[i].stale

\* "Returns when ctx ends (either normal shutdown or cancellation)".
RunReturns == \A i \in ClusterId : agent[i].cancelled ~> agent[i].pc = "done"

\* "HandshakeTimeout caps the HTTP handshake before yamux takes over.
\* Default 30s."
DialReturns == \A i \in ClusterId : agent[i].pc = "silent" ~> agent[i].pc # "silent"

\* "the persisted cert is no longer trusted (CA rotated, cert revoked) [...]
\* after a couple of confirming failures we re-enroll": a provisioner whose
\* certificate is revoked for good, and which is not connected, re-enrolls.
RevokedReenrolls ==
    \A i \in ClusterId :
        (~mtlsGate(Hello(i).cn) /\ agent[i].pc = "backoff")
            ~> (agent[i].pc = "reenroll" \/ mtlsGate(Hello(i).cn))
=============================================================================
