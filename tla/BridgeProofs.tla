---------------------------- MODULE BridgeProofs ----------------------------
(***************************************************************************)
(* The bridge's directory is right for any number of connections, names,   *)
(* tenants and requests: the proofs of the invariants of Bridge.           *)
(*                                                                         *)
(* NoGhost and LiveIsRoutable hold each other up: the deferred delete of   *)
(* serveCluster is guarded by `cur == cc', so it can only remove an entry  *)
(* whose session is already closed, and registration closes the entry it   *)
(* replaces.  NoStaleForward then follows because a forwarded request is   *)
(* on a session of its own target (OnTarget), and that session's handshake *)
(* cannot change while the request holds it (Unreferenced).                *)
(***************************************************************************)
EXTENDS Bridge, TLAPS

LEMMA InitOK == Init => IInv
BY BridgeConstants DEF Init, IInv, TypeOK, Tunnelled, NoGhost, LiveIsRoutable, DeviceCensus,
   OnTarget, NoStaleForward, TenantRouting, Idle, Nobody, Request, Identity, Phases

\* A new tunnel: the slot's goroutine is gone and no request holds it.
LEMMA AcceptStep ==
    ASSUME IInv, NEW c \in Conn, NEW h \in Handshake, handleTunnel(c, h)
    PROVE  IInv'
<1> USE BridgeConstants DEF handleTunnel, directory, Unreferenced
<1>1. TypeOK'
  BY DEF IInv, TypeOK, Request, Identity, Phases
<1>2. Tunnelled'
  BY DEF IInv, TypeOK, Tunnelled
<1>3. NoGhost'
  BY DEF IInv, TypeOK, Tunnelled, NoGhost, LiveIsRoutable
<1>4. LiveIsRoutable'
  BY DEF IInv, TypeOK, Tunnelled, NoGhost, LiveIsRoutable
<1>5. DeviceCensus'
  BY DEF IInv, TypeOK, Tunnelled, DeviceCensus
<1>6. OnTarget'
  BY DEF IInv, TypeOK, Tunnelled, OnTarget
<1>7. NoStaleForward'
  BY SMTT(30) DEF IInv, TypeOK, Tunnelled, NoGhost, OnTarget, LiveIsRoutable, NoStaleForward
<1>8. TenantRouting'
  BY DEF IInv, TypeOK, OnTarget, TenantRouting, InTenant
<1> QED BY <1>1, <1>2, <1>3, <1>4, <1>5, <1>6, <1>7, <1>8 DEF IInv

\* Registration closes the session it replaces.
LEMMA RegisterStep ==
    ASSUME IInv, NEW c \in Conn, serveCluster(c)
    PROVE  IInv'
<1> USE BridgeConstants DEF serveCluster
<1>1. TypeOK'
  BY DEF IInv, TypeOK, Request, Identity, Phases
<1>2. Tunnelled'
  BY DEF IInv, TypeOK, Tunnelled
<1>3. NoGhost'
  BY DEF IInv, TypeOK, Tunnelled, NoGhost, LiveIsRoutable
<1>4. LiveIsRoutable'
  <2> SUFFICES ASSUME NEW d \in Conn, phase'[d] = "serving", up'[d], peer'[d].role = "cluster"
               PROVE  clusters'[peer'[d].id] = d
    BY DEF LiveIsRoutable
  <2>1. peer[c].id \in ClusterId /\ clusters'[peer[c].id] = c
    BY DEF IInv, TypeOK, Tunnelled
  <2>2. CASE d = c
    BY <2>1, <2>2
  <2>3. CASE d # c
    <3>1. clusters[peer[d].id] = d /\ d # clusters[peer[c].id]
      BY <2>3 DEF IInv, TypeOK, LiveIsRoutable
    <3>2. peer[d].id \in ClusterId
      BY <2>3 DEF IInv, TypeOK, Tunnelled
    <3> QED BY <3>1, <3>2 DEF IInv, TypeOK
  <2> QED BY <2>2, <2>3
<1>5. DeviceCensus'
  BY DEF IInv, TypeOK, Tunnelled, DeviceCensus
<1>6. OnTarget'
  BY DEF IInv, TypeOK, Tunnelled, OnTarget
<1>7. NoStaleForward'
  <2> SUFFICES ASSUME NEW q \in Req, req[q].stage = "forwarded", up'[req[q].conn]
               PROVE  clusters'[req[q].target] = req[q].conn
    BY DEF NoStaleForward
  <2>1. req[q].conn \in Conn /\ req[q].target \in ClusterId
    BY DEF IInv, TypeOK
  <2>2. up[req[q].conn] /\ req[q].conn # clusters[peer[c].id]
    BY <2>1 DEF IInv, TypeOK
  <2>3. clusters[req[q].target] = req[q].conn
    BY <2>2 DEF IInv, NoStaleForward
  <2> QED BY <2>1, <2>2, <2>3 DEF IInv, TypeOK
<1>8. TenantRouting'
  BY DEF IInv, TypeOK, OnTarget, TenantRouting, InTenant
<1> QED BY <1>1, <1>2, <1>3, <1>4, <1>5, <1>6, <1>7, <1>8 DEF IInv

\* A finished session removes at most its own entry.
LEMMA LeaveStep ==
    ASSUME IInv, NEW c \in Conn, leaveCluster(c)
    PROVE  IInv'
<1> USE BridgeConstants DEF leaveCluster
<1>1. TypeOK'
  BY DEF IInv, TypeOK, Request, Identity, Phases
<1>2. Tunnelled'
  BY DEF IInv, TypeOK, Tunnelled
<1>3. NoGhost'
  BY DEF IInv, TypeOK, Tunnelled, NoGhost, LiveIsRoutable
<1>4. LiveIsRoutable'
  BY DEF IInv, TypeOK, Tunnelled, NoGhost, LiveIsRoutable
<1>5. DeviceCensus'
  BY DEF IInv, TypeOK, Tunnelled, DeviceCensus
<1>6. OnTarget'
  BY DEF IInv, TypeOK, Tunnelled, OnTarget
<1>7. NoStaleForward'
  BY SMTT(30) DEF IInv, TypeOK, Tunnelled, NoGhost, OnTarget, LiveIsRoutable, NoStaleForward
<1>8. TenantRouting'
  BY DEF IInv, TypeOK, OnTarget, TenantRouting, InTenant
<1> QED BY <1>1, <1>2, <1>3, <1>4, <1>5, <1>6, <1>7, <1>8 DEF IInv

\* A device session joins its siblings.
LEMMA AttachStep ==
    ASSUME IInv, NEW c \in Conn, serveDevice(c)
    PROVE  IInv'
<1> USE BridgeConstants DEF serveDevice
<1>1. TypeOK'
  BY DEF IInv, TypeOK, Request, Identity, Phases
<1>2. Tunnelled'
  BY DEF IInv, TypeOK, Tunnelled
<1>3. NoGhost'
  BY DEF IInv, TypeOK, Tunnelled, NoGhost, LiveIsRoutable
<1>4. LiveIsRoutable'
  BY DEF IInv, TypeOK, Tunnelled, NoGhost, LiveIsRoutable
<1>5. DeviceCensus'
  BY DEF IInv, TypeOK, Tunnelled, DeviceCensus
<1>6. OnTarget'
  BY DEF IInv, TypeOK, Tunnelled, OnTarget
<1>7. NoStaleForward'
  BY SMTT(30) DEF IInv, TypeOK, Tunnelled, NoGhost, OnTarget, LiveIsRoutable, NoStaleForward
<1>8. TenantRouting'
  BY DEF IInv, TypeOK, OnTarget, TenantRouting, InTenant
<1> QED BY <1>1, <1>2, <1>3, <1>4, <1>5, <1>6, <1>7, <1>8 DEF IInv

\* A device session leaves its siblings alone.
LEMMA DetachStep ==
    ASSUME IInv, NEW c \in Conn, leaveDevice(c)
    PROVE  IInv'
<1> USE BridgeConstants DEF leaveDevice
<1>1. TypeOK'
  BY DEF IInv, TypeOK, Request, Identity, Phases
<1>2. Tunnelled'
  BY DEF IInv, TypeOK, Tunnelled
<1>3. NoGhost'
  BY DEF IInv, TypeOK, Tunnelled, NoGhost, LiveIsRoutable
<1>4. LiveIsRoutable'
  BY DEF IInv, TypeOK, Tunnelled, NoGhost, LiveIsRoutable
<1>5. DeviceCensus'
  BY DEF IInv, TypeOK, Tunnelled, DeviceCensus
<1>6. OnTarget'
  BY DEF IInv, TypeOK, Tunnelled, OnTarget
<1>7. NoStaleForward'
  BY SMTT(30) DEF IInv, TypeOK, Tunnelled, NoGhost, OnTarget, LiveIsRoutable, NoStaleForward
<1>8. TenantRouting'
  BY DEF IInv, TypeOK, OnTarget, TenantRouting, InTenant
<1> QED BY <1>1, <1>2, <1>3, <1>4, <1>5, <1>6, <1>7, <1>8 DEF IInv

\* Losing a session changes nothing but the session.
LEMMA LostStep ==
    ASSUME IInv, NEW c \in Conn, SessionLost(c)
    PROVE  IInv'
<1> USE BridgeConstants DEF SessionLost, directory
<1>1. TypeOK'
  BY DEF IInv, TypeOK, Request, Identity, Phases
<1>2. Tunnelled'
  BY DEF IInv, TypeOK, Tunnelled
<1>3. NoGhost'
  BY DEF IInv, TypeOK, Tunnelled, NoGhost, LiveIsRoutable
<1>4. LiveIsRoutable'
  BY DEF IInv, TypeOK, Tunnelled, NoGhost, LiveIsRoutable
<1>5. DeviceCensus'
  BY DEF IInv, TypeOK, Tunnelled, DeviceCensus
<1>6. OnTarget'
  BY DEF IInv, TypeOK, Tunnelled, OnTarget
<1>7. NoStaleForward'
  BY SMTT(30) DEF IInv, TypeOK, Tunnelled, NoGhost, OnTarget, LiveIsRoutable, NoStaleForward
<1>8. TenantRouting'
  BY DEF IInv, TypeOK, OnTarget, TenantRouting, InTenant
<1> QED BY <1>1, <1>2, <1>3, <1>4, <1>5, <1>6, <1>7, <1>8 DEF IInv

\* Shutdown closes what it takes out of the directory.
LEMMA ShutdownStep ==
    ASSUME IInv, Shutdown
    PROVE  IInv'
<1> USE BridgeConstants DEF Shutdown
<1> DEFINE listed == {clusters[i] : i \in ClusterId} \cup UNION {devices[i] : i \in DeviceId}
<1>a. \A d \in Conn : up'[d] => up[d] /\ d \notin listed
  BY DEF IInv, TypeOK
<1>b. \A d \in Conn : phase[d] = "serving" /\ up[d] => d \in listed
  <2> SUFFICES ASSUME NEW d \in Conn, phase[d] = "serving", up[d] PROVE d \in listed
    OBVIOUS
  <2>1. peer[d] \in Handshake
    BY DEF IInv, Tunnelled
  <2>2. CASE peer[d].role = "cluster"
    BY <2>1, <2>2 DEF IInv, LiveIsRoutable
  <2>3. CASE peer[d].role = "device"
    BY <2>1, <2>3 DEF IInv, DeviceCensus
  <2> QED BY <2>1, <2>2, <2>3
<1>c. \A d \in Conn : ~(phase'[d] = "serving" /\ up'[d])
  BY <1>a, <1>b
<1>d. \A q \in Req : req[q].stage = "forwarded" => ~up'[req[q].conn]
  <2> SUFFICES ASSUME NEW q \in Req, req[q].stage = "forwarded", up'[req[q].conn] PROVE FALSE
    OBVIOUS
  <2>1. req[q].conn \in Conn /\ req[q].target \in ClusterId
    BY DEF IInv, TypeOK
  <2>2. clusters[req[q].target] = req[q].conn
    BY <1>a, <2>1 DEF IInv, NoStaleForward
  <2> QED BY <1>a, <2>1, <2>2
<1>1. TypeOK'
  BY DEF IInv, TypeOK, Request, Identity, Phases
<1>2. Tunnelled'
  BY DEF IInv, TypeOK, Tunnelled
<1>3. NoGhost'
  BY DEF IInv, TypeOK, Tunnelled, NoGhost, LiveIsRoutable
<1>4. LiveIsRoutable'
  BY <1>c DEF LiveIsRoutable
<1>5. DeviceCensus'
  BY <1>c DEF DeviceCensus
<1>6. OnTarget'
  BY DEF IInv, TypeOK, Tunnelled, OnTarget
<1>7. NoStaleForward'
  BY SMTT(30), <1>d DEF NoStaleForward
<1>8. TenantRouting'
  BY DEF IInv, TypeOK, OnTarget, TenantRouting, InTenant
<1> QED BY <1>1, <1>2, <1>3, <1>4, <1>5, <1>6, <1>7, <1>8 DEF IInv

-----------------------------------------------------------------------------
(* Requests.                                                               *)

\* What a handler may make of a request: forwarded only on the session the
\* directory names for its target, and only within the tenant.
Sound(r) ==
    /\ r \in Request
    /\ r.stage \in {"dispatched", "routed"} => r.kind = "deploy"
    /\ r.stage = "dispatched" => r.host \in Host
    /\ r.stage = "routed" => r.route \in Route /\ r.target \in ClusterId
    /\ r.stage = "forwarded" =>
        /\ r.target \in ClusterId /\ r.conn \in Conn /\ clusters[r.target] = r.conn
        /\ DevMode \/ InTenant(r, peer[r.conn].who.org)

\* Any handler step that leaves tunnels and directory alone and makes a sound
\* request of q keeps the invariant.
LEMMA RequestStep ==
    ASSUME IInv, NEW q \in Req, NEW r, Sound(r), req' = [req EXCEPT ![q] = r],
           UNCHANGED <<tunnels, directory, revoked, routes>>
    PROVE  IInv'
<1> USE BridgeConstants DEF tunnels, directory
<1>0. \A s \in Req : req'[s] = IF s = q THEN r ELSE req[s]
  BY DEF IInv, TypeOK
<1>1. TypeOK'
  BY <1>0 DEF IInv, TypeOK, Sound
<1>2. Tunnelled' /\ NoGhost' /\ LiveIsRoutable' /\ DeviceCensus'
  BY DEF IInv, Tunnelled, NoGhost, LiveIsRoutable, DeviceCensus
<1>3. OnTarget'
  BY <1>0 DEF IInv, TypeOK, OnTarget, Sound, NoGhost, Tunnelled
<1>4. NoStaleForward'
  BY <1>0 DEF IInv, TypeOK, NoStaleForward, Sound
<1>5. TenantRouting'
  BY <1>0 DEF IInv, TypeOK, TenantRouting, Sound
<1> QED BY <1>1, <1>2, <1>3, <1>4, <1>5 DEF IInv

LEMMA IdleSound == Sound(Idle)
BY BridgeConstants DEF Sound, Idle, Nobody, Request, Identity

\* Forwarding is sound when the checks a handler made establish the tenant.
LEMMA ForwardStep ==
    ASSUME IInv, NEW q \in Req, NEW r \in Request, NEW allowed \in BOOLEAN, r.target \in ClusterId,
           Forward(q, r, clusters[r.target], allowed),
           UNCHANGED <<tunnels, directory, revoked, routes>>,
           allowed /\ clusters[r.target] # None =>
               DevMode \/ InTenant(r, peer[clusters[r.target]].who.org)
    PROVE  IInv'
<1> DEFINE c == clusters[r.target]
           f == [r EXCEPT !.stage = "forwarded", !.conn = c]
<1>1. CASE c = None \/ ~allowed
  BY <1>1, IdleSound, RequestStep DEF Forward
<1>2. CASE c # None /\ allowed
  <2>1. c \in Conn
    BY <1>2 DEF IInv, TypeOK
  <2>2. f \in Request /\ f.stage = "forwarded" /\ f.conn = c /\ f.target = r.target
        /\ f.kind = r.kind /\ f.who = r.who /\ f.route = r.route
    BY <2>1 DEF Request
  <2>3. req' = [req EXCEPT ![q] = f]
    BY <1>2 DEF Forward
  <2> HIDE DEF f
  <2>4. Sound(f)
    BY <1>2, <2>1, <2>2 DEF Sound, InTenant
  <2> QED BY <2>3, <2>4, RequestStep
<1> QED BY <1>1, <1>2

\* deviceHandler compares no tenant: its requests carry no such promise.
LEMMA DeviceStep ==
    ASSUME IInv, NEW q \in Req, NEW d \in Conn, NEW t \in ClusterId, deviceHandler(q, d, t)
    PROVE  IInv'
<1> DEFINE r == [req[q] EXCEPT !.kind = "device", !.who = peer[d].who, !.target = t]
<1>1. peer[d].who \in Identity
  BY BridgeConstants DEF deviceHandler, IInv, Tunnelled, TypeOK
<1>2. r \in Request /\ r.target = t /\ r.kind = "device"
  BY ZenonT(40), <1>1 DEF IInv, TypeOK, Request
<1>3. Forward(q, r, clusters[r.target], TRUE)
  BY <1>2 DEF deviceHandler
<1> HIDE DEF r
<1>4. InTenant(r, peer[clusters[r.target]].who.org)
  BY <1>2 DEF InTenant
<1> QED BY <1>2, <1>3, <1>4, ForwardStep DEF deviceHandler

LEMMA ApiStep ==
    ASSUME IInv, NEW q \in Req, NEW w \in Identity, NEW cn \in CN, NEW t \in ClusterId,
           proxyToCluster(q, w, cn, t)
    PROVE  IInv'
<1> DEFINE r == [req[q] EXCEPT !.kind = "api", !.who = w, !.target = t]
           ok == w.admin \/ DevMode \/ (clusters[t] # None /\ peer[clusters[t]].who.org = w.org)
<1>1. r \in Request /\ r.target = t /\ r.kind = "api" /\ r.who = w
  BY ZenonT(40) DEF IInv, TypeOK, Request
<1>2. ok \in BOOLEAN
  BY BridgeConstants DEF Identity
<1>3. Forward(q, r, clusters[r.target], ok)
  BY <1>1 DEF proxyToCluster
<1>4. UNCHANGED <<tunnels, directory, revoked, routes>>
  BY DEF proxyToCluster
<1> HIDE DEF r
<1>5. ok /\ clusters[r.target] # None => DevMode \/ InTenant(r, peer[clusters[r.target]].who.org)
  BY <1>1 DEF InTenant
<1> HIDE DEF ok
<1> QED BY <1>1, <1>2, <1>3, <1>4, <1>5, ForwardStep

LEMMA DispatchStep ==
    ASSUME IInv, NEW q \in Req, NEW h \in Host, dispatcher(q, h)
    PROVE  IInv'
<1> DEFINE r == [req[q] EXCEPT !.stage = "dispatched", !.kind = "deploy", !.who = Nobody, !.host = h]
<1>0. Nobody \in Identity
  BY DEF Nobody, Identity
<1>1. r \in Request /\ r.stage = "dispatched" /\ r.host = h /\ r.kind = "deploy"
  BY ZenonT(40), <1>0 DEF IInv, TypeOK, Request
<1>2. req' = [req EXCEPT ![q] = r]
  BY DEF dispatcher
<1> HIDE DEF r
<1>3. Sound(r)
  BY <1>1 DEF Sound
<1> QED BY <1>2, <1>3, RequestStep DEF dispatcher

LEMMA RouteStep ==
    ASSUME IInv, NEW q \in Req, HandleDeployment(q)
    PROVE  IInv'
<1> DEFINE t == routes[req[q].host]
           r == [req[q] EXCEPT !.stage = "routed", !.route = t, !.target = t.cluster]
<1>1. CASE t = None
  BY <1>1, IdleSound, RequestStep DEF HandleDeployment
<1>2. CASE t # None
  <2>1. t \in Route /\ t.cluster \in ClusterId
    BY <1>2, BridgeConstants DEF IInv, TypeOK, HandleDeployment
  <2>2. r \in Request /\ r.stage = "routed" /\ r.route = t /\ r.target = t.cluster
        /\ r.kind = "deploy"
    BY ZenonT(40), <2>1 DEF IInv, TypeOK, Request, HandleDeployment
  <2>3. Sound(r)
    BY <2>1, <2>2 DEF Sound
  <2>4. req' = [req EXCEPT ![q] = r]
    BY <1>2 DEF HandleDeployment
  <2> HIDE DEF r
  <2> QED BY <2>3, <2>4, RequestStep DEF HandleDeployment
<1> QED BY <1>1, <1>2

LEMMA IngressStep ==
    ASSUME IInv, NEW q \in Req, deployCluster(q)
    PROVE  IInv'
<1> DEFINE r == req[q]
           ok == DevMode \/ r.route.org = None
                  \/ (clusters[r.target] # None /\ r.route.org = peer[clusters[r.target]].who.org)
<1>1. r \in Request /\ r.target \in ClusterId
  BY DEF IInv, TypeOK, deployCluster
<1>2. ok \in BOOLEAN
  BY BridgeConstants
<1>3. Forward(q, r, clusters[r.target], ok) /\ UNCHANGED <<tunnels, directory, revoked, routes>>
  BY DEF deployCluster
<1>4. ok /\ r.kind = "deploy" => DevMode \/ r.route.org \in {None, peer[clusters[r.target]].who.org}
  OBVIOUS
<1>5. r.kind = "deploy"
  BY DEF IInv, TypeOK, deployCluster
<1>6. ok /\ clusters[r.target] # None => DevMode \/ InTenant(r, peer[clusters[r.target]].who.org)
  BY <1>4, <1>5 DEF InTenant
<1> HIDE DEF r, ok
<1> QED BY <1>1, <1>2, <1>3, <1>6, ForwardStep

LEMMA AnswerStep ==
    ASSUME IInv, NEW q \in Req, RoundTrip(q)
    PROVE  IInv'
BY IdleSound, RequestStep DEF RoundTrip

-----------------------------------------------------------------------------
(* The theorems.                                                           *)

\* Steps that leave tunnels, directory and requests alone.
LEMMA Untouched ==
    ASSUME IInv, UNCHANGED <<tunnels, directory, req>>, TypeOK'
    PROVE  IInv'
<1>1. Tunnelled' /\ NoGhost' /\ LiveIsRoutable' /\ DeviceCensus'
  BY DEF IInv, tunnels, directory, Tunnelled, NoGhost, LiveIsRoutable, DeviceCensus
<1>2. OnTarget' /\ NoStaleForward' /\ TenantRouting'
  BY DEF IInv, tunnels, directory, OnTarget, NoStaleForward, TenantRouting, InTenant
<1> QED BY <1>1, <1>2 DEF IInv

LEMMA PushStep ==
    ASSUME IInv, Pushes
    PROVE  IInv'
<1>1. ASSUME NEW cns \in SUBSET CN, handleRevokedCNsPut(cns) PROVE IInv'
  BY <1>1, Untouched DEF handleRevokedCNsPut, tunnels, directory, IInv, TypeOK
<1>2. ASSUME NEW table \in [Host -> Route \cup {None}], handleDeployRoutesPut(table) PROVE IInv'
  BY <1>2, Untouched DEF handleDeployRoutesPut, tunnels, directory, IInv, TypeOK
<1> QED BY <1>1, <1>2 DEF Pushes

LEMMA StepOK == IInv /\ [Next]_vars => IInv'
<1> SUFFICES ASSUME IInv, [Next]_vars PROVE IInv'
  OBVIOUS
<1>1. ASSUME NEW c \in Conn, NEW h \in Handshake, handleTunnel(c, h) PROVE IInv'
  BY <1>1, AcceptStep
<1>2. ASSUME NEW c \in Conn, Serve(c) \/ Leave(c) \/ SessionLost(c) PROVE IInv'
  BY <1>2, RegisterStep, AttachStep, LeaveStep, DetachStep, LostStep DEF Serve, Leave
<1>3. CASE Shutdown
  BY <1>3, ShutdownStep
<1>4. ASSUME NEW q \in Req, Requests(q) PROVE IInv'
  BY <1>4, DeviceStep, ApiStep, DispatchStep DEF Requests
<1>5. ASSUME NEW q \in Req, Handle(q) PROVE IInv'
  BY <1>5, RouteStep, IngressStep, AnswerStep DEF Handle
<1>6. CASE Pushes
  BY <1>6, PushStep
<1>7. CASE UNCHANGED vars
  BY <1>7, Untouched DEF vars, tunnels, directory, IInv, TypeOK
<1> QED BY <1>1, <1>2, <1>3, <1>4, <1>5, <1>6, <1>7 DEF Next

\* The inductive invariant of the bridge holds in every reachable state.
THEOREM Invariance == Spec => []IInv
BY InitOK, StepOK, PTL DEF Spec

\* Every value the bridge keeps is well formed, and a forwarded request always
\* holds a session.
THEOREM TypeCorrectness == Spec => []TypeOK
<1>1. IInv => TypeOK
  BY DEF IInv
<1> QED BY <1>1, Invariance, PTL

\* The directories name no finished session, every open registered session of a
\* cluster is the one it names (serveCluster and its deferred delete), and the census
\* of device sessions is exact (serveDevice and its deferred removal).
THEOREM DirectoryRight == Spec => []DirectoryExact
<1>1. IInv => DirectoryExact
  BY DEF IInv, DirectoryExact
<1> QED BY <1>1, Invariance, PTL

\* No request is forwarded over an open session that has been superseded.
THEOREM ForwardRight == Spec => []NoStaleForward
<1>1. IInv => NoStaleForward
  BY DEF IInv
<1> QED BY <1>1, Invariance, PTL

\* Dashboard and deployment traffic stays within the tenant it was checked for.
THEOREM TenancyRight == Spec => []TenantRouting
<1>1. IInv => TenantRouting
  BY DEF IInv
<1> QED BY <1>1, Invariance, PTL

=============================================================================
