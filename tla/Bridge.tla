------------------------------- MODULE Bridge -------------------------------
(***************************************************************************)
(* The bridge (pkg/bridge, cmd/bridge): devices and clusters open tunnels, *)
(* the Broker keeps a directory of their sessions, and every request is    *)
(* forwarded over the session its lookup found.  A tunnel is served by a   *)
(* goroutine of its own, so registering a session, losing it and taking it *)
(* out of the directory are separate steps that interleave freely.         *)
(***************************************************************************)
EXTENDS Naturals, FiniteSets

CONSTANTS
    Conn,       \* tunnel connections (one yamux session and goroutine each)
    ClusterId,  \* cluster names
    DeviceId,   \* device names
    Org,        \* tenants named by certificate SANs
    Handshake,  \* the PUT /tunnel requests peers may send
    Host,       \* hostnames of published deployments
    Route,      \* the values of a deploy route
    Req,        \* requests being served at once
    DevMode,    \* cfg.DevMode: plain HTTP, no certificates
    None        \* nil: no session, no tenant, no route

\* A certificate's common name: "cluster-<id>" or "device-<id>".
CN == ({"cluster"} \X ClusterId) \cup ({"device"} \X DeviceId)

\* peerOrgIdentity: the tenant of a certificate, or the admin URN.
Identity == [org : Org \cup {None}, admin : BOOLEAN]

ASSUME BridgeConstants ==
    /\ None \notin Conn \cup ClusterId \cup Org \cup Route \cup Host
    /\ DevMode \in BOOLEAN
    /\ Handshake \subseteq [role : {"cluster", "device"}, id : ClusterId \cup DeviceId,
                            cn : CN, who : Identity]
    /\ \A h \in Handshake : h.id \in IF h.role = "cluster" THEN ClusterId ELSE DeviceId
    /\ Route \subseteq [cluster : ClusterId, org : Org \cup {None}]

VARIABLES
    phase,      \* the goroutine of handleTunnel for each connection
    up,         \* is the yamux session open?
    peer,       \* the handshake the connection was accepted with
    clusters,   \* Broker.clusters: name -> session, None when offline
    devices,    \* Broker.devices: name -> its live sessions
    revoked,    \* revocationSet.cns
    routes,     \* DeployRegistry.routes
    req         \* the requests in flight

directory == <<clusters, devices>>
tunnels == <<phase, up, peer>>
vars == <<phase, up, peer, clusters, devices, revoked, routes, req>>

Phases == {"free", "accepted", "serving"}

\* A request: the stage of its handler, who sent it, where it goes.
Request == [stage : {"idle", "dispatched", "routed", "forwarded"},
            kind : {"device", "api", "deploy"}, who : Identity,
            host : Host \cup {None}, route : Route \cup {None},
            target : ClusterId \cup {None}, conn : Conn \cup {None}]
Nobody == [org |-> None, admin |-> FALSE]
Idle == [stage |-> "idle", kind |-> "api", who |-> Nobody, host |-> None,
         route |-> None, target |-> None, conn |-> None]

TypeOK ==
    /\ phase \in [Conn -> Phases]
    /\ up \in [Conn -> BOOLEAN]
    /\ peer \in [Conn -> Handshake \cup {None}]
    /\ clusters \in [ClusterId -> Conn \cup {None}]
    /\ devices \in [DeviceId -> SUBSET Conn]
    /\ revoked \in SUBSET CN
    /\ routes \in [Host -> Route \cup {None}]
    /\ req \in [Req -> Request]
    /\ \A q \in Req :
        /\ req[q].stage \in {"dispatched", "routed"} => req[q].kind = "deploy"
        /\ req[q].stage = "dispatched" => req[q].host \in Host
        /\ req[q].stage = "routed" => req[q].route \in Route /\ req[q].target \in ClusterId
        /\ req[q].stage = "forwarded" => req[q].conn \in Conn /\ req[q].target \in ClusterId

\* NewWithConfig, newRevocationSet, NewDeployRegistry.
Init ==
    /\ phase = [c \in Conn |-> "free"]
    /\ up = [c \in Conn |-> FALSE]
    /\ peer = [c \in Conn |-> None]
    /\ clusters = [i \in ClusterId |-> None]
    /\ devices = [i \in DeviceId |-> {}]
    /\ revoked = {}
    /\ routes = [h \in Host |-> None]
    /\ req = [q \in Req |-> Idle]

-----------------------------------------------------------------------------
(* Tunnels.                                                                *)

\* mtlsGate: a verified certificate that is not on the denylist.
mtlsGate(cn) == DevMode \/ cn \notin revoked

\* The role and tenancy checks of handleTunnel.
admitted(h) ==
    \/ DevMode
    \/ /\ h.role = "device"
       /\ h.cn[1] = "device"
       /\ h.who.admin \/ h.who.org # None
    \/ /\ h.role = "cluster"
       /\ h.cn = <<"cluster", h.id>>
       /\ h.who.org # None

\* No request still holds the session of a finished connection.
Unreferenced(c) == \A q \in Req : req[q].conn # c

\* handleTunnel up to tunnel.Accept.  A handshake that is refused, or whose
\* Accept fails, changes nothing here.
handleTunnel(c, h) ==
    /\ phase[c] = "free" /\ Unreferenced(c)
    /\ mtlsGate(h.cn)
    /\ admitted(h)
    /\ phase' = [phase EXCEPT ![c] = "accepted"]
    /\ up' = [up EXCEPT ![c] = TRUE]
    /\ peer' = [peer EXCEPT ![c] = h]
    /\ UNCHANGED <<directory, revoked, routes, req>>

\* MUTANT: the superseded session is left open.
serveCluster_KeepOld(c) ==
    /\ phase[c] = "accepted" /\ peer[c].role = "cluster"
    /\ clusters' = [clusters EXCEPT ![peer[c].id] = c]
    /\ phase' = [phase EXCEPT ![c] = "serving"]
    /\ UNCHANGED <<up, peer, devices, revoked, routes, req>>

\* serveCluster, under b.mu: the older session of the name is closed and
\* replaced by this one.
serveCluster(c) ==
    LET id == peer[c].id IN
    /\ phase[c] = "accepted" /\ peer[c].role = "cluster"
    /\ up' = [d \in Conn |-> up[d] /\ d # clusters[id]]
    /\ clusters' = [clusters EXCEPT ![id] = c]
    /\ phase' = [phase EXCEPT ![c] = "serving"]
    /\ UNCHANGED <<peer, devices, revoked, routes, req>>

\* MUTANT: the deferred function deletes whatever entry the name has.
leaveCluster_Blind(c) ==
    /\ phase[c] = "serving" /\ peer[c].role = "cluster" /\ ~up[c]
    /\ clusters' = [clusters EXCEPT ![peer[c].id] = None]
    /\ phase' = [phase EXCEPT ![c] = "free"]
    /\ UNCHANGED <<up, peer, devices, revoked, routes, req>>

\* The deferred function of serveCluster once CloseChan fires: the entry is
\* deleted only while it is still this connection's.
leaveCluster(c) ==
    LET id == peer[c].id IN
    /\ phase[c] = "serving" /\ peer[c].role = "cluster" /\ ~up[c]
    /\ clusters' = IF clusters[id] = c THEN [clusters EXCEPT ![id] = None] ELSE clusters
    /\ phase' = [phase EXCEPT ![c] = "free"]
    /\ UNCHANGED <<up, peer, devices, revoked, routes, req>>

\* serveDevice: several sessions of one device live side by side.
serveDevice(c) ==
    /\ phase[c] = "accepted" /\ peer[c].role = "device"
    /\ devices' = [devices EXCEPT ![peer[c].id] = @ \cup {c}]
    /\ phase' = [phase EXCEPT ![c] = "serving"]
    /\ UNCHANGED <<up, peer, clusters, revoked, routes, req>>

\* The deferred function of serveDevice removes this session only.
leaveDevice(c) ==
    /\ phase[c] = "serving" /\ peer[c].role = "device" /\ ~up[c]
    /\ devices' = [devices EXCEPT ![peer[c].id] = @ \ {c}]
    /\ phase' = [phase EXCEPT ![c] = "free"]
    /\ UNCHANGED <<up, peer, clusters, revoked, routes, req>>

\* The peer hangs up, the network drops, or yamux misses its keepalives.
SessionLost(c) ==
    /\ up[c]
    /\ up' = [up EXCEPT ![c] = FALSE]
    /\ UNCHANGED <<phase, peer, directory, revoked, routes, req>>

\* Shutdown closes the sessions in the directory and empties it.  A tunnel
\* accepted but not yet registered is not in it.
Shutdown ==
    LET listed == {clusters[i] : i \in ClusterId} \cup UNION {devices[i] : i \in DeviceId} IN
    /\ up' = [c \in Conn |-> up[c] /\ c \notin listed]
    /\ clusters' = [i \in ClusterId |-> None]
    /\ devices' = [i \in DeviceId |-> {}]
    /\ UNCHANGED <<phase, peer, revoked, routes, req>>

-----------------------------------------------------------------------------
(* Requests.  Each handler reads the directory once and keeps the session  *)
(* pointer while the directory goes on changing.                           *)

\* MUTANT: the nil check of the lookup is dropped.
Forward_NoNilCheck(q, r, c, allowed) ==
    req' = [req EXCEPT ![q] = IF ~allowed THEN Idle
                              ELSE [r EXCEPT !.stage = "forwarded", !.conn = c]]

\* The lookup failed or was refused: the client has its 502 and the handler
\* is over.  Otherwise the request goes out on the session found.
Forward(q, r, c, allowed) ==
    req' = [req EXCEPT ![q] =
              IF c = None \/ ~allowed THEN Idle
              ELSE [r EXCEPT !.stage = "forwarded", !.conn = c]]

\* deviceHandler: a request on device session d for cluster t.  HTTP and
\* CONNECT differ only in what is copied afterwards.
deviceHandler(q, d, t) ==
    /\ req[q].stage = "idle"
    /\ phase[d] = "serving" /\ up[d] /\ peer[d].role = "device"
    /\ Forward(q, [req[q] EXCEPT !.kind = "device", !.who = peer[d].who, !.target = t],
               clusters[t], TRUE)
    /\ UNCHANGED <<tunnels, directory, revoked, routes>>

\* MUTANT: the tenant of the cluster is not compared.
proxyToCluster_AnyOrg(q, w, cn, t) ==
    /\ req[q].stage = "idle"
    /\ mtlsGate(cn)
    /\ Forward(q, [req[q] EXCEPT !.kind = "api", !.who = w, !.target = t], clusters[t], TRUE)
    /\ UNCHANGED <<tunnels, directory, revoked, routes>>

\* proxyToCluster: a dashboard request with a certificate of its own.
proxyToCluster(q, w, cn, t) ==
    /\ req[q].stage = "idle"
    /\ mtlsGate(cn)
    /\ LET c == clusters[t] IN
       Forward(q, [req[q] EXCEPT !.kind = "api", !.who = w, !.target = t], c,
               w.admin \/ DevMode \/ (c # None /\ peer[c].who.org = w.org))
    /\ UNCHANGED <<tunnels, directory, revoked, routes>>

\* The dispatcher of cmd/bridge: hosts without a route get the placeholder.
dispatcher(q, h) ==
    /\ req[q].stage = "idle"
    /\ routes[h] # None
    /\ req' = [req EXCEPT ![q] = [@ EXCEPT !.stage = "dispatched", !.kind = "deploy",
                                           !.who = Nobody, !.host = h]]
    /\ UNCHANGED <<tunnels, directory, revoked, routes>>

\* HandleDeployment looks the route up again: the table may have changed.
HandleDeployment(q) ==
    LET r == routes[req[q].host] IN
    /\ req[q].stage = "dispatched"
    /\ req' = [req EXCEPT ![q] = IF r = None THEN Idle
                                 ELSE [@ EXCEPT !.stage = "routed", !.route = r,
                                                !.target = r.cluster]]
    /\ UNCHANGED <<tunnels, directory, revoked, routes>>

\* ... and then the cluster, whose tenant must be the route's.
deployCluster(q) ==
    LET r == req[q] c == clusters[r.target] IN
    /\ r.stage = "routed"
    /\ Forward(q, r, c, DevMode \/ r.route.org = None
                         \/ (c # None /\ r.route.org = peer[c].who.org))
    /\ UNCHANGED <<tunnels, directory, revoked, routes>>

\* MUTANT: a request whose session closed goes on waiting for its answer.
RoundTrip_IgnoreClose(q) ==
    /\ req[q].stage = "forwarded" /\ up[req[q].conn]
    /\ req' = [req EXCEPT ![q] = Idle]
    /\ UNCHANGED <<tunnels, directory, revoked, routes>>

\* RoundTrip and CopyStreams end: the cluster answered, or the session is
\* closed and OpenStream, the write or the read failed.
RoundTrip(q) ==
    /\ req[q].stage = "forwarded"
    /\ req' = [req EXCEPT ![q] = Idle]
    /\ UNCHANGED <<tunnels, directory, revoked, routes>>

-----------------------------------------------------------------------------
(* The control plane's pushes, behind requireAdmin.                        *)

\* handleRevokedCNsPut: live sessions of a revoked name are left alone.
handleRevokedCNsPut(cns) ==
    /\ revoked' = cns
    /\ UNCHANGED <<tunnels, directory, routes, req>>

\* handleDeployRoutesPut: ReplaceAll swaps the whole table.
handleDeployRoutesPut(table) ==
    /\ routes' = table
    /\ UNCHANGED <<tunnels, directory, revoked, req>>

Serve(c) == serveCluster(c) \/ serveDevice(c)
Leave(c) == leaveCluster(c) \/ leaveDevice(c)
Handle(q) == HandleDeployment(q) \/ deployCluster(q) \/ RoundTrip(q)
Requests(q) ==
    \/ \E d \in Conn, t \in ClusterId : deviceHandler(q, d, t)
    \/ \E w \in Identity, cn \in CN, t \in ClusterId : proxyToCluster(q, w, cn, t)
    \/ \E h \in Host : dispatcher(q, h)
Pushes ==
    \/ \E cns \in SUBSET CN : handleRevokedCNsPut(cns)
    \/ \E table \in [Host -> Route \cup {None}] : handleDeployRoutesPut(table)

Next ==
    \/ \E c \in Conn, h \in Handshake : handleTunnel(c, h)
    \/ \E c \in Conn : Serve(c) \/ Leave(c) \/ SessionLost(c)
    \/ Shutdown
    \/ \E q \in Req : Requests(q) \/ Handle(q)
    \/ Pushes

Spec == Init /\ [][Next]_vars

\* Goroutines run, and a forwarded request is answered or fails: the peer's
\* handlers answer, and yamux reports a dead session to its readers.
FairSpec ==
    /\ Spec
    /\ \A c \in Conn : WF_vars(Serve(c)) /\ WF_vars(Leave(c))
    /\ \A q \in Req : WF_vars(Handle(q))

-----------------------------------------------------------------------------
(* Properties.                                                             *)

\* The directory never names a session whose goroutine is gone, nor one that
\* registered under another name (serveCluster and its deferred delete run in
\* any order with those of an older or newer session of the same cluster).
NoGhost ==
    \A i \in ClusterId : clusters[i] # None =>
        /\ phase[clusters[i]] = "serving"
        /\ peer[clusters[i]].role = "cluster" /\ peer[clusters[i]].id = i

\* A registered cluster session that is still open is the one the directory
\* names: tearing an old session down never takes a newer one offline, and at
\* most one live session answers for a cluster.
LiveIsRoutable ==
    \A c \in Conn : phase[c] = "serving" /\ up[c] /\ peer[c].role = "cluster"
                        => clusters[peer[c].id] = c

\* devices lists every open session of a device and no finished one: one of
\* several `agentry stdio` processes ending leaves its siblings listed.
DeviceCensus ==
    \A c \in Conn, i \in DeviceId :
        /\ c \in devices[i] => phase[c] = "serving" /\ peer[c].role = "device" /\ peer[c].id = i
        /\ phase[c] = "serving" /\ up[c] /\ peer[c].role = "device" /\ peer[c].id = i
                => c \in devices[i]

\* The directories are exact: a session that ends takes its own entry and no other's.
DirectoryExact == NoGhost /\ LiveIsRoutable /\ DeviceCensus

\* A request in flight keeps the session pointer its lookup returned.  While
\* that session is open it is still the cluster's current one: no request is
\* ever answered by a superseded provisioner.
NoStaleForward ==
    \A q \in Req : req[q].stage = "forwarded" /\ up[req[q].conn]
                        => clusters[req[q].target] = req[q].conn

\* The tenant check of the two handlers, for a cluster of tenant org.
InTenant(r, org) ==
    /\ r.kind = "api" => r.who.admin \/ r.who.org = org
    /\ r.kind = "deploy" => r.route.org \in {None, org}

\* A dashboard or deployment request that was forwarded is on a session of
\* the tenant it was checked against, although routes are re-read, tables are
\* replaced and the cluster may have reconnected since (cross-org refusals of
\* proxyToCluster and HandleDeployment).
TenantRouting ==
    DevMode \/ \A q \in Req : req[q].stage = "forwarded" =>
                    InTenant(req[q], peer[req[q].conn].who.org)

\* What the proofs add: a running goroutine has the handshake it accepted, an
\* open session has a goroutine, and a forwarded request is on a session of
\* the cluster it asked for.
Tunnelled ==
    \A c \in Conn :
        /\ phase[c] # "free" => peer[c] \in Handshake
        /\ up[c] => phase[c] # "free"
OnTarget ==
    \A q \in Req : req[q].stage = "forwarded" =>
        LET h == peer[req[q].conn] IN
        h \in Handshake /\ h.role = "cluster" /\ h.id = req[q].target
IInv ==
    /\ TypeOK /\ Tunnelled /\ NoGhost /\ LiveIsRoutable
    /\ DeviceCensus /\ OnTarget /\ NoStaleForward /\ TenantRouting

\* Every request that entered a handler leaves it, whatever happens to the
\* session it was forwarded on.
RequestsEnd == \A q \in Req : (req[q].stage # "idle") ~> (req[q].stage = "idle")
=============================================================================
