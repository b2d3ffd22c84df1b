----------------------- MODULE SandboxLifecycleProofs -----------------------
(***************************************************************************)
(* Proofs about the provisioner.  Sandboxes, for any number of clients,    *)
(* ids and containers: the inductive invariant IInv, and from it type      *)
(* correctness, isolation of creates and the rollback rule.  Builds, for   *)
(* any number of builds, projects and tags: BuildInv, and from it what a   *)
(* build promises beside others.                                           *)
(***************************************************************************)
EXTENDS MCProvisioner, FiniteSetTheorems, TLAPS

USE DEF Ids, PCs

(* The idle job and the empty slots are well formed. *)
LEMMA Defaults ==
  /\ IdleJob \in Job
  /\ NoContainer \in Container
  /\ NoOverlay \in [exp : Nat, ttl : Nat]
<1>1. (CHOOSE n \in Names : TRUE) \in Names
  BY IdsAssumption
<1> QED
  BY <1>1 DEF IdleJob, Job, NoContainer, Container, NoOverlay

(* Deadlines are natural numbers: the truncation to seconds is exact. *)
LEMMA ExpiryType ==
  ASSUME NEW t \in Nat, NEW ttl \in Nat
  PROVE  expiresAtFromTTL(t, ttl) \in Nat
<1>1. t + ttl * TicksPerSecond \in Nat
  BY ClockAssumption
<1>2. ASSUME NEW n \in Nat PROVE (n \div TicksPerSecond) * TicksPerSecond \in Nat
  BY ClockAssumption
<1> QED
  BY <1>1, <1>2 DEF expiresAtFromTTL, FormatRFC3339

(* Initial states satisfy the invariant. *)
LEMMA InitIInv == Init => IInv
<1> SUFFICES ASSUME Init PROVE IInv
  OBVIOUS
<1> USE DEF Init
<1>1. TypeOK
  BY Defaults, ClockAssumption DEF TypeOK, Exists, NoContainer
<1>2. IncsOK /\ HistoryOK
  BY DEF IncsOK, HistoryOK, NoContainer, Exists
<1>3. \A p \in Procs : JobOK(job[p])
  BY DEF JobOK, NoContainer, IdleJob
<1> QED
  BY <1>1, <1>2, <1>3 DEF IInv

----------------------------------------------------------------------------
(* Two frame lemmas split every action into what it does to containers and *)
(* what it does to the request that runs it.                               *)

(* A container goes on, possibly in another state, as the same one. *)
Evolves(c, d) ==
  /\ d.inc = c.inc
  /\ d.state = "absent" <=> c.state = "absent"
  /\ Ran(c) => Ran(d)
  /\ c.stopped => d.stopped
  /\ d.state \in {"restarting", "exited"} => d.stopped
  /\ d.holders > 0 => Ran(d)

(* Containers that go on or are removed keep the invariant, and what every *)
(* request remembers of them stays true.                                   *)
LEMMA ContainerStep ==
  ASSUME IInv, containers' \in [Ids -> Container], nextInc' = nextInc,
         \A id \in Ids : \/ containers'[id] = NoContainer
                         \/ Evolves(containers[id], containers'[id])
  PROVE  /\ IncsOK' /\ HistoryOK'
         /\ \A id \in Ids : containers'[id].inc = 0 <=> containers'[id].state = "absent"
         /\ \A j \in Job : JobOK(j) => JobOK(j)'
<1> USE DEF IInv, TypeOK
<1>1. IncsOK'
  BY DEF IncsOK, Exists, NoContainer, Container, Evolves
<1>2. HistoryOK'
  BY DEF HistoryOK, Ran, NoContainer, Evolves
<1>3. \A id \in Ids : containers'[id].inc = 0 <=> containers'[id].state = "absent"
  BY DEF Exists, NoContainer, Evolves
<1>4. ASSUME NEW j \in Job, JobOK(j) PROVE JobOK(j)'
  <2>1. ASSUME NEW id \in Ids, containers'[id].inc # 0
        PROVE  Evolves(containers[id], containers'[id])
    BY <2>1 DEF NoContainer
  <2>2. ASSUME NEW id \in Ids, containers'[id].inc \in j.seen
        PROVE  /\ Ran(containers'[id])
               /\ containers[id].inc \in j.seen
               /\ containers[id].stopped => containers'[id].stopped
    BY <1>4, <2>1, <2>2 DEF JobOK, Evolves
  <2>3. ASSUME NEW id \in Ids, j.pc = "probe", containers'[id].inc = j.got
        PROVE  Ran(containers'[id])
    BY <1>4, <2>1, <2>3 DEF JobOK, Evolves
  <2>4. j.id \in Ids
    BY DEF Job
  <2> QED
    BY <1>4, <2>2, <2>3, <2>4 DEF JobOK
<1> QED
  BY <1>1, <1>2, <1>3, <1>4

(* A step of one request keeps the invariant if the containers go on and   *)
(* what the request remembers is true in the new state.                    *)
LEMMA RequestStep ==
  ASSUME IInv, NEW p \in Procs, NEW j \in Job, JobOK(j)',
         job' = [job EXCEPT ![p] = j],
         containers' \in [Ids -> Container],
         \A id \in Ids : \/ containers'[id] = NoContainer
                         \/ Evolves(containers[id], containers'[id]),
         overlay' \in [Ids -> [exp : Nat, ttl : Nat]],
         UNCHANGED <<now, nextInc, expired, dropping>>
  PROVE  IInv'
<1>1. /\ IncsOK' /\ HistoryOK'
      /\ \A id \in Ids : containers'[id].inc = 0 <=> containers'[id].state = "absent"
      /\ \A i \in Job : JobOK(i) => JobOK(i)'
  BY ContainerStep
<1>2. job \in [Procs -> Job] /\ \A q \in Procs : JobOK(job[q])
  BY DEF IInv, TypeOK
<1>3. TypeOK'
  BY <1>1, <1>2 DEF IInv, TypeOK, Exists
<1>4. ASSUME NEW q \in Procs PROVE JobOK(job[q])'
  <2>1. CASE q = p
    <3>1. job'[q] = j
      BY <1>2, <2>1
    <3> QED
      BY <3>1 DEF JobOK
  <2>2. CASE q # p
    <3>1. job'[q] = job[q] /\ job[q] \in Job
      BY <1>2, <2>2
    <3>2. PICK i \in Job : i = job[q]
      BY <3>1
    <3>3. JobOK(i)'
      BY <1>1, <1>2, <3>2
    <3> QED
      BY <3>1, <3>2, <3>3 DEF JobOK
  <2> QED
    BY <2>1, <2>2
<1> QED
  BY <1>1, <1>3, <1>4 DEF IInv

(* The same for a step that leaves the containers alone. *)
LEMMA JobStep ==
  ASSUME IInv, NEW p \in Procs, NEW j \in Job, JobOK(j),
         job' = [job EXCEPT ![p] = j],
         overlay' \in [Ids -> [exp : Nat, ttl : Nat]],
         UNCHANGED <<containers, now, nextInc, expired, dropping>>
  PROVE  IInv'
<1>1. \A id \in Ids : Evolves(containers[id], containers'[id])
  BY DEF IInv, HistoryOK, Evolves
<1>2. JobOK(j)'
  BY DEF JobOK, Ran
<1>3. containers' \in [Ids -> Container]
  BY DEF IInv, TypeOK
<1> QED
  BY <1>1, <1>2, <1>3, RequestStep

(* Answering a request forgets what it remembered. *)
LEMMA RespondStep ==
  ASSUME IInv, NEW p \in Procs, Respond(p),
         containers' \in [Ids -> Container],
         \A id \in Ids : \/ containers'[id] = NoContainer
                         \/ Evolves(containers[id], containers'[id]),
         overlay' \in [Ids -> [exp : Nat, ttl : Nat]],
         UNCHANGED <<now, nextInc, expired, dropping>>
  PROVE  IInv'
<1>1. JobOK(IdleJob)'
  BY DEF JobOK, IdleJob, IInv, TypeOK
<1> QED
  BY <1>1, Defaults, RequestStep DEF Respond

(* Answering without having touched a container. *)
LEMMA RespondOnly ==
  ASSUME IInv, NEW p \in Procs, Respond(p),
         overlay' \in [Ids -> [exp : Nat, ttl : Nat]],
         UNCHANGED <<containers, now, nextInc, expired, dropping>>
  PROVE  IInv'
<1>1. JobOK(IdleJob)
  BY DEF JobOK, IdleJob, IInv, TypeOK
<1> QED
  BY <1>1, Defaults, JobStep DEF Respond

(* A step between two program counters that promise the same. *)
LEMMA GotoOK ==
  ASSUME IInv, NEW p \in Procs, NEW where \in PCs \ {"create", "start", "probe"},
         where \in {"egress", "wait"} => job[p].pc \in {"start", "egress"}
  PROVE  /\ [job[p] EXCEPT !.pc = where] \in Job
         /\ JobOK([job[p] EXCEPT !.pc = where])
<1>1. job[p] \in Job /\ JobOK(job[p])
  BY DEF IInv, TypeOK
<1> QED
  BY <1>1 DEF JobOK, Job

(* Claiming an id without a port, or without having been able to ask. *)
LEMMA ClaimStep ==
  ASSUME IInv, NEW p \in Procs, NEW id \in Ids, NEW failed \in BOOLEAN,
         Claim(p, id, failed), failed \/ ~GetNodePort(id),
         UNCHANGED <<containers, overlay, now, nextInc, expired, dropping>>
  PROVE  IInv'
<1> DEFINE j == [job[p] EXCEPT !.pc = "create", !.id = id, !.blind = failed,
                               !.exp = expiresAtFromTTL(now, job[p].ttl)]
<1>1. job[p] \in Job /\ JobOK(job[p]) /\ now \in Nat
  BY DEF IInv, TypeOK
<1>2. expiresAtFromTTL(now, job[p].ttl) \in Nat
  BY <1>1, ExpiryType DEF Job
<1>3. j \in Job
  BY <1>1, <1>2 DEF Job
<1>4. /\ j.pc = "create" /\ j.id = id /\ j.blind = failed
      /\ j.got = job[p].got /\ j.seen = job[p].seen
  BY <1>1 DEF Job
<1>5. (~failed /\ containers[id].inc \in job[p].seen) => containers[id].stopped
  BY <1>1 DEF JobOK, Ran, GetNodePort, IInv, HistoryOK, TypeOK, Container
<1>6. JobOK(j)
  BY <1>1, <1>4, <1>5 DEF JobOK
<1>7. overlay' \in [Ids -> [exp : Nat, ttl : Nat]]
  BY DEF IInv, TypeOK
<1> QED
  BY <1>3, <1>6, <1>7, JobStep DEF Claim, Become

----------------------------------------------------------------------------
(* One lemma per action. *)

LEMMA BeginCreateInv ==
  ASSUME IInv, NEW p \in Procs, NEW id \in Ids, NEW ttl \in TTLs,
         NEW reuse \in BOOLEAN, BeginCreate(p, id, ttl, reuse)
  PROVE  IInv'
<1> DEFINE held == {containers[i].inc : i \in {k \in Ids : containers[k].holders > 0}}
           j == [IdleJob EXCEPT !.pc = "check", !.id = id, !.ttl = ttl,
                                !.reuse = reuse, !.seen = held]
<1>1. \A n \in held : n \in Nat /\ n # 0 /\ n < nextInc
  BY DEF IInv, TypeOK, IncsOK, HistoryOK, Ran, Exists, Container
<1>2. \A i \in Ids : containers[i].inc \in held => Ran(containers[i])
  BY DEF IInv, TypeOK, IncsOK, HistoryOK, Ran, Exists, Container
<1>3. /\ j \in Job /\ j.pc = "check" /\ j.got = 0 /\ j.seen = held
  BY <1>1, Defaults, TTLAssumption DEF Job, IdleJob
<1>4. JobOK(j)
  BY <1>1, <1>2, <1>3 DEF JobOK, IInv, TypeOK
<1>5. overlay' \in [Ids -> [exp : Nat, ttl : Nat]]
  BY DEF IInv, TypeOK, BeginCreate
<1> QED
  BY <1>3, <1>4, <1>5, JobStep DEF BeginCreate, Become

LEMMA CheckCollisionInv ==
  ASSUME IInv, NEW p \in Procs, CheckCollision(p)
  PROVE  IInv'
<1>1. job[p].id \in Ids /\ overlay' \in [Ids -> [exp : Nat, ttl : Nat]]
  BY DEF IInv, TypeOK, Job, CheckCollision
<1>2. CASE Respond(p)
  BY <1>1, <1>2, RespondOnly DEF CheckCollision
<1>3. CASE Goto(p, "alloc")
  BY <1>1, <1>3, GotoOK, JobStep DEF Goto, CheckCollision
<1>4. CASE ~GetNodePort(job[p].id) /\ Claim(p, job[p].id, FALSE)
  BY <1>1, <1>4, ClaimStep DEF CheckCollision
<1>5. CASE Claim(p, job[p].id, TRUE)
  BY <1>1, <1>5, ClaimStep DEF CheckCollision
<1> QED
  BY <1>2, <1>3, <1>4, <1>5 DEF CheckCollision

LEMMA allocFreshSandboxIDInv ==
  ASSUME IInv, NEW p \in Procs, allocFreshSandboxID(p)
  PROVE  IInv'
<1>1. overlay' \in [Ids -> [exp : Nat, ttl : Nat]]
  BY DEF IInv, TypeOK, allocFreshSandboxID
<1>2. CASE Respond(p)
  BY <1>1, <1>2, RespondOnly DEF allocFreshSandboxID
<1>3. ASSUME NEW id \in FreshIds, ~GetNodePort(id), Claim(p, id, FALSE) PROVE IInv'
  BY <1>3, ClaimStep DEF allocFreshSandboxID
<1>4. ASSUME NEW id \in FreshIds, Claim(p, id, TRUE) PROVE IInv'
  BY <1>4, ClaimStep DEF allocFreshSandboxID
<1> QED
  BY <1>2, <1>3, <1>4 DEF allocFreshSandboxID

(* The new container's identity is one no request remembers. *)
LEMMA ContainerCreateInv ==
  ASSUME IInv, NEW p \in Procs, ContainerCreate(p)
  PROVE  IInv'
<1> DEFINE id == job[p].id
           c == NewContainer(nextInc, job[p].exp, job[p].ttl)
           jstart == [job[p] EXCEPT !.pc = "start", !.mine = nextInc, !.ttl = 0, !.exp = 0]
           jwait == [job[p] EXCEPT !.pc = "wait", !.ttl = 0, !.exp = 0]
<1>1. /\ job[p].pc = "create" /\ job[p] \in Job /\ JobOK(job[p])
      /\ id \in Ids /\ job \in [Procs -> Job] /\ nextInc \in Nat \ {0}
      /\ overlay' \in [Ids -> [exp : Nat, ttl : Nat]]
  BY DEF IInv, TypeOK, Job, ContainerCreate
<1>2. CASE Respond(p) /\ UNCHANGED <<containers, nextInc>>
  BY <1>1, <1>2, RespondOnly DEF ContainerCreate
<1>3. CASE Become(p, jwait) /\ UNCHANGED <<containers, nextInc>>
  <2>1. jwait \in Job /\ JobOK(jwait)
    BY <1>1 DEF Job, JobOK
  <2> QED
    BY <1>1, <1>3, <2>1, JobStep DEF ContainerCreate, Become
<1>4. ASSUME ~Exists(id), containers' = [containers EXCEPT ![id] = c],
             nextInc' = nextInc + 1, Become(p, jstart) \/ Respond(p)
      PROVE  IInv'
  <2>1. /\ c \in Container /\ c.inc = nextInc /\ c.state = "created"
        /\ c.holders = 0
    <3>1. job[p].exp \in Nat /\ job[p].ttl \in Nat
      BY <1>1 DEF Job
    <3> QED
      BY <1>1, <3>1 DEF Container, NewContainer
  <2>2. /\ containers' \in [Ids -> Container] /\ containers'[id] = c
        /\ \A i \in Ids \ {id} : containers'[i] = containers[i]
    BY <1>1, <1>4, <2>1 DEF IInv, TypeOK
  <2> HIDE DEF c
  <2>3. PICK j : j \in {jstart, IdleJob} /\ job' = [job EXCEPT ![p] = j]
    BY <1>4 DEF Become, Respond
  <2>4. j \in Job /\ j.pc \in {"start", "idle"} /\ j.seen \in {job[p].seen, {}}
        /\ j.got \in {job[p].got, 0} /\ (j.pc = "start" => j.mine = nextInc)
        /\ (j.pc = "start" => j.id = id /\ j.blind = job[p].blind)
    <3>1. CASE j = jstart
      BY <1>1, <3>1 DEF Job
    <3>2. CASE j = IdleJob
      BY <3>2, Defaults DEF IdleJob
    <3> QED
      BY <2>3, <3>1, <3>2
  <2>5. TypeOK'
    <3>1. job' \in [Procs -> Job]
      BY <1>1, <2>3, <2>4
    <3>2. \A i \in Ids : containers'[i].inc = 0 <=> containers'[i].state = "absent"
      BY <1>1, <2>1, <2>2 DEF IInv, TypeOK, Exists
    <3>3. nextInc' \in Nat \ {0} /\ now' \in Nat
      BY <1>1, <1>4 DEF IInv, TypeOK, ContainerCreate
    <3> QED
      BY <1>1, <2>2, <3>1, <3>2, <3>3 DEF IInv, TypeOK, Exists, ContainerCreate
  <2>6. IncsOK' /\ HistoryOK'
    BY <1>1, <1>4, <2>1, <2>2 DEF IInv, TypeOK, IncsOK, HistoryOK, Exists, Ran, Container
  <2>7. ASSUME NEW i \in Job, JobOK(i) PROVE JobOK(i)'
    <3>1. i.got \in Nat /\ i.got < nextInc /\ \A n \in i.seen : n \in Nat /\ n < nextInc
      BY <2>7 DEF Job, JobOK
    <3>2. \A k \in Ids : containers'[k].inc \in i.seen
                           => k # id /\ containers'[k] = containers[k]
      BY <1>1, <2>1, <2>2, <3>1
    <3>3. \A k \in Ids : containers'[k].inc = i.got
                           => k # id /\ containers'[k] = containers[k]
      BY <1>1, <2>1, <2>2, <3>1
    <3>4. nextInc < nextInc' /\ nextInc' \in Nat /\ i.got \in Nat /\ i.id \in Ids
      BY <1>1, <1>4 DEF Job
    <3> QED
      BY <1>1, <2>7, <3>1, <3>2, <3>3, <3>4 DEF JobOK, Ran
  <2>8. JobOK(job[p])'
    <3>1. PICK i \in Job : i = job[p]
      BY <1>1
    <3>2. JobOK(i)' /\ i.pc = "create"
      BY <1>1, <2>7, <3>1
    <3>3. job'[p] = j /\ nextInc' \in Nat /\ 0 < nextInc'
      BY <1>1, <1>4, <2>3
    <3>4. JobOK(j)'
      BY <1>1, <2>4, <3>1, <3>2, <3>3 DEF JobOK
    <3> QED
      BY <3>3, <3>4 DEF JobOK
  <2>9. ASSUME NEW q \in Procs PROVE JobOK(job[q])'
    <3>1. CASE q = p
      BY <2>8, <3>1
    <3>2. CASE q # p
      <4>1. job'[q] = job[q] /\ job[q] \in Job /\ JobOK(job[q])
        BY <1>1, <2>3, <3>2 DEF IInv
      <4>2. PICK i \in Job : i = job[q]
        BY <4>1
      <4> QED
        BY <2>7, <4>1, <4>2 DEF JobOK
    <3> QED
      BY <3>1, <3>2
  <2> QED
    BY <2>5, <2>6, <2>9 DEF IInv
<1> QED
  BY <1>2, <1>3, <1>4 DEF ContainerCreate

(* Removing its own container, or nothing, and answering. *)
LEMMA RollbackInv ==
  ASSUME IInv, NEW p \in Procs, RollbackCreate(p),
         UNCHANGED <<overlay, now, nextInc, expired, dropping>>
  PROVE  IInv'
<1>1. \A id \in Ids : Evolves(containers[id], containers[id])
  BY DEF IInv, HistoryOK, Evolves
<1>2. /\ containers' \in [Ids -> Container]
      /\ \A id \in Ids : containers'[id] = NoContainer \/ containers'[id] = containers[id]
  BY Defaults DEF RollbackCreate, RemoveMine, IInv, TypeOK
<1>3. overlay' \in [Ids -> [exp : Nat, ttl : Nat]]
  BY DEF IInv, TypeOK
<1> QED
  BY <1>1, <1>2, <1>3, RespondStep DEF RollbackCreate

LEMMA ContainerStartInv ==
  ASSUME IInv, NEW p \in Procs, ContainerStart(p)
  PROVE  IInv'
<1> DEFINE id == job[p].id
           j == [job[p] EXCEPT !.pc = "egress"]
<1>1. CASE RollbackCreate(p)
  BY <1>1, RollbackInv DEF ContainerStart
<1>2. ASSUME containers[id].inc = job[p].mine,
             containers' = [containers EXCEPT ![id].state = "running"],
             Goto(p, "egress") \/ Respond(p)
      PROVE  IInv'
  <2>1. /\ job[p].pc = "start" /\ job[p] \in Job /\ JobOK(job[p]) /\ id \in Ids
        /\ nextInc \in Nat /\ containers[id] \in Container /\ containers[id].inc # 0
        /\ overlay' \in [Ids -> [exp : Nat, ttl : Nat]]
    BY <1>2 DEF IInv, TypeOK, Job, JobOK, ContainerStart
  <2>2. /\ containers' \in [Ids -> Container]
        /\ containers'[id] = [containers[id] EXCEPT !.state = "running"]
        /\ \A i \in Ids \ {id} : containers'[i] = containers[i]
    BY <1>2, <2>1 DEF IInv, TypeOK, Container
  <2>3. ASSUME NEW i \in Ids PROVE Evolves(containers[i], containers'[i])
    <3>1. CASE i = id
      BY <2>1, <2>2, <3>1 DEF IInv, TypeOK, Exists, HistoryOK, Evolves, Ran, Container
    <3>2. CASE i # id
      BY <2>2, <3>2 DEF IInv, HistoryOK, Evolves
    <3> QED
      BY <3>1, <3>2
  <2>4. CASE Respond(p)
    BY <2>1, <2>2, <2>3, <2>4, RespondStep DEF ContainerStart
  <2>5. CASE Goto(p, "egress")
    <3>1. j \in Job /\ JobOK(j)
      BY <2>1, GotoOK
    <3>2. nextInc' = nextInc
      BY DEF ContainerStart
    <3>3. PICK i \in Job : i = j
      BY <3>1
    <3>4. JobOK(i)'
      BY <2>2, <2>3, <3>1, <3>2, <3>3, ContainerStep
    <3>5. job' = [job EXCEPT ![p] = i]
      BY <2>5, <3>3 DEF Goto
    <3> QED
      BY <2>1, <2>2, <2>3, <3>4, <3>5, RequestStep DEF ContainerStart
  <2> QED
    BY <1>2, <2>4, <2>5
<1> QED
  BY <1>1, <1>2 DEF ContainerStart

LEMMA ApplyEgressInv ==
  ASSUME IInv, NEW p \in Procs, ApplyEgress(p)
  PROVE  IInv'
<1>1. CASE RollbackCreate(p)
  BY <1>1, RollbackInv DEF ApplyEgress
<1>2. CASE Goto(p, "wait") /\ UNCHANGED containers
  <2>1. overlay' \in [Ids -> [exp : Nat, ttl : Nat]] /\ job[p].pc = "egress"
    BY DEF IInv, TypeOK, ApplyEgress
  <2> QED
    BY <1>2, <2>1, GotoOK, JobStep DEF Goto, ApplyEgress
<1> QED
  BY <1>1, <1>2 DEF ApplyEgress

LEMMA WaitNodePortInv ==
  ASSUME IInv, NEW p \in Procs, WaitNodePort(p)
  PROVE  IInv'
<1> DEFINE id == job[p].id
           j == [job[p] EXCEPT !.pc = "probe", !.got = containers[id].inc]
<1>1. /\ job[p].pc = "wait" /\ job[p] \in Job /\ JobOK(job[p]) /\ id \in Ids
      /\ overlay' \in [Ids -> [exp : Nat, ttl : Nat]]
  BY DEF IInv, TypeOK, Job, WaitNodePort
<1>2. CASE Respond(p)
  BY <1>1, <1>2, RespondOnly DEF WaitNodePort
<1>3. CASE GetNodePort(id) /\ Become(p, j)
  <2>1. /\ containers[id].inc \in Nat /\ containers[id].inc # 0
        /\ containers[id].inc < nextInc /\ Ran(containers[id])
        /\ \A i \in Ids : containers[i].inc = containers[id].inc => i = id
    BY <1>1, <1>3 DEF GetNodePort, IInv, TypeOK, IncsOK, Exists, Ran, Container
  <2>2. /\ j \in Job /\ j.pc = "probe" /\ j.got = containers[id].inc
        /\ j.seen = job[p].seen /\ j.blind = job[p].blind /\ j.id = id
    BY <1>1, <2>1 DEF Job
  <2>3. JobOK(j)
    BY <1>1, <2>1, <2>2 DEF JobOK
  <2> QED
    BY <1>1, <1>3, <2>2, <2>3, JobStep DEF Become, WaitNodePort
<1> QED
  BY <1>2, <1>3 DEF WaitNodePort

LEMMA AnswerCreateInv ==
  ASSUME IInv, NEW p \in Procs, AnswerCreate(p)
  PROVE  IInv'
<1> DEFINE id == job[p].id
           h == IF job[p].reuse \/ containers[id].holders = 2
                THEN containers[id].holders ELSE containers[id].holders + 1
<1>1. /\ job[p].pc = "probe" /\ job[p] \in Job /\ JobOK(job[p]) /\ id \in Ids
      /\ containers[id] \in Container
      /\ overlay' \in [Ids -> [exp : Nat, ttl : Nat]]
  BY DEF IInv, TypeOK, Job, AnswerCreate
<1>2. CASE UNCHANGED containers
  BY <1>1, <1>2, RespondOnly DEF AnswerCreate
<1>3. CASE /\ containers[id].inc = job[p].got
           /\ containers' = [containers EXCEPT ![id].holders = h]
  <2>1. Ran(containers[id]) /\ h \in 0..2
    BY <1>1, <1>3 DEF JobOK, Container
  <2>2. /\ containers' \in [Ids -> Container]
        /\ containers'[id] = [containers[id] EXCEPT !.holders = h]
        /\ \A i \in Ids \ {id} : containers'[i] = containers[i]
    BY <1>1, <1>3, <2>1 DEF IInv, TypeOK, Container
  <2>3. ASSUME NEW i \in Ids PROVE Evolves(containers[i], containers'[i])
    <3>1. CASE i = id
      BY <1>1, <2>1, <2>2, <3>1 DEF IInv, HistoryOK, Evolves, Ran, Container
    <3>2. CASE i # id
      BY <2>2, <3>2 DEF IInv, HistoryOK, Evolves
    <3> QED
      BY <3>1, <3>2
  <2> QED
    BY <1>1, <2>2, <2>3, RespondStep DEF AnswerCreate
<1> QED
  BY <1>2, <1>3 DEF AnswerCreate

LEMMA BeginDeleteInv ==
  ASSUME IInv, NEW p \in Procs, NEW id \in Ids, BeginDelete(p, id)
  PROVE  IInv'
<1>1. PICK pc \in {"phase", "remove"} : Become(p, [IdleJob EXCEPT !.pc = pc, !.id = id])
  BY DEF BeginDelete
<1> DEFINE j == [IdleJob EXCEPT !.pc = pc, !.id = id]
<1>2. j \in Job /\ JobOK(j)
  <2>1. j \in Job
    BY Defaults DEF Job
  <2>2. j.pc = pc /\ j.got = 0 /\ j.seen = {}
    BY DEF IdleJob
  <2> QED
    BY <1>1, <2>1, <2>2 DEF JobOK, IInv, TypeOK
<1>3. overlay' \in [Ids -> [exp : Nat, ttl : Nat]]
  BY DEF IInv, TypeOK, BeginDelete
<1> QED
  BY <1>1, <1>2, <1>3, JobStep DEF BeginDelete, Become

LEMMA EvictPhaseInv ==
  ASSUME IInv, NEW p \in Procs, EvictPhase(p)
  PROVE  IInv'
<1>1. overlay' \in [Ids -> [exp : Nat, ttl : Nat]]
  BY DEF IInv, TypeOK, EvictPhase
<1>2. CASE Respond(p)
  BY <1>1, <1>2, RespondOnly DEF EvictPhase
<1>3. CASE Goto(p, "remove")
  BY <1>1, <1>3, GotoOK, JobStep DEF Goto, EvictPhase
<1> QED
  BY <1>2, <1>3 DEF EvictPhase

LEMMA DeletePodRemoveInv ==
  ASSUME IInv, NEW p \in Procs, DeletePodRemove(p)
  PROVE  IInv'
<1>1. overlay' \in [Ids -> [exp : Nat, ttl : Nat]]
  BY DEF IInv, TypeOK, DeletePodRemove
<1>2. CASE UNCHANGED containers /\ Respond(p)
  BY <1>1, <1>2, RespondOnly DEF DeletePodRemove
<1>3. ASSUME containers' = [containers EXCEPT ![job[p].id] = NoContainer],
             Goto(p, "drop") \/ Respond(p)
      PROVE  IInv'
  <2>1. \A i \in Ids : Evolves(containers[i], containers[i])
    BY DEF IInv, HistoryOK, Evolves
  <2>2. /\ containers' \in [Ids -> Container]
        /\ \A i \in Ids : containers'[i] = NoContainer \/ containers'[i] = containers[i]
    BY <1>3, Defaults DEF IInv, TypeOK
  <2>3. CASE Respond(p)
    BY <1>1, <2>1, <2>2, <2>3, RespondStep DEF DeletePodRemove
  <2>4. CASE Goto(p, "drop")
    <3> DEFINE j == [job[p] EXCEPT !.pc = "drop"]
    <3>1. j \in Job /\ JobOK(j)
      BY GotoOK
    <3>2. PICK i \in Job : i = j
      BY <3>1
    <3>3. JobOK(i)'
      BY <2>1, <2>2, <3>1, <3>2, ContainerStep DEF DeletePodRemove
    <3>4. job' = [job EXCEPT ![p] = i]
      BY <2>4, <3>2 DEF Goto
    <3> QED
      BY <1>1, <2>1, <2>2, <3>3, <3>4, RequestStep DEF DeletePodRemove
  <2> QED
    BY <1>3, <2>3, <2>4
<1> QED
  BY <1>2, <1>3 DEF DeletePodRemove

LEMMA dropOverlayInv ==
  ASSUME IInv, NEW p \in Procs, dropOverlay(p)
  PROVE  IInv'
<1>1. overlay' \in [Ids -> [exp : Nat, ttl : Nat]]
  BY Defaults DEF IInv, TypeOK, dropOverlay
<1> QED
  BY <1>1, RespondOnly DEF dropOverlay

LEMMA BeginRenewInv ==
  ASSUME IInv, NEW p \in Procs, NEW id \in Ids, NEW ttl \in TTLs, BeginRenew(p, id, ttl)
  PROVE  IInv'
<1> DEFINE j == [IdleJob EXCEPT !.pc = "annots", !.id = id, !.ttl = ttl]
<1>1. j \in Job /\ JobOK(j)
  <2>1. j \in Job
    BY Defaults, TTLAssumption DEF Job
  <2>2. j.pc = "annots" /\ j.got = 0 /\ j.seen = {}
    BY DEF IdleJob
  <2> QED
    BY <2>1, <2>2 DEF JobOK, IInv, TypeOK
<1>2. overlay' \in [Ids -> [exp : Nat, ttl : Nat]]
  BY DEF IInv, TypeOK, BeginRenew
<1> QED
  BY <1>1, <1>2, JobStep DEF BeginRenew, Become

LEMMA RenewReadInv ==
  ASSUME IInv, NEW p \in Procs, RenewRead(p)
  PROVE  IInv'
<1> DEFINE id == job[p].id
           ttl == IF job[p].ttl # 0 THEN job[p].ttl ELSE GetPodAnnotationsTTL(id)
           j == [job[p] EXCEPT !.pc = "set", !.ttl = ttl, !.got = containers[id].inc]
<1>1. /\ overlay' \in [Ids -> [exp : Nat, ttl : Nat]]
      /\ job[p] \in Job /\ JobOK(job[p]) /\ id \in Ids
      /\ containers[id].inc \in Nat /\ containers[id].inc < nextInc
  BY DEF IInv, TypeOK, IncsOK, Job, Container, RenewRead
<1>2. CASE Respond(p)
  BY <1>1, <1>2, RespondOnly DEF RenewRead
<1>3. CASE Become(p, j)
  <2>1. ttl \in Nat
    BY <1>1 DEF IInv, TypeOK, Job, Container, GetPodAnnotationsTTL
  <2> HIDE DEF ttl
  <2>2. j \in Job /\ j.pc = "set" /\ j.got = containers[id].inc /\ j.seen = job[p].seen
    BY <1>1, <2>1 DEF Job
  <2>3. JobOK(j)
    BY <1>1, <2>2 DEF JobOK
  <2> QED
    BY <1>1, <1>3, <2>2, <2>3, JobStep DEF RenewRead, Become
<1> QED
  BY <1>2, <1>3 DEF RenewRead

LEMMA SetPodAnnotationsInv ==
  ASSUME IInv, NEW p \in Procs, SetPodAnnotations(p)
  PROVE  IInv'
<1> DEFINE id == job[p].id
           r == (containers[id].renewed \/ containers[id].inc = job[p].got)
<1>1. job[p] \in Job /\ id \in Ids /\ now \in Nat /\ containers[id] \in Container
  BY DEF IInv, TypeOK, Job
<1>2. expiresAtFromTTL(now, job[p].ttl) \in Nat /\ job[p].ttl \in Nat
  BY <1>1, ExpiryType DEF Job
<1>3. overlay' \in [Ids -> [exp : Nat, ttl : Nat]]
  BY <1>2 DEF IInv, TypeOK, SetPodAnnotations
<1>4. r \in BOOLEAN
  BY <1>1
<1>5. containers' = [containers EXCEPT ![id] = [containers[id] EXCEPT !.renewed = r]]
  BY <1>1 DEF IInv, TypeOK, SetPodAnnotations
<1> HIDE DEF r
<1>6. [containers[id] EXCEPT !.renewed = r] \in Container
  BY <1>1, <1>4 DEF Container
<1>7. /\ containers' \in [Ids -> Container]
      /\ containers'[id] = [containers[id] EXCEPT !.renewed = r]
      /\ \A i \in Ids \ {id} : containers'[i] = containers[i]
  BY <1>1, <1>5, <1>6 DEF IInv, TypeOK
<1>8. ASSUME NEW i \in Ids PROVE Evolves(containers[i], containers'[i])
  <2>1. CASE i = id
    BY <1>1, <1>7, <2>1 DEF IInv, HistoryOK, Evolves, Ran, Container
  <2>2. CASE i # id
    BY <1>7, <2>2 DEF IInv, HistoryOK, Evolves
  <2> QED
    BY <2>1, <2>2
<1> QED
  BY <1>3, <1>7, <1>8, RespondStep DEF SetPodAnnotations

(* Steps that no request takes part in. *)
LEMMA BackgroundStep ==
  ASSUME IInv, job' = job, nextInc' = nextInc, now' \in Nat,
         containers' \in [Ids -> Container],
         \A id \in Ids : \/ containers'[id] = NoContainer
                         \/ Evolves(containers[id], containers'[id]),
         overlay' \in [Ids -> [exp : Nat, ttl : Nat]],
         expired' \subseteq Ids, dropping' \subseteq Ids, expired' \cap dropping' = {}
  PROVE  IInv'
<1>1. /\ IncsOK' /\ HistoryOK'
      /\ \A id \in Ids : containers'[id].inc = 0 <=> containers'[id].state = "absent"
      /\ \A i \in Job : JobOK(i) => JobOK(i)'
  BY ContainerStep
<1>2. ASSUME NEW q \in Procs PROVE JobOK(job[q])'
  <2>1. job[q] \in Job /\ JobOK(job[q])
    BY DEF IInv, TypeOK
  <2>2. PICK i \in Job : i = job[q]
    BY <2>1
  <2> QED
    BY <1>1, <2>1, <2>2 DEF JobOK
<1>3. TypeOK'
  BY <1>1 DEF IInv, TypeOK, Exists
<1> QED
  BY <1>1, <1>2, <1>3 DEF IInv

LEMMA ReapInv ==
  ASSUME IInv, Reap
  PROVE  IInv'
<1>1. \A i \in Ids : Evolves(containers[i], containers[i])
  BY DEF IInv, HistoryOK, Evolves
<1>2. CASE sweep
  BY <1>1, <1>2, BackgroundStep DEF sweep, IInv, TypeOK
<1>3. ASSUME NEW id \in Ids, ReapRemove(id) PROVE IInv'
  <2>1. /\ containers' \in [Ids -> Container]
        /\ \A i \in Ids : containers'[i] = NoContainer \/ containers'[i] = containers[i]
    BY <1>3, Defaults DEF ReapRemove, IInv, TypeOK
  <2>2. expired' \subseteq Ids /\ dropping' \subseteq Ids /\ expired' \cap dropping' = {}
    BY <1>3 DEF ReapRemove, IInv, TypeOK
  <2> QED
    BY <1>1, <1>3, <2>1, <2>2, BackgroundStep DEF ReapRemove, IInv, TypeOK
<1>4. ASSUME NEW id \in Ids, ReapError(id) PROVE IInv'
  BY <1>1, <1>4, BackgroundStep DEF ReapError, IInv, TypeOK
<1>5. ASSUME NEW id \in Ids, ReapDrop(id) PROVE IInv'
  BY <1>1, <1>5, Defaults, BackgroundStep DEF ReapDrop, IInv, TypeOK
<1> QED
  BY <1>2, <1>3, <1>4, <1>5 DEF Reap

LEMMA EnvironmentInv ==
  ASSUME IInv, Environment
  PROVE  IInv'
<1>1. \A i \in Ids : Evolves(containers[i], containers[i])
  BY DEF IInv, HistoryOK, Evolves
<1>2. CASE Tick
  BY <1>1, <1>2, BackgroundStep DEF Tick, IInv, TypeOK
<1>3. CASE Crash
  <2>1. JobOK(IdleJob)'
    BY <1>3 DEF Crash, JobOK, IdleJob, IInv, TypeOK
  <2>2. \A q \in Procs : job'[q] = IdleJob
    BY <1>3 DEF Crash
  <2>3. \A q \in Procs : JobOK(job[q])'
    BY <2>1, <2>2 DEF JobOK
  <2>4. TypeOK' /\ IncsOK' /\ HistoryOK'
    BY <1>3, Defaults DEF Crash, IInv, TypeOK, IncsOK, HistoryOK, Exists, Ran
  <2> QED
    BY <2>3, <2>4 DEF IInv
<1>4. ASSUME NEW id \in Ids, NEW s \in {"running", "restarting", "exited"},
             NEW st \in BOOLEAN, Ran(containers[id]),
             st = containers[id].stopped \/ st, s # "running" => st,
             containers' = [containers EXCEPT ![id] = [@ EXCEPT !.state = s, !.stopped = st]],
             containers[id].stopped => st,
             UNCHANGED <<overlay, now, nextInc, job, expired, dropping>>
      PROVE  IInv'
  <2>1. containers[id] \in Container
    BY DEF IInv, TypeOK
  <2>2. /\ containers' \in [Ids -> Container]
        /\ containers'[id] = [containers[id] EXCEPT !.state = s, !.stopped = st]
        /\ \A i \in Ids \ {id} : containers'[i] = containers[i]
    BY <1>4, <2>1 DEF IInv, TypeOK, Container
  <2>3. Evolves(containers[id], containers'[id])
    BY <1>4, <2>1, <2>2 DEF Evolves, Ran, Container
  <2>4. \A i \in Ids : Evolves(containers[i], containers'[i])
    BY <1>1, <2>2, <2>3
  <2> QED
    BY <1>4, <2>2, <2>4, BackgroundStep DEF IInv, TypeOK
<1>5. ASSUME NEW id \in Ids, ContainerExit(id) PROVE IInv'
  <2>1. PICK s \in {"restarting", "exited"} :
          containers' = [containers EXCEPT ![id].state = s, ![id].stopped = TRUE]
    BY <1>5 DEF ContainerExit
  <2>2. containers' = [containers EXCEPT ![id] = [@ EXCEPT !.state = s, !.stopped = TRUE]]
    BY <2>1 DEF IInv, TypeOK, Container
  <2> QED
    BY <1>4, <1>5, <2>2 DEF ContainerExit, Ran
<1>6. ASSUME NEW id \in Ids, ContainerRestart(id) PROVE IInv'
  <2>1. containers[id] \in Container
    BY DEF IInv, TypeOK
  <2>2. containers' = [containers EXCEPT ![id] =
                         [@ EXCEPT !.state = "running", !.stopped = containers[id].stopped]]
    BY <1>6, <2>1 DEF ContainerRestart, IInv, TypeOK, Container
  <2>3. containers[id].stopped \in BOOLEAN
    BY <2>1 DEF Container
  <2> QED
    BY <1>4, <1>6, <2>2, <2>3 DEF ContainerRestart, Ran
<1> QED
  BY <1>2, <1>3, <1>5, <1>6 DEF Environment

(* The invariant is preserved by every step. *)
LEMMA NextIInv == IInv /\ [Next]_vars => IInv'
<1> SUFFICES ASSUME IInv, [Next]_vars PROVE IInv'
  OBVIOUS
<1>1. CASE UNCHANGED vars
  BY <1>1 DEF vars, IInv, TypeOK, IncsOK, HistoryOK, JobOK, Exists, Ran
<1>2. CASE Reap
  BY <1>2, ReapInv
<1>3. CASE Environment
  BY <1>3, EnvironmentInv
<1>4. ASSUME NEW p \in Procs, Begin(p) PROVE IInv'
  BY <1>4, BeginCreateInv, BeginDeleteInv, BeginRenewInv DEF Begin
<1>5. ASSUME NEW p \in Procs, Handle(p) PROVE IInv'
  BY <1>5, CheckCollisionInv, allocFreshSandboxIDInv, ContainerCreateInv,
     ContainerStartInv, ApplyEgressInv, WaitNodePortInv, AnswerCreateInv,
     EvictPhaseInv, DeletePodRemoveInv, dropOverlayInv, RenewReadInv,
     SetPodAnnotationsInv DEF Handle
<1> QED
  BY <1>1, <1>2, <1>3, <1>4, <1>5 DEF Next

(* Every reachable state satisfies the invariant, for every number of      *)
(* clients, ids and containers (handleCreate, Reaper, DockerBackend).      *)
THEOREM Invariance == Spec => []IInv
  BY InitIInv, NextIInv, PTL DEF Spec

(* Values are well formed and the reaper never deletes one sandbox twice   *)
(* at the same time.                                                       *)
THEOREM TypeCorrectness == Spec => []TypeOK
<1>1. IInv => TypeOK
  BY DEF IInv
<1> QED
  BY <1>1, Invariance, PTL

(* A create is never given a sandbox that had been handed out before the   *)
(* request came in and kept running, unless its own collision check failed.*)
THEOREM Isolation == Spec => []CreateIsolation
<1>1. IInv => CreateIsolation
  BY DEF IInv, JobOK, CreateIsolation
<1> QED
  BY <1>1, Invariance, PTL

(* A failed create removes at most the container it made. *)
THEOREM Rollback == Spec => RollbackOwn
<1> DEFINE Own == \A p \in Procs :
       (job[p].pc \in {"start", "egress"} /\ job'[p].pc = "idle")
         => \A id \in Ids : containers[id].inc # job[p].mine
                             => (Exists(id) => containers'[id].state # "absent")
<1>1. IInv /\ [Next]_vars => [Own]_vars
  <2> SUFFICES ASSUME IInv, Next, NEW p \in Procs,
                      job[p].pc \in {"start", "egress"}, job'[p].pc = "idle",
                      NEW id \in Ids, containers[id].inc # job[p].mine, Exists(id)
               PROVE  containers'[id].state # "absent"
    OBVIOUS
  <2>1. job \in [Procs -> Job] /\ containers \in [Ids -> Container]
    BY DEF IInv, TypeOK
  <2>2. CASE RollbackCreate(p)
    BY <2>2 DEF RollbackCreate, RemoveMine, Exists
  <2>3. CASE ContainerStart(p) \/ ApplyEgress(p)
    BY <2>1, <2>2, <2>3 DEF ContainerStart, ApplyEgress, Exists, Container
  <2>4. CASE Crash \/ Tick \/ Reap \/ \E i \in Ids : ContainerExit(i) \/ ContainerRestart(i)
    <3>1. CASE Crash
      BY <3>1 DEF Crash, Exists
    <3>2. CASE job' = job
      BY <3>2
    <3> QED
      BY <2>4, <3>1, <3>2 DEF Tick, Reap, sweep, ReapRemove, ReapError, ReapDrop,
         ContainerExit, ContainerRestart
  <2>5. ASSUME NEW q \in Procs, q # p, NEW j, job' = [job EXCEPT ![q] = j] PROVE FALSE
    BY <2>1, <2>5
  <2>6. ASSUME NEW q \in Procs, Begin(q) PROVE FALSE
    <3>1. job[q].pc = "idle"
      BY <2>6 DEF Begin, BeginCreate, BeginDelete, BeginRenew
    <3>2. \E j : job' = [job EXCEPT ![q] = j]
      BY ZenonT(40), <2>6 DEF Begin, BeginCreate, BeginDelete, BeginRenew, Become
    <3> QED
      BY <2>5, <3>1, <3>2
  <2>7. ASSUME NEW q \in Procs, Handle(q), q # p PROVE FALSE
    <3>1. \E j : job' = [job EXCEPT ![q] = j]
      BY ZenonT(40), <2>7 DEF Handle, CheckCollision, allocFreshSandboxID, ContainerCreate,
         ContainerStart, ApplyEgress, WaitNodePort, AnswerCreate, EvictPhase,
         DeletePodRemove, dropOverlay, RenewRead, SetPodAnnotations, RollbackCreate,
         Become, Goto, Respond, Claim
    <3> QED
      BY SMTT(30), <2>5, <2>7, <3>1
  <2>8. ASSUME Handle(p) PROVE ContainerStart(p) \/ ApplyEgress(p)
    BY <2>8 DEF Handle, CheckCollision, allocFreshSandboxID, ContainerCreate,
       WaitNodePort, AnswerCreate, EvictPhase, DeletePodRemove, dropOverlay,
       RenewRead, SetPodAnnotations
  <2> QED
    BY <2>3, <2>4, <2>6, <2>7, <2>8 DEF Next, Environment
<1> QED
  BY <1>1, Invariance, PTL DEF Spec, RollbackOwn-----------------------------------------------------------------------------
(* Builds.  A build that no other of its tag ran beside has the tar file,  *)
(* the directory and the image of its tag to itself, from its tar on; what *)
(* a build has stopped it keeps on its list until it starts it again.      *)

Refs == (Proj \cup {Root}) \X Tag

\* Nothing is stopped yet, and nothing of the source is in a tar file.
NothingStopped == {"idle", "settle", "list", "pause"}
NothingTarred == NothingStopped \cup {"preflight", "buildkit", "tar"}
\* The source is in the context, in the image, and under the authproxy.
Layered == {"check", "cleanup", "resume", "over"}
Built == Layered \cup {"wrap"}
Packed == Built \cup {"railpack"}

LayeredOf(r) == {b \in Build : at[b] \in Layered /\ Ref(b) = r}
LayersCounted == \A r \in Refs : image[r].wraps <= Cardinality(LayeredOf(r))

PausesOK ==
    /\ DevComesBack
    /\ \A b \in Build : at[b] \in NothingStopped => \A p \in Proj : downBy[p] # b

\* Where source is found, it is of a build of that tag which has put it there.
SourcesOK ==
    /\ \A b \in Active, c \in Active : b # c /\ tag[b] = tag[c] => mixed[b]
    /\ \A t \in Tag, b \in Build : tarball[t] = b => tag[b] = t /\ at[b] \notin NothingTarred
    /\ \A t \in Tag : \A b \in ctx[t] : tag[b] = t /\ (mixed[b] \/ at[b] \in Packed)
    /\ \A r \in Refs : \A b \in image[r].src : mixed[b] \/ at[b] \in Built

\* How far a build is that has its tag to itself.
OwnWork(b) ==
    /\ at[b] \in {"ctxdir", "download"} => tarball[tag[b]] = b
    /\ at[b] = "download" => ctx[tag[b]] = {}
    /\ at[b] = "railpack" => ctx[tag[b]] = {b}
    /\ at[b] = "wrap" => image[Ref(b)] = [src |-> {b}, wraps |-> 0]
    /\ at[b] = "check" \/ (at[b] \in {"cleanup", "resume"} /\ result[b] = "ok") =>
          image[Ref(b)] = [src |-> {b}, wraps |-> 1]

BuildInv ==
    /\ BuildTypeOK /\ LayersCounted /\ PausesOK /\ SourcesOK
    /\ \A b \in Build : ~mixed[b] => OwnWork(b)

LEMMA BuildDefaults ==
    /\ NoImage \in Image /\ NoImage.src = {} /\ NoImage.wraps = 0
    /\ \A S \in SUBSET Build : IsFiniteSet(S) /\ Cardinality(S) \in 0..Cardinality(Build)
    /\ \A S, T : S \subseteq T /\ T \subseteq Build => Cardinality(S) <= Cardinality(T)
<1>1. Cardinality(Build) \in Nat
  BY BuildConstants, FS_CardinalityType
<1>2. ASSUME NEW S \in SUBSET Build PROVE IsFiniteSet(S) /\ Cardinality(S) \in 0..Cardinality(Build)
  <2>1. IsFiniteSet(S) /\ Cardinality(S) <= Cardinality(Build)
    BY BuildConstants, FS_Subset
  <2>2. Cardinality(S) \in Nat
    BY <2>1, FS_CardinalityType
  <2> QED
    BY <1>1, <2>1, <2>2
<1>3. ASSUME NEW S, NEW T, S \subseteq T, T \subseteq Build PROVE Cardinality(S) <= Cardinality(T)
  BY <1>2, <1>3, FS_Subset
<1>4. NoImage.src = {} /\ NoImage.wraps = 0
  BY DEF NoImage
<1>5. NoImage \in Image
  BY <1>1 DEF NoImage, Image
<1> QED
  BY <1>2, <1>3, <1>4, <1>5

LEMMA BuildInitInv == BuildInit => BuildInv
<1> SUFFICES ASSUME BuildInit PROVE BuildInv
  OBVIOUS
<1>1. /\ \A b \in Build : at[b] = "idle" /\ paused[b] = {} /\ result[b] = "none" /\ mixed[b] = FALSE
      /\ \A p \in Proj : downBy[p] = "none"
      /\ \A t \in Tag : tarball[t] = NoBuild /\ ctx[t] = {}
      /\ \A r \in Refs : image[r] = NoImage
  BY DEF BuildInit, Refs
<1>2. BuildTypeOK
  <2>1. image \in [Refs -> Image]
    BY BuildDefaults DEF BuildInit, Refs
  <2>2. dev \in [Proj -> {"up", "down"}]
    BY DEF BuildInit
  <2> QED
    BY <1>1, <2>1, <2>2 DEF BuildInit, BuildTypeOK, Refs
<1>3. LayersCounted
  <2> SUFFICES ASSUME NEW r \in Refs PROVE image[r].wraps <= Cardinality(LayeredOf(r))
    BY DEF LayersCounted
  <2>1. LayeredOf(r) \in SUBSET Build
    BY DEF LayeredOf
  <2> QED
    BY <1>1, <2>1, BuildDefaults
<1>4. PausesOK
  BY <1>1, BuildConstants DEF PausesOK, DevComesBack
<1>5. SourcesOK
  BY <1>1, BuildConstants, BuildDefaults DEF SourcesOK, Active
<1>6. \A b \in Build : OwnWork(b)
  BY <1>1 DEF OwnWork
<1> QED
  BY <1>2, <1>3, <1>4, <1>5, <1>6 DEF BuildInv

\* A step that keeps an image, or builds it anew, keeps the count of its layers.
LEMMA CountKept ==
    ASSUME BuildInv, \A r \in Refs : image'[r] = image[r] \/ image'[r].wraps = 0,
           \A c \in Build : at[c] \in Layered => at'[c] \in Layered /\ Ref(c)' = Ref(c)
    PROVE  LayersCounted'
<1> SUFFICES ASSUME NEW r \in Refs PROVE image'[r].wraps <= Cardinality(LayeredOf(r)')
  BY DEF LayersCounted
<1>1. LayeredOf(r) \subseteq LayeredOf(r)' /\ LayeredOf(r)' \subseteq Build
  BY DEF LayeredOf
<1>2. Cardinality(LayeredOf(r)) <= Cardinality(LayeredOf(r)')
  BY <1>1, BuildDefaults
<1>3. Cardinality(LayeredOf(r)) \in Nat /\ Cardinality(LayeredOf(r)') \in Nat
  BY <1>1, BuildDefaults
<1>4. image[r].wraps \in Nat /\ image[r].wraps <= Cardinality(LayeredOf(r))
  BY DEF BuildInv, BuildTypeOK, Image, LayersCounted, Refs
<1> QED
  BY <1>2, <1>3, <1>4

LEMMA SoleProject ==
    ASSUME disk \subseteq Proj, Cardinality(disk) = 1
    PROVE  (CHOOSE p \in disk : TRUE) \in Proj
<1>1. Cardinality({}) = 0
  BY FS_EmptySet
<1>2. PICK p : p \in disk
  <2>1. CASE disk = {}
    BY <1>1, <2>1
  <2> QED
    BY <2>1
<1> QED
  BY <1>2

LEMMA SendStep ==
    ASSUME BuildInv, NEW b \in Build, Send(b)
    PROVE  BuildInv'
<1>1. PICK same : same = {c \in Active : tag[c] = tag[b]}
  OBVIOUS
<1>2. /\ at[b] = "idle" /\ at' = [at EXCEPT ![b] = "settle"]
      /\ mixed' = [c \in Build |-> mixed[c] \/ c \in same \/ (c = b /\ same # {})]
      /\ UNCHANGED <<tag, paused, result, disk, dev, downBy, tarball, ctx, image, buildkit>>
  BY <1>1 DEF Send, To, stops, store
<1>3. proj' \in [Build -> Proj \cup {Root}] /\ \A c \in Build : c # b => proj'[c] = proj[c]
  <2>1. proj \in [Build -> Proj \cup {Root}] /\ disk \subseteq Proj
    BY DEF BuildInv, BuildTypeOK
  <2>2. UNCHANGED proj \/ (Cardinality(disk) = 1 /\ proj' = [proj EXCEPT ![b] = CHOOSE p \in disk : TRUE])
    BY DEF Send
  <2>3. CASE Cardinality(disk) = 1 /\ proj' = [proj EXCEPT ![b] = CHOOSE p \in disk : TRUE]
    <3>1. (CHOOSE p \in disk : TRUE) \in Proj
      BY <2>1, <2>3, SoleProject
    <3> QED
      BY <2>1, <2>3, <3>1
  <2> QED
    BY <2>1, <2>2, <2>3
<1>4. \A c \in Build : at'[c] = IF c = b THEN "settle" ELSE at[c]
  BY <1>2 DEF BuildInv, BuildTypeOK
<1>5. mixed' \in [Build -> BOOLEAN]
  BY <1>2
<1>6. BuildTypeOK'
  BY <1>2, <1>3, <1>4, <1>5 DEF BuildInv, BuildTypeOK, InContext
<1>7. LayersCounted'
  BY <1>2, <1>3, <1>4, CountKept DEF Ref, Layered
<1>8. PausesOK'
  BY <1>2, <1>4 DEF BuildInv, PausesOK, DevComesBack, NothingStopped
<1>9. \A c \in Build : /\ mixed[c] => mixed'[c]
                       /\ ~mixed'[c] => ~mixed[c] /\ c \notin same /\ (c = b => same = {})
  BY <1>2 DEF BuildInv, BuildTypeOK
<1>10. SourcesOK'
  <2>1. \A c \in Active', d \in Active' : c # d /\ tag[c] = tag[d] => mixed'[c]
    BY <1>1, <1>4, <1>9 DEF Active, BuildInv, SourcesOK
  <2>2. \A t \in Tag, c \in Build : tarball[t] = c => tag[c] = t /\ at'[c] \notin NothingTarred
    BY <1>2, <1>4 DEF BuildInv, SourcesOK, NothingTarred, NothingStopped
  <2>3. \A t \in Tag : \A c \in ctx[t] : c \in Build /\ tag[c] = t /\ (mixed'[c] \/ at'[c] \in Packed)
    BY <1>2, <1>4, <1>9 DEF BuildInv, BuildTypeOK, SourcesOK, Packed, Built, Layered
  <2>4. \A r \in Refs : \A c \in image[r].src : c \in Build /\ (mixed'[c] \/ at'[c] \in Built)
    BY <1>2, <1>4, <1>9 DEF BuildInv, BuildTypeOK, Refs, Image, SourcesOK, Built, Layered
  <2> QED
    BY <1>2, <2>1, <2>2, <2>3, <2>4 DEF SourcesOK
<1>11. ASSUME NEW c \in Build, ~mixed'[c] PROVE OwnWork(c)'
  BY SMTT(30), <1>2, <1>3, <1>4, <1>9, <1>11 DEF BuildInv, OwnWork, Ref
<1> QED
  BY <1>6, <1>7, <1>8, <1>10, <1>11 DEF BuildInv
Stages == {"idle", "settle", "list", "pause", "preflight", "buildkit", "tar", "ctxdir",
           "download", "railpack", "wrap", "check", "cleanup", "resume", "over"}
ContextStages == {"download", "railpack", "wrap", "check", "cleanup"}

\* A stage goes forward: what a build has left behind it does not come back.
Forward(k, l) ==
    /\ k \in Layered => l \in Layered
    /\ k \in Built => l \in Built
    /\ k \in Packed => l \in Packed
    /\ k \notin NothingTarred => l \notin NothingTarred

\* A step of one build that touches no tar file, directory or image.
LEMMA QuietStep ==
    ASSUME BuildInv, NEW b \in Build, NEW l \in Stages, at' = [at EXCEPT ![b] = l],
           at[b] \notin {"idle", "over"}, Forward(at[b], l),
           at[b] \in ContextStages => l \in ContextStages,
           UNCHANGED <<tag, tarball, ctx, image>>,
           proj' \in [Build -> Proj \cup {Root}],
           \A c \in Build : c # b \/ at[b] \in Layered \/ l \in ContextStages => proj'[c] = proj[c],
           mixed' \in [Build -> BOOLEAN], \A c \in Build : c # b \/ l # "over" => mixed'[c] = mixed[c],
           result' \in [Build -> {"none", "ok", "refused"}], \A c \in Build : c # b => result'[c] = result[c],
           disk' \subseteq Proj, buildkit' \in {"down", "running"},
           paused' \in [Build -> SUBSET Proj], dev' \in [Proj -> {"up", "down"}],
           downBy' \in [Proj -> Build \cup {"lost", "failed", "user", "none"}],
           PausesOK', ~mixed[b] /\ l # "over" => OwnWork(b)'
    PROVE  BuildInv'
<1>1. \A c \in Build : at'[c] = IF c = b THEN l ELSE at[c]
  BY DEF BuildInv, BuildTypeOK
<1>2. at' \in [Build -> Stages]
  BY DEF BuildInv, BuildTypeOK, Stages
<1>3. \A t \in Tag : ctx[t] # {} => \E c \in Build : tag[c] = t /\ InContext(c)'
  BY <1>1 DEF BuildInv, BuildTypeOK, InContext, ContextStages
<1>4. BuildTypeOK'
  BY <1>2, <1>3 DEF BuildInv, BuildTypeOK, Stages
<1>5. LayersCounted'
  <2>1. \A c \in Build : at[c] \in Layered => at'[c] \in Layered /\ proj'[c] = proj[c]
    BY <1>1 DEF Forward
  <2> QED
    BY <2>1, CountKept DEF Ref
<1>6. SourcesOK'
  <2>1. \A c \in Active', d \in Active' : c # d /\ tag[c] = tag[d] => mixed'[c]
    BY <1>1 DEF Active, BuildInv, SourcesOK
  <2>2. \A t \in Tag, c \in Build : tarball[t] = c => tag[c] = t /\ at'[c] \notin NothingTarred
    BY <1>1 DEF BuildInv, SourcesOK, Forward
  <2>3. \A t \in Tag : \A c \in ctx[t] : c \in Build /\ tag[c] = t /\ (mixed'[c] \/ at'[c] \in Packed)
    <3>1. l = "over" => l \in Packed
      BY DEF Packed, Built, Layered
    <3> QED
      BY <1>1, <3>1 DEF BuildInv, BuildTypeOK, SourcesOK, Forward
  <2>4. \A r \in Refs : \A c \in image[r].src : c \in Build /\ (mixed'[c] \/ at'[c] \in Built)
    <3>1. l = "over" => l \in Built
      BY DEF Built, Layered
    <3>2. \A r \in Refs : image[r].src \subseteq Build
      BY DEF BuildInv, BuildTypeOK, Refs, Image
    <3> QED
      BY <1>1, <3>1, <3>2 DEF BuildInv, SourcesOK, Forward
  <2> QED
    BY <2>1, <2>2, <2>3, <2>4 DEF SourcesOK
<1>7. ASSUME NEW c \in Build, ~mixed'[c] PROVE OwnWork(c)'
  <2>1. CASE c = b /\ l = "over"
    BY <1>1, <2>1 DEF OwnWork
  <2>2. CASE c = b /\ l # "over"
    BY <1>7, <2>2
  <2>3. CASE c # b
    <3>1. at'[c] = at[c] /\ result'[c] = result[c] /\ proj'[c] = proj[c] /\ ~mixed[c]
      BY <1>1, <1>7, <2>3
    <3>2. OwnWork(c)
      BY <3>1 DEF BuildInv
    <3> QED
      BY <3>1, <3>2 DEF OwnWork, Ref
  <2> QED
    BY <2>1, <2>2, <2>3
<1> QED
  BY <1>4, <1>5, <1>6, <1>7 DEF BuildInv

\* Nothing is paused or resumed, and the build is not over.
LEMMA PausesKept ==
    ASSUME BuildInv, NEW b \in Build, NEW l \in Stages \ {"over"}, at' = [at EXCEPT ![b] = l],
           at[b] \in NothingStopped \/ l \notin NothingStopped, UNCHANGED <<downBy, paused>>
    PROVE  PausesOK'
BY DEF BuildInv, BuildTypeOK, PausesOK, DevComesBack

LEMMA SettleStep ==
    ASSUME BuildInv, NEW b \in Build, Settle(b)
    PROVE  BuildInv'
<1>1. PICK l : /\ l \in {"list", "over"} /\ at' = [at EXCEPT ![b] = l]
               /\ result' \in {result, [result EXCEPT ![b] = "refused"]}
               /\ l = "over" => UNCHANGED proj
  BY DEF Settle, To, Refused
<1>2. at[b] = "settle" /\ UNCHANGED <<tag, paused, mixed, disk, dev, downBy, tarball, ctx, image, buildkit>>
  BY DEF Settle, stops, store
<1>3. proj' \in [Build -> Proj \cup {Root}] /\ \A c \in Build : c # b => proj'[c] = proj[c]
  <2>1. proj \in [Build -> Proj \cup {Root}] /\ disk \subseteq Proj
    BY DEF BuildInv, BuildTypeOK
  <2>2. UNCHANGED proj \/ (Cardinality(disk) = 1 /\ proj' = [proj EXCEPT ![b] = CHOOSE p \in disk : TRUE])
    BY DEF Settle
  <2>3. CASE Cardinality(disk) = 1 /\ proj' = [proj EXCEPT ![b] = CHOOSE p \in disk : TRUE]
    <3>1. (CHOOSE p \in disk : TRUE) \in Proj
      BY <2>1, <2>3, SoleProject
    <3> QED
      BY <2>1, <2>3, <3>1
  <2> QED
    BY <2>1, <2>2, <2>3
<1>4. result' \in [Build -> {"none", "ok", "refused"}] /\ \A c \in Build : c # b => result'[c] = result[c]
  BY <1>1 DEF BuildInv, BuildTypeOK
<1>5. Forward(at[b], l) /\ l \in Stages /\ l \notin ContextStages /\ at[b] \notin ContextStages \cup Layered
  BY <1>1, <1>2 DEF Forward, Layered, Built, Packed, NothingTarred, NothingStopped, Stages, ContextStages
<1>6. at'[b] = l
  BY <1>1 DEF BuildInv, BuildTypeOK
<1>7. OwnWork(b)'
  BY <1>1, <1>6 DEF OwnWork
<1>8. PausesOK'
  BY <1>1, <1>2 DEF BuildInv, BuildTypeOK, PausesOK, DevComesBack, NothingStopped
<1>9. /\ l \in Stages /\ at[b] \notin {"idle", "over"}
      /\ at[b] \in ContextStages => l \in ContextStages
      /\ \A c \in Build : c # b \/ at[b] \in Layered \/ l \in ContextStages => proj'[c] = proj[c]
      /\ UNCHANGED <<tag, tarball, ctx, image, mixed>>
  BY <1>2, <1>3, <1>5
<1>10. /\ mixed' \in [Build -> BOOLEAN] /\ disk' \subseteq Proj /\ buildkit' \in {"down", "running"}
       /\ paused' \in [Build -> SUBSET Proj] /\ dev' \in [Proj -> {"up", "down"}]
       /\ downBy' \in [Proj -> Build \cup {"lost", "failed", "user", "none"}]
  BY <1>2 DEF BuildInv, BuildTypeOK
<1> QED
  BY <1>1, <1>3, <1>4, <1>5, <1>7, <1>8, <1>9, <1>10, QuietStep

LEMMA ListStep ==
    ASSUME BuildInv, NEW b \in Build, ListRunning(b)
    PROVE  BuildInv'
<1>1. PICK found \in SUBSET Proj : paused' = [paused EXCEPT ![b] = found]
  BY DEF ListRunning
<1>2. at[b] = "list" /\ at' = [at EXCEPT ![b] = "pause"]
      /\ UNCHANGED <<proj, tag, result, mixed, disk, dev, downBy, tarball, ctx, image, buildkit>>
  BY DEF ListRunning, To, asked, stops, store
<1>3. Forward(at[b], "pause") /\ "pause" \in Stages /\ at[b] \notin ContextStages
  BY <1>2 DEF Forward, Layered, Built, Packed, NothingTarred, NothingStopped, Stages, ContextStages
<1>4. paused' \in [Build -> SUBSET Proj]
  BY <1>1 DEF BuildInv, BuildTypeOK
<1>5. PausesOK'
  BY <1>1, <1>2 DEF BuildInv, BuildTypeOK, PausesOK, DevComesBack, NothingStopped
<1>6. at'[b] = "pause"
  BY <1>2 DEF BuildInv, BuildTypeOK
<1>7. OwnWork(b)'
  BY <1>6 DEF OwnWork
<1> QED
  BY <1>2, <1>3, <1>4, <1>5, <1>7, QuietStep DEF BuildInv, BuildTypeOK

LEMMA PauseStep ==
    ASSUME BuildInv, NEW b \in Build, Pause(b)
    PROVE  BuildInv'
<1>0. PICK stopped \in SUBSET paused[b] : \E known \in SUBSET stopped :
          /\ dev' = [p \in Proj |-> IF p \in stopped THEN "down" ELSE dev[p]]
          /\ downBy' = [p \in Proj |-> IF p \in known THEN b
                                       ELSE IF p \in stopped THEN "lost" ELSE downBy[p]]
          /\ paused' = [paused EXCEPT ![b] = known]
  BY DEF Pause
<1>1. PICK known \in SUBSET stopped :
          /\ dev' = [p \in Proj |-> IF p \in stopped THEN "down" ELSE dev[p]]
          /\ downBy' = [p \in Proj |-> IF p \in known THEN b
                                       ELSE IF p \in stopped THEN "lost" ELSE downBy[p]]
          /\ paused' = [paused EXCEPT ![b] = known]
  BY <1>0
<1>2. at[b] = "pause" /\ at' = [at EXCEPT ![b] = "preflight"]
      /\ UNCHANGED <<proj, tag, result, mixed, disk, tarball, ctx, image, buildkit>>
  BY DEF Pause, To, asked, store
<1>3. Forward(at[b], "preflight") /\ "preflight" \in Stages /\ at[b] \notin ContextStages
  BY <1>2 DEF Forward, Layered, Built, Packed, NothingTarred, NothingStopped, Stages, ContextStages
<1>4. known \subseteq Proj /\ stopped \subseteq Proj
  BY DEF BuildInv, BuildTypeOK
<1>5. paused' \in [Build -> SUBSET Proj]
  BY <1>1, <1>4 DEF BuildInv, BuildTypeOK
<1>6. dev' \in [Proj -> {"up", "down"}]
  BY <1>1 DEF BuildInv, BuildTypeOK
<1>7. downBy' \in [Proj -> Build \cup {"lost", "failed", "user", "none"}]
  BY <1>1 DEF BuildInv, BuildTypeOK
<1>8. \A c \in Build : at'[c] = (IF c = b THEN "preflight" ELSE at[c])
                       /\ paused'[c] = (IF c = b THEN known ELSE paused[c])
  BY <1>1, <1>2 DEF BuildInv, BuildTypeOK
<1>9. PausesOK'
  <2>1. \A p \in Proj, c \in Build : downBy'[p] = c => IF c = b THEN p \in known ELSE downBy[p] = c
    BY <1>1, <1>2, BuildConstants DEF BuildInv, PausesOK, NothingStopped
  <2> QED
    BY <1>8, <2>1 DEF BuildInv, PausesOK, DevComesBack, NothingStopped
<1>10. OwnWork(b)'
  BY <1>8 DEF OwnWork
<1> QED
  BY <1>2, <1>3, <1>5, <1>6, <1>7, <1>9, <1>10, QuietStep DEF BuildInv, BuildTypeOK
\* The build goes on, or gives up with what it has deferred.
LEMMA GoesOn ==
    ASSUME BuildInv, NEW b \in Build, NEW l \in Stages \ {"over"}, at' = [at EXCEPT ![b] = l],
           at[b] \notin NothingStopped \cup {"over"}, l \notin NothingStopped, Forward(at[b], l),
           at[b] \in ContextStages => l \in ContextStages,
           UNCHANGED <<asked, paused, mixed, disk, stops, store>>, buildkit' \in {"down", "running"},
           NEW v \in {"none", "ok", "refused"}, result' \in {result, [result EXCEPT ![b] = v]},
           ~mixed[b] => OwnWork(b)'
    PROVE  BuildInv'
<1>1. UNCHANGED <<proj, tag, dev, downBy, tarball, ctx, image>>
  BY DEF asked, stops, store
<1>2. PausesOK'
  BY <1>1, PausesKept
<1>3. result' \in [Build -> {"none", "ok", "refused"}] /\ \A c \in Build : c # b => result'[c] = result[c]
  BY DEF BuildInv, BuildTypeOK
<1>4. at[b] \notin {"idle", "over"}
  BY DEF NothingStopped
<1>5. /\ proj' \in [Build -> Proj \cup {Root}] /\ mixed' \in [Build -> BOOLEAN] /\ disk' \subseteq Proj
      /\ paused' \in [Build -> SUBSET Proj] /\ dev' \in [Proj -> {"up", "down"}]
      /\ downBy' \in [Proj -> Build \cup {"lost", "failed", "user", "none"}]
  BY <1>1 DEF BuildInv, BuildTypeOK
<1> QED
  BY <1>1, <1>2, <1>3, <1>4, <1>5, QuietStep

LEMMA PreflightStep ==
    ASSUME BuildInv, NEW b \in Build, Preflight(b)
    PROVE  BuildInv'
<1>1. PICK l : /\ l \in {"buildkit", "resume"} /\ at' = [at EXCEPT ![b] = l]
               /\ IF l = "buildkit" THEN result' = result ELSE result' = [result EXCEPT ![b] = "refused"]
  BY DEF Preflight, Try, To, Refused
<1>2. at[b] = "preflight" /\ UNCHANGED <<asked, paused, mixed, disk, stops, store, buildkit>>
  BY DEF Preflight, Try
<1>3. at[b] \notin NothingStopped \cup {"over"} \cup ContextStages /\ l \notin NothingStopped
      /\ l \in Stages \ {"over"} /\ Forward(at[b], l)
  BY <1>1, <1>2 DEF Forward, Layered, Built, Packed, NothingTarred, NothingStopped, Stages, ContextStages
<1>4. at'[b] = l /\ (l = "resume" => result'[b] = "refused")
  BY <1>1 DEF BuildInv, BuildTypeOK
<1>5. OwnWork(b)'
  BY <1>1, <1>4 DEF OwnWork
<1>6. result' \in {result, [result EXCEPT ![b] = "refused"]} /\ buildkit' \in {"down", "running"}
  BY <1>1, <1>2 DEF BuildInv, BuildTypeOK
<1> QED
  BY <1>1, <1>2, <1>3, <1>5, <1>6, GoesOn

LEMMA BuildKitStep ==
    ASSUME BuildInv, NEW b \in Build, EnsureBuildKit(b)
    PROVE  BuildInv'
<1>1. PICK l : /\ l \in {"tar", "resume"} /\ at' = [at EXCEPT ![b] = l]
               /\ IF l = "tar" THEN result' = result ELSE result' = [result EXCEPT ![b] = "refused"]
  BY DEF EnsureBuildKit, To, Refused
<1>2. at[b] = "buildkit" /\ UNCHANGED <<asked, paused, mixed, disk, stops, store>>
  BY DEF EnsureBuildKit
<1>3. at[b] \notin NothingStopped \cup {"over"} \cup ContextStages /\ l \notin NothingStopped
      /\ l \in Stages \ {"over"} /\ Forward(at[b], l)
  BY <1>1, <1>2 DEF Forward, Layered, Built, Packed, NothingTarred, NothingStopped, Stages, ContextStages
<1>4. at'[b] = l /\ (l = "resume" => result'[b] = "refused")
  BY <1>1 DEF BuildInv, BuildTypeOK
<1>5. OwnWork(b)'
  BY <1>1, <1>4 DEF OwnWork
<1>6. result' \in {result, [result EXCEPT ![b] = "refused"]} /\ buildkit' \in {"down", "running"}
  BY <1>1 DEF EnsureBuildKit, BuildInv, BuildTypeOK
<1> QED
  BY <1>1, <1>2, <1>3, <1>5, <1>6, GoesOn

LEMMA CheckStep ==
    ASSUME BuildInv, NEW b \in Build, CheckWrapped(b)
    PROVE  BuildInv'
<1>1. PICK v : v \in {"ok", "refused"} /\ result' = [result EXCEPT ![b] = v]
  BY DEF CheckWrapped
<1>2. at[b] = "check" /\ at' = [at EXCEPT ![b] = "cleanup"]
      /\ UNCHANGED <<asked, paused, mixed, disk, stops, store, buildkit>>
  BY DEF CheckWrapped, To
<1>3. at[b] \notin NothingStopped \cup {"over"} /\ "cleanup" \notin NothingStopped /\ "cleanup" \in ContextStages
      /\ "cleanup" \in Stages \ {"over"} /\ Forward(at[b], "cleanup")
  BY <1>2 DEF Forward, Layered, Built, Packed, NothingTarred, NothingStopped, Stages, ContextStages
<1>4. at'[b] = "cleanup" /\ UNCHANGED <<proj, tag, image>>
  BY <1>2 DEF BuildInv, BuildTypeOK, asked, store
<1>5. ~mixed[b] => OwnWork(b)'
  BY <1>2, <1>4 DEF BuildInv, OwnWork, Ref
<1>6. result' \in {result, [result EXCEPT ![b] = v]} /\ buildkit' \in {"down", "running"}
  BY <1>1, <1>2 DEF BuildInv, BuildTypeOK
<1> QED
  BY <1>1, <1>2, <1>3, <1>5, <1>6, GoesOn

LEMMA ResumeStep ==
    ASSUME BuildInv, NEW b \in Build, Resume(b)
    PROVE  BuildInv'
<1>1. PICK failed \in SUBSET {p \in paused[b] : dev[p] = "down"} :
          /\ dev' = [p \in Proj |-> IF p \in paused[b] \ failed THEN "up" ELSE dev[p]]
          /\ downBy' = [p \in Proj |-> IF p \in failed THEN "failed"
                                       ELSE IF p \in paused[b] THEN "none" ELSE downBy[p]]
  BY DEF Resume
<1>2. /\ at[b] = "resume" /\ at' = [at EXCEPT ![b] = "over"] /\ paused' = [paused EXCEPT ![b] = {}]
      /\ result' = [result EXCEPT ![b] = "none"] /\ mixed' = [mixed EXCEPT ![b] = FALSE]
      /\ UNCHANGED <<proj, tag, disk, tarball, ctx, image, buildkit>>
  BY DEF Resume, Over, To, asked, store
<1>3. Forward(at[b], "over") /\ "over" \in Stages /\ at[b] \notin ContextStages
  BY <1>2 DEF Forward, Layered, Built, Packed, NothingTarred, NothingStopped, Stages, ContextStages
<1>4. dev' \in [Proj -> {"up", "down"}]
  BY <1>1 DEF BuildInv, BuildTypeOK
<1>5. downBy' \in [Proj -> Build \cup {"lost", "failed", "user", "none"}]
  BY <1>1 DEF BuildInv, BuildTypeOK
<1>6. \A c \in Build : at'[c] = (IF c = b THEN "over" ELSE at[c])
                       /\ paused'[c] = (IF c = b THEN {} ELSE paused[c])
  BY <1>2 DEF BuildInv, BuildTypeOK
<1>7. PausesOK'
  <2>1. \A p \in Proj, c \in Build : downBy'[p] = c => p \notin paused[b] /\ downBy[p] = c
    BY <1>1, BuildConstants
  <2>2. \A p \in Proj, c \in Build : downBy'[p] = c => c # b
    BY <2>1 DEF BuildInv, PausesOK, DevComesBack
  <2> QED
    BY <1>6, <2>1, <2>2 DEF BuildInv, PausesOK, DevComesBack, NothingStopped
<1>8. /\ result' \in [Build -> {"none", "ok", "refused"}] /\ \A c \in Build : c # b => result'[c] = result[c]
      /\ paused' \in [Build -> SUBSET Proj]
  BY <1>2 DEF BuildInv, BuildTypeOK
<1>9. mixed' \in [Build -> BOOLEAN] /\ \A c \in Build : c # b => mixed'[c] = mixed[c]
  BY <1>2 DEF BuildInv, BuildTypeOK
<1>10. /\ at[b] \notin {"idle", "over"} /\ proj' \in [Build -> Proj \cup {Root}]
       /\ disk' \subseteq Proj /\ buildkit' \in {"down", "running"}
  BY <1>2 DEF BuildInv, BuildTypeOK
<1> QED
  BY <1>2, <1>3, <1>4, <1>5, <1>7, <1>8, <1>9, <1>10, QuietStep
\* What is known of the sources stays known while a build goes forward.
LEMMA Carried ==
    ASSUME BuildInv, NEW b \in Build, NEW l \in Stages, at' = [at EXCEPT ![b] = l], Forward(at[b], l)
    PROVE  /\ \A t \in Tag, c \in Build : tarball[t] = c => tag[c] = t /\ at'[c] \notin NothingTarred
           /\ \A t \in Tag : \A c \in ctx[t] : c \in Build /\ tag[c] = t /\ (mixed[c] \/ at'[c] \in Packed)
           /\ \A r \in Refs : \A c \in image[r].src : c \in Build /\ (mixed[c] \/ at'[c] \in Built)
<1>1. \A c \in Build : at'[c] = IF c = b THEN l ELSE at[c]
  BY DEF BuildInv, BuildTypeOK
<1>2. \A t \in Tag, c \in Build : tarball[t] = c => tag[c] = t /\ at'[c] \notin NothingTarred
  BY <1>1 DEF BuildInv, SourcesOK, Forward
<1>3. \A t \in Tag : \A c \in ctx[t] : c \in Build /\ tag[c] = t /\ (mixed[c] \/ at'[c] \in Packed)
  BY <1>1 DEF BuildInv, BuildTypeOK, SourcesOK, Forward
<1>4. \A r \in Refs : image[r].src \subseteq Build
  BY DEF BuildInv, BuildTypeOK, Refs, Image
<1>5. \A r \in Refs : \A c \in image[r].src : c \in Build /\ (mixed[c] \/ at'[c] \in Built)
  BY <1>1, <1>4 DEF BuildInv, SourcesOK, Forward
<1> QED
  BY <1>2, <1>3, <1>5

\* A build that has its tag to itself is out of the reach of every other one.
LEMMA Elsewhere ==
    ASSUME BuildInv, NEW b \in Active, NEW c \in Active, b # c, ~mixed[c]
    PROVE  tag[c] # tag[b] /\ Ref(c) # Ref(b)
BY DEF BuildInv, SourcesOK, Ref

\* A step of one build on the tar file, the directory and the image of its tag.
LEMMA StoreStep ==
    ASSUME BuildInv, NEW b \in Build, NEW l \in Stages \ {"over"}, at' = [at EXCEPT ![b] = l],
           at[b] \notin NothingStopped \cup {"over"}, l \notin NothingStopped, Forward(at[b], l),
           UNCHANGED <<asked, paused, mixed, disk, stops, buildkit>>,
           NEW v \in {"none", "ok", "refused"}, result' \in {result, [result EXCEPT ![b] = v]},
           tarball' \in [Tag -> Build \cup {NoBuild}], \A t \in Tag : t # tag[b] => tarball'[t] = tarball[t],
           ctx' \in [Tag -> SUBSET Build], \A t \in Tag : t # tag[b] => ctx'[t] = ctx[t],
           image' \in [Refs -> [src : SUBSET Build, wraps : Nat]],
           \A r \in Refs : r # Ref(b) => image'[r] = image[r],
           \/ l \in ContextStages
           \/ ctx'[tag[b]] = {}
           \/ at[b] \notin ContextStages /\ ctx' = ctx,
           LayersCounted',
           \A c \in Build : tarball'[tag[b]] = c => tag[c] = tag[b] /\ at'[c] \notin NothingTarred,
           \A c \in ctx'[tag[b]] : tag[c] = tag[b] /\ (mixed[c] \/ at'[c] \in Packed),
           \A c \in image'[Ref(b)].src : mixed[c] \/ at'[c] \in Built,
           ~mixed[b] => OwnWork(b)'
    PROVE  BuildInv'
<1>1. UNCHANGED <<proj, tag, dev, downBy>> /\ tag[b] \in Tag /\ b \in Active
      /\ \A c \in Build : Ref(c)' = Ref(c)
  BY DEF asked, stops, BuildInv, BuildTypeOK, Active, NothingStopped, Ref
<1>2. \A c \in Build : at'[c] = IF c = b THEN l ELSE at[c]
  BY DEF BuildInv, BuildTypeOK
<1>3. result' \in [Build -> {"none", "ok", "refused"}] /\ \A c \in Build : c # b => result'[c] = result[c]
  <2>1. result \in [Build -> {"none", "ok", "refused"}]
    BY DEF BuildInv, BuildTypeOK
  <2> QED
    BY <2>1
<1>4. PausesOK'
  BY <1>1, PausesKept
<1>5. \A t \in Tag : ctx'[t] # {} => \E c \in Build : tag[c] = t /\ InContext(c)'
  <2> SUFFICES ASSUME NEW t \in Tag, ctx'[t] # {} PROVE \E c \in Build : tag[c] = t /\ at'[c] \in ContextStages
    BY DEF InContext, ContextStages
  <2>1. CASE t = tag[b] /\ l \in ContextStages
    BY <1>2, <2>1
  <2>2. CASE t # tag[b] \/ (at[b] \notin ContextStages /\ ctx' = ctx)
    <3>1. PICK c \in Build : tag[c] = t /\ at[c] \in ContextStages
      BY <2>2 DEF BuildInv, BuildTypeOK, InContext, ContextStages
    <3> QED
      BY <1>2, <2>2, <3>1
  <2> QED
    BY <2>1, <2>2
<1>6. image' \in [Refs -> Image]
  <2>1. \A r \in Refs : LayeredOf(r)' \in SUBSET Build
    BY DEF LayeredOf
  <2>2. \A r \in Refs : image'[r].wraps <= Cardinality(LayeredOf(r)')
                        /\ Cardinality(LayeredOf(r)') \in 0..Cardinality(Build)
    BY <2>1, BuildDefaults DEF LayersCounted
  <2>3. Cardinality(Build) \in Nat
    BY BuildConstants, FS_CardinalityType
  <2>4. ASSUME NEW r \in Refs PROVE image'[r] \in Image
    <3>1. image'[r] \in [src : SUBSET Build, wraps : Nat]
      OBVIOUS
    <3>2. image'[r].wraps \in 0..Cardinality(Build)
      BY <2>2, <2>3, <3>1
    <3> QED
      BY <3>1, <3>2 DEF Image
  <2> QED
    BY <2>4
<1>7. BuildTypeOK'
  BY <1>1, <1>3, <1>5, <1>6 DEF BuildInv, BuildTypeOK, Stages, Refs
<1>8. SourcesOK'
  <2>1. \A c \in Active', d \in Active' : c # d /\ tag[c] = tag[d] => mixed[c]
    BY <1>1, <1>2 DEF Active, BuildInv, SourcesOK
  <2>2. \A t \in Tag, c \in Build : tarball'[t] = c => tag[c] = t /\ at'[c] \notin NothingTarred
    <3>1. \A t \in Tag, c \in Build : tarball[t] = c => tag[c] = t /\ at'[c] \notin NothingTarred
      BY Carried
    <3> QED
      BY <3>1
  <2>3. \A t \in Tag : \A c \in ctx'[t] : tag[c] = t /\ (mixed[c] \/ at'[c] \in Packed)
    <3>1. \A t \in Tag : \A c \in ctx[t] : tag[c] = t /\ (mixed[c] \/ at'[c] \in Packed)
      BY Carried
    <3> QED
      BY <3>1
  <2>4. \A r \in Refs : \A c \in image'[r].src : mixed[c] \/ at'[c] \in Built
    BY ZenonT(40), Carried
  <2> QED
    BY <1>1, <2>1, <2>2, <2>3, <2>4 DEF SourcesOK
<1>9. ASSUME NEW c \in Build, ~mixed[c] PROVE OwnWork(c)'
  <2>1. CASE c = b
    BY <1>9, <2>1
  <2>2. CASE c # b /\ c \in Active
    <3>1. tag[c] # tag[b] /\ Ref(c) # Ref(b)
      BY <1>1, <1>9, <2>2, Elsewhere
    <3>2. tag[c] \in Tag /\ Ref(c) \in Refs
      BY DEF BuildInv, BuildTypeOK, Ref, Refs
    <3>3. /\ at'[c] = at[c] /\ result'[c] = result[c] /\ tag'[c] = tag[c] /\ Ref(c)' = Ref(c)
          /\ tarball'[tag[c]] = tarball[tag[c]] /\ ctx'[tag[c]] = ctx[tag[c]] /\ image'[Ref(c)] = image[Ref(c)]
      BY <1>1, <1>2, <1>3, <2>2, <3>1, <3>2
    <3>4. OwnWork(c)
      BY <1>9 DEF BuildInv
    <3> QED
      BY <3>3, <3>4 DEF OwnWork
  <2>3. CASE c # b /\ c \notin Active
    BY <1>2, <2>3 DEF Active, OwnWork
  <2> QED
    BY <2>1, <2>2, <2>3
<1> QED
  BY <1>4, <1>7, <1>8, <1>9 DEF BuildInv
LEMMA StoreTyped ==
    ASSUME BuildInv, NEW b \in Build
    PROVE  /\ tag[b] \in Tag /\ Ref(b) \in Refs /\ Ref(b)[2] = tag[b]
           /\ tarball \in [Tag -> Build \cup {NoBuild}] /\ ctx \in [Tag -> SUBSET Build]
           /\ image \in [Refs -> [src : SUBSET Build, wraps : Nat]]
<1>1. tag[b] \in Tag /\ Ref(b) \in Refs /\ Ref(b)[2] = tag[b]
  BY DEF BuildInv, BuildTypeOK, Ref, Refs
<1>2. image \in [Refs -> Image]
  BY DEF BuildInv, BuildTypeOK, Refs
<1>3. \A i \in Image : i \in [src : SUBSET Build, wraps : Nat]
  BY DEF Image
<1>4. image \in [Refs -> [src : SUBSET Build, wraps : Nat]]
  BY <1>2, <1>3
<1> QED
  BY <1>1, <1>4 DEF BuildInv, BuildTypeOK

LEMMA TarStep ==
    ASSUME BuildInv, NEW b \in Build, TarProject(b)
    PROVE  BuildInv'
<1>1. PICK l : /\ l \in {"ctxdir", "resume"} /\ at' = [at EXCEPT ![b] = l]
               /\ IF l = "ctxdir" THEN result' = result ELSE result' = [result EXCEPT ![b] = "refused"]
  BY DEF TarProject, Try, To, Refused
<1>2. at[b] = "tar" /\ tarball' = [tarball EXCEPT ![tag[b]] = b]
      /\ UNCHANGED <<asked, paused, mixed, disk, stops, ctx, image, buildkit>>
  BY DEF TarProject, Try
<1>3. at[b] \notin NothingStopped \cup {"over"} \cup ContextStages \cup Layered /\ l \notin NothingStopped \cup NothingTarred
      /\ l \in Stages \ {"over"} /\ Forward(at[b], l)
  BY <1>1, <1>2 DEF Forward, Layered, Built, Packed, NothingTarred, NothingStopped, Stages, ContextStages
<1>4. at'[b] = l /\ (l = "resume" => result'[b] = "refused") /\ UNCHANGED tag
      /\ \A c \in Build : c # b => at'[c] = at[c]
  BY <1>1, <1>2 DEF BuildInv, BuildTypeOK, asked
<1>5. tarball' \in [Tag -> Build \cup {NoBuild}] /\ tarball'[tag[b]] = b
      /\ \A t \in Tag : t # tag[b] => tarball'[t] = tarball[t]
  BY <1>2, StoreTyped
<1>6. OwnWork(b)'
  BY <1>1, <1>4, <1>5 DEF OwnWork
<1>7. result' \in {result, [result EXCEPT ![b] = "refused"]}
  BY <1>1
<1>8. LayersCounted'
  BY <1>2, <1>3, <1>4, CountKept DEF Ref, asked
<1>9. \A c \in Build : tarball'[tag[b]] = c => tag[c] = tag[b] /\ at'[c] \notin NothingTarred
  BY <1>3, <1>4, <1>5
<1>10. /\ \A c \in ctx'[tag[b]] : tag[c] = tag[b] /\ (mixed[c] \/ at'[c] \in Packed)
       /\ \A c \in image'[Ref(b)].src : mixed[c] \/ at'[c] \in Built
  BY ZenonT(40), <1>1, <1>2, <1>3, Carried, StoreTyped
<1>11. ctx' \in [Tag -> SUBSET Build] /\ image' \in [Refs -> [src : SUBSET Build, wraps : Nat]]
  BY <1>2, StoreTyped
<1> QED
  BY <1>1, <1>2, <1>3, <1>5, <1>6, <1>7, <1>8, <1>9, <1>10, <1>11, StoreStep

LEMMA CtxDirStep ==
    ASSUME BuildInv, NEW b \in Build, MakeCtxDir(b)
    PROVE  BuildInv'
<1>1. at[b] = "ctxdir" /\ at' = [at EXCEPT ![b] = "download"] /\ ctx' = [ctx EXCEPT ![tag[b]] = {}]
      /\ UNCHANGED <<asked, paused, result, mixed, disk, stops, tarball, image, buildkit>>
  BY DEF MakeCtxDir, To
<1>2. at[b] \notin NothingStopped \cup {"over"} \cup Layered /\ "download" \notin NothingStopped
      /\ "download" \in Stages \ {"over"} /\ "download" \in ContextStages /\ Forward(at[b], "download")
  BY <1>1 DEF Forward, Layered, Built, Packed, NothingTarred, NothingStopped, Stages, ContextStages
<1>3. at'[b] = "download" /\ UNCHANGED tag /\ \A c \in Build : c # b => at'[c] = at[c]
  BY <1>1 DEF BuildInv, BuildTypeOK, asked
<1>4. ctx' \in [Tag -> SUBSET Build] /\ ctx'[tag[b]] = {} /\ \A t \in Tag : t # tag[b] => ctx'[t] = ctx[t]
  BY <1>1, StoreTyped
<1>5. ~mixed[b] => OwnWork(b)'
  BY <1>1, <1>3, <1>4 DEF BuildInv, OwnWork
<1>6. LayersCounted'
  BY <1>1, <1>2, <1>3, CountKept DEF Ref, asked
<1>7. /\ \A c \in Build : tarball'[tag[b]] = c => tag[c] = tag[b] /\ at'[c] \notin NothingTarred
      /\ \A c \in image'[Ref(b)].src : mixed[c] \/ at'[c] \in Built
  BY <1>1, <1>2, Carried, StoreTyped
<1>8. tarball' \in [Tag -> Build \cup {NoBuild}] /\ image' \in [Refs -> [src : SUBSET Build, wraps : Nat]]
  BY <1>1, StoreTyped
<1> QED
  BY <1>1, <1>2, <1>4, <1>5, <1>6, <1>7, <1>8, StoreStep

LEMMA DownloadStep ==
    ASSUME BuildInv, NEW b \in Build, Download(b)
    PROVE  BuildInv'
<1>1. /\ at[b] = "download" /\ UNCHANGED <<asked, paused, mixed, disk, stops, tarball, image, buildkit>>
      /\ \/ /\ tarball[tag[b]] # NoBuild /\ at' = [at EXCEPT ![b] = "railpack"] /\ UNCHANGED result
            /\ ctx' = [ctx EXCEPT ![tag[b]] = @ \cup {tarball[tag[b]]}]
         \/ at' = [at EXCEPT ![b] = "cleanup"] /\ result' = [result EXCEPT ![b] = "refused"] /\ UNCHANGED ctx
  BY DEF Download, To, Refused
<1>2. PICK l : /\ l \in {"railpack", "cleanup"} /\ at' = [at EXCEPT ![b] = l]
               /\ l = "railpack" => /\ tarball[tag[b]] # NoBuild /\ UNCHANGED result
                                    /\ ctx' = [ctx EXCEPT ![tag[b]] = @ \cup {tarball[tag[b]]}]
               /\ l = "cleanup" => result' = [result EXCEPT ![b] = "refused"] /\ UNCHANGED ctx
  BY <1>1
<1>3. at[b] \notin NothingStopped \cup {"over"} \cup Layered /\ l \notin NothingStopped
      /\ l \in Stages \ {"over"} /\ l \in ContextStages /\ l \in Packed /\ Forward(at[b], l)
  BY <1>1, <1>2 DEF Forward, Layered, Built, Packed, NothingTarred, NothingStopped, Stages, ContextStages
<1>4. at'[b] = l /\ UNCHANGED tag /\ \A c \in Build : c # b => at'[c] = at[c]
  BY <1>1, <1>2 DEF BuildInv, BuildTypeOK, asked
<1>5. /\ ctx' \in [Tag -> SUBSET Build] /\ \A t \in Tag : t # tag[b] => ctx'[t] = ctx[t]
      /\ l = "railpack" => ctx'[tag[b]] = ctx[tag[b]] \cup {tarball[tag[b]]} /\ tarball[tag[b]] \in Build
  BY <1>2, StoreTyped
<1>6. l = "cleanup" => result'[b] = "refused"
  BY <1>2 DEF BuildInv, BuildTypeOK
<1>7. ~mixed[b] => OwnWork(b)'
  BY <1>1, <1>2, <1>4, <1>5, <1>6 DEF BuildInv, OwnWork
<1>8. LayersCounted'
  BY <1>1, <1>3, <1>4, CountKept DEF Ref, asked
<1>9. /\ \A c \in Build : tarball[tag[b]] = c => tag[c] = tag[b] /\ at'[c] \notin NothingTarred
      /\ \A c \in image[Ref(b)].src : mixed[c] \/ at'[c] \in Built
      /\ \A c \in ctx[tag[b]] : tag[c] = tag[b] /\ (mixed[c] \/ at'[c] \in Packed)
  BY <1>2, <1>3, Carried, StoreTyped
<1>10. ASSUME NEW c \in Build, tarball[tag[b]] = c PROVE mixed[c] \/ at'[c] \in Packed
  <2>1. CASE c = b
    BY <1>3, <1>4, <2>1
  <2>2. CASE c # b /\ at[c] \in {"ctxdir", "download"}
    <3>1. b \in Active /\ c \in Active
      BY <1>1, <2>2 DEF Active
    <3> QED
      BY <1>9, <1>10, <2>2, <3>1 DEF BuildInv, SourcesOK
  <2>3. CASE c # b /\ at[c] \notin {"ctxdir", "download"}
    <3>1. at[c] \in Stages /\ at[c] \notin NothingTarred
      BY <1>4, <1>9, <1>10, <2>3 DEF BuildInv, BuildTypeOK, Stages
    <3>2. at[c] \in Packed
      BY <2>3, <3>1 DEF Stages, NothingTarred, NothingStopped, Packed, Built, Layered
    <3> QED
      BY <1>4, <2>3, <3>2
  <2> QED
    BY <2>1, <2>2, <2>3
<1>11. \A c \in ctx'[tag[b]] : tag[c] = tag[b] /\ (mixed[c] \/ at'[c] \in Packed)
  BY <1>2, <1>5, <1>9, <1>10
<1>12. tarball' \in [Tag -> Build \cup {NoBuild}] /\ image' \in [Refs -> [src : SUBSET Build, wraps : Nat]]
  BY <1>1, StoreTyped
<1>13. result' \in {result, [result EXCEPT ![b] = "refused"]}
  BY <1>2
<1>14. /\ \A c \in Build : tarball'[tag[b]] = c => tag[c] = tag[b] /\ at'[c] \notin NothingTarred
       /\ \A c \in image'[Ref(b)].src : mixed[c] \/ at'[c] \in Built
  BY <1>1, <1>9
<1> QED
  BY <1>1, <1>2, <1>3, <1>5, <1>7, <1>8, <1>11, <1>12, <1>13, <1>14, StoreStep
LEMMA RailpackStep ==
    ASSUME BuildInv, NEW b \in Build, Railpack(b)
    PROVE  BuildInv'
<1>1. /\ at[b] = "railpack" /\ UNCHANGED <<asked, paused, mixed, disk, stops, tarball, ctx, buildkit>>
      /\ image' = [image EXCEPT ![Ref(b)] = [src |-> ctx[tag[b]], wraps |-> 0]] \/ UNCHANGED image
  BY DEF Railpack
<1>2. PICK l : /\ l \in {"wrap", "cleanup"} /\ at' = [at EXCEPT ![b] = l]
               /\ l = "wrap" => image'[Ref(b)].src = ctx[tag[b]] /\ UNCHANGED result
               /\ l = "cleanup" => result' = [result EXCEPT ![b] = "refused"]
  BY DEF Railpack, To, Refused
<1>3. at[b] \notin NothingStopped \cup {"over"} \cup Layered /\ l \notin NothingStopped
      /\ l \in Stages \ {"over"} /\ l \in ContextStages /\ l \in Built /\ Forward(at[b], l)
  BY <1>1, <1>2 DEF Forward, Layered, Built, Packed, NothingTarred, NothingStopped, Stages, ContextStages
<1>4. at'[b] = l /\ UNCHANGED tag /\ Ref(b)' = Ref(b) /\ \A c \in Build : c # b => at'[c] = at[c]
  BY <1>1, <1>2 DEF BuildInv, BuildTypeOK, asked, Ref
<1>5. PICK i : i = [src |-> ctx[tag[b]], wraps |-> 0]
  OBVIOUS
<1>6. i \in [src : SUBSET Build, wraps : Nat] /\ i.src = ctx[tag[b]] /\ i.wraps = 0
  BY <1>5, StoreTyped
<1>7. image' = [image EXCEPT ![Ref(b)] = i] \/ image' = image
  BY <1>1, <1>5
<1>8. /\ image' \in [Refs -> [src : SUBSET Build, wraps : Nat]]
      /\ image'[Ref(b)] = i \/ image' = image
      /\ \A r \in Refs : r # Ref(b) => image'[r] = image[r]
  BY <1>6, <1>7, StoreTyped
<1>9. LayersCounted'
  BY <1>1, <1>3, <1>4, <1>6, <1>8, CountKept DEF Ref, asked
<1>10. /\ \A c \in Build : tarball'[tag[b]] = c => tag[c] = tag[b] /\ at'[c] \notin NothingTarred
       /\ \A c \in ctx'[tag[b]] : tag[c] = tag[b] /\ (mixed[c] \/ at'[c] \in Packed)
       /\ \A c \in image[Ref(b)].src : mixed[c] \/ at'[c] \in Built
       /\ \A c \in ctx[tag[b]] : c \in Build /\ tag[c] = tag[b] /\ (mixed[c] \/ at'[c] \in Packed)
  BY <1>1, <1>2, <1>3, Carried, StoreTyped
<1>11. ASSUME NEW c \in ctx[tag[b]] PROVE mixed[c] \/ at'[c] \in Built
  <2>1. CASE c = b
    BY <1>3, <1>4, <2>1
  <2>2. CASE c # b /\ at[c] = "railpack"
    <3>1. b \in Active /\ c \in Active
      BY <1>1, <1>10, <2>2 DEF Active
    <3> QED
      BY <1>10, <2>2, <3>1 DEF BuildInv, SourcesOK
  <2>3. CASE c # b /\ at[c] # "railpack"
    BY <1>4, <1>10, <2>3 DEF Packed
  <2> QED
    BY <2>1, <2>2, <2>3
<1>12. \A c \in image'[Ref(b)].src : mixed[c] \/ at'[c] \in Built
  BY <1>6, <1>8, <1>10, <1>11
<1>13. ~mixed[b] => OwnWork(b)'
  <2> SUFFICES ASSUME ~mixed[b] PROVE OwnWork(b)'
    OBVIOUS
  <2>1. ctx[tag[b]] = {b}
    BY <1>1 DEF BuildInv, OwnWork
  <2>2. CASE l = "cleanup"
    <3>1. result'[b] = "refused"
      BY <1>2, <2>2 DEF BuildInv, BuildTypeOK
    <3> QED
      BY <1>4, <2>2, <3>1 DEF OwnWork
  <2>3. CASE l = "wrap"
    <3>1. b \notin image[Ref(b)].src
      BY <1>1, StoreTyped DEF BuildInv, SourcesOK, Built, Layered
    <3>2. image'[Ref(b)] = i
      BY <1>2, <1>8, <2>1, <2>3, <3>1
    <3>3. image'[Ref(b)] = [src |-> {b}, wraps |-> 0]
      BY <1>5, <2>1, <3>2
    <3>4. image[Ref(b)]' = image'[Ref(b)]
      BY <1>4
    <3> QED
      BY <1>4, <2>3, <3>3, <3>4 DEF OwnWork
  <2> QED
    BY <1>2, <2>2, <2>3
<1>14. result' \in {result, [result EXCEPT ![b] = "refused"]}
  BY <1>2
<1>15. tarball' \in [Tag -> Build \cup {NoBuild}] /\ ctx' \in [Tag -> SUBSET Build]
  BY <1>1, StoreTyped
<1> QED
  BY <1>1, <1>2, <1>3, <1>8, <1>9, <1>10, <1>12, <1>13, <1>14, <1>15, StoreStep

LEMMA WrapStep ==
    ASSUME BuildInv, NEW b \in Build, Wrap(b)
    PROVE  BuildInv'
<1>1. /\ at[b] = "wrap" /\ UNCHANGED <<asked, paused, mixed, disk, stops, tarball, ctx, buildkit>>
      /\ \/ /\ at' = [at EXCEPT ![b] = "check"] /\ UNCHANGED result
            /\ image' = [image EXCEPT ![Ref(b)].wraps = @ + 1]
         \/ at' = [at EXCEPT ![b] = "cleanup"] /\ result' = [result EXCEPT ![b] = "refused"] /\ UNCHANGED image
  BY DEF Wrap, To, Refused
<1>2. PICK l : /\ l \in {"check", "cleanup"} /\ at' = [at EXCEPT ![b] = l]
               /\ l = "check" => image' = [image EXCEPT ![Ref(b)].wraps = @ + 1] /\ UNCHANGED result
               /\ l = "cleanup" => result' = [result EXCEPT ![b] = "refused"] /\ UNCHANGED image
  BY <1>1
<1>3. at[b] \notin NothingStopped \cup {"over"} \cup Layered /\ l \notin NothingStopped
      /\ l \in Stages \ {"over"} /\ l \in ContextStages /\ l \in Layered /\ Forward(at[b], l)
  BY <1>1, <1>2 DEF Forward, Layered, Built, Packed, NothingTarred, NothingStopped, Stages, ContextStages
<1>4. at'[b] = l /\ (\A c \in Build : Ref(c)' = Ref(c)) /\ \A c \in Build : c # b => at'[c] = at[c]
  BY <1>1, <1>2 DEF BuildInv, BuildTypeOK, asked, Ref
<1>5. PICK i : i = image[Ref(b)]
  OBVIOUS
<1>6. PICK k : k = [i EXCEPT !.wraps = @ + 1]
  OBVIOUS
<1>7. i \in [src : SUBSET Build, wraps : Nat]
  BY <1>5, StoreTyped
<1>8. k \in [src : SUBSET Build, wraps : Nat] /\ k.src = i.src /\ k.wraps = i.wraps + 1
  BY <1>6, <1>7
<1>9. l = "check" => image' = [image EXCEPT ![Ref(b)] = k]
  BY <1>2, <1>5, <1>6, StoreTyped
<1>10. /\ image' \in [Refs -> [src : SUBSET Build, wraps : Nat]]
       /\ image'[Ref(b)] = IF l = "check" THEN k ELSE i
       /\ \A r \in Refs : r # Ref(b) => image'[r] = image[r]
  BY <1>2, <1>5, <1>8, <1>9, StoreTyped
<1>11. LayersCounted'
  <2>1. ASSUME NEW r \in Refs PROVE image'[r].wraps <= Cardinality(LayeredOf(r)')
    <3>1. /\ LayeredOf(r) \subseteq LayeredOf(r)' /\ LayeredOf(r)' \subseteq Build
          /\ r = Ref(b) => b \in LayeredOf(r)' /\ b \notin LayeredOf(r)
      BY <1>3, <1>4 DEF LayeredOf
    <3>2. PICK S : S = LayeredOf(r)
      OBVIOUS
    <3>3. PICK T : T = LayeredOf(r)'
      OBVIOUS
    <3>4. S \in SUBSET Build /\ T \in SUBSET Build /\ S \subseteq T /\ (r = Ref(b) => b \in T /\ b \notin S)
      BY <3>1, <3>2, <3>3
    <3>5. Cardinality(S) \in Nat /\ Cardinality(T) \in Nat /\ IsFiniteSet(S) /\ Cardinality(S) <= Cardinality(T)
      BY <3>4, BuildDefaults
    <3>6. image[r].wraps \in Nat /\ image[r].wraps <= Cardinality(S)
      BY <3>2, StoreTyped DEF BuildInv, LayersCounted
    <3>7. r = Ref(b) => Cardinality(S) + 1 <= Cardinality(T)
      <4> SUFFICES ASSUME r = Ref(b) PROVE Cardinality(S) + 1 <= Cardinality(T)
        OBVIOUS
      <4>1. Cardinality(S \cup {b}) = Cardinality(S) + 1
        BY <3>4, <3>5, FS_AddElement
      <4>2. S \cup {b} \subseteq T /\ T \subseteq Build
        BY <3>4
      <4> QED
        BY <4>1, <4>2, BuildDefaults
    <3>8. image'[r].wraps <= Cardinality(T)
      BY <1>5, <1>8, <1>10, <3>5, <3>6, <3>7
    <3> QED
      BY <3>3, <3>8
  <2> QED
    BY <2>1 DEF LayersCounted
<1>12. /\ \A c \in Build : tarball'[tag[b]] = c => tag[c] = tag[b] /\ at'[c] \notin NothingTarred
       /\ \A c \in ctx'[tag[b]] : tag[c] = tag[b] /\ (mixed[c] \/ at'[c] \in Packed)
       /\ \A c \in image[Ref(b)].src : mixed[c] \/ at'[c] \in Built
  BY ZenonT(40), <1>1, <1>2, <1>3, Carried, StoreTyped
<1>13. \A c \in image'[Ref(b)].src : mixed[c] \/ at'[c] \in Built
  BY <1>5, <1>8, <1>10, <1>12
<1>14. ~mixed[b] => OwnWork(b)'
  <2> SUFFICES ASSUME ~mixed[b] PROVE OwnWork(b)'
    OBVIOUS
  <2>1. i = [src |-> {b}, wraps |-> 0]
    BY <1>1, <1>5 DEF BuildInv, OwnWork
  <2>2. CASE l = "cleanup"
    <3>1. result'[b] = "refused"
      BY <1>2, <2>2 DEF BuildInv, BuildTypeOK
    <3> QED
      BY <1>4, <2>2, <3>1 DEF OwnWork
  <2>3. CASE l = "check"
    <3>1. k = [src |-> {b}, wraps |-> 1]
      BY <1>6, <2>1
    <3>2. image[Ref(b)]' = k
      BY <1>4, <1>10, <2>3
    <3> QED
      BY <1>4, <2>3, <3>1, <3>2 DEF OwnWork
  <2> QED
    BY <1>2, <2>2, <2>3
<1>15. result' \in {result, [result EXCEPT ![b] = "refused"]}
  BY <1>2
<1>16. tarball' \in [Tag -> Build \cup {NoBuild}] /\ ctx' \in [Tag -> SUBSET Build]
  BY <1>1, StoreTyped
<1> QED
  BY <1>1, <1>2, <1>3, <1>10, <1>11, <1>12, <1>13, <1>14, <1>15, <1>16, StoreStep

LEMMA CleanupStep ==
    ASSUME BuildInv, NEW b \in Build, Cleanup(b)
    PROVE  BuildInv'
<1>1. /\ at[b] = "cleanup" /\ at' = [at EXCEPT ![b] = "resume"] /\ ctx' = [ctx EXCEPT ![tag[b]] = {}]
      /\ tarball' = [tarball EXCEPT ![tag[b]] = NoBuild] \/ tarball' = tarball
      /\ UNCHANGED <<asked, paused, result, mixed, disk, stops, image, buildkit>>
  BY DEF Cleanup, To
<1>2. at[b] \notin NothingStopped \cup {"over"} /\ "resume" \notin NothingStopped
      /\ "resume" \in Stages \ {"over"} /\ Forward(at[b], "resume")
  BY <1>1 DEF Forward, Layered, Built, Packed, NothingTarred, NothingStopped, Stages
<1>3. at'[b] = "resume" /\ (\A c \in Build : Ref(c)' = Ref(c)) /\ \A c \in Build : c # b => at'[c] = at[c]
  BY <1>1 DEF BuildInv, BuildTypeOK, asked, Ref
<1>4. ctx' \in [Tag -> SUBSET Build] /\ ctx'[tag[b]] = {} /\ \A t \in Tag : t # tag[b] => ctx'[t] = ctx[t]
  BY <1>1, StoreTyped
<1>5. /\ tarball' \in [Tag -> Build \cup {NoBuild}] /\ tarball'[tag[b]] \in {NoBuild, tarball[tag[b]]}
      /\ \A t \in Tag : t # tag[b] => tarball'[t] = tarball[t]
  BY <1>1, StoreTyped
<1>6. ~mixed[b] => OwnWork(b)'
  BY <1>1, <1>3 DEF BuildInv, OwnWork
<1>7. LayersCounted'
  BY <1>1, <1>3, CountKept DEF Layered
<1>8. /\ \A c \in Build : tarball[tag[b]] = c => tag[c] = tag[b] /\ at'[c] \notin NothingTarred
      /\ \A c \in image'[Ref(b)].src : mixed[c] \/ at'[c] \in Built
  BY <1>1, <1>2, Carried, StoreTyped
<1>9. \A c \in Build : tarball'[tag[b]] = c => tag[c] = tag[b] /\ at'[c] \notin NothingTarred
  BY <1>5, <1>8, BuildConstants
<1>10. image' \in [Refs -> [src : SUBSET Build, wraps : Nat]]
  BY <1>1, StoreTyped
<1> QED
  BY <1>1, <1>2, <1>4, <1>5, <1>6, <1>7, <1>8, <1>9, <1>10, StoreStep

\* The sandbox by itself: a new project, a dev server its user stops.
LEMMA SandboxStep ==
    ASSUME BuildInv, NEW p \in Proj, Scaffold(p) \/ UserStops(p)
    PROVE  BuildInv'
<1>1. UNCHANGED <<at, proj, tag, paused, result, mixed, tarball, ctx, image, buildkit>>
  BY DEF Scaffold, UserStops, asked, store
<1>2. /\ disk' \subseteq Proj /\ dev' \in [Proj -> {"up", "down"}]
      /\ downBy' \in [Proj -> Build \cup {"lost", "failed", "user", "none"}]
      /\ \A q \in Proj : downBy'[q] = downBy[q] \/ downBy'[q] = "user"
  BY SMTT(30) DEF Scaffold, UserStops, stops, BuildInv, BuildTypeOK
<1>3. BuildTypeOK'
  BY <1>1, <1>2 DEF BuildInv, BuildTypeOK, InContext
<1>4. LayersCounted'
  BY <1>1 DEF BuildInv, LayersCounted, LayeredOf, Ref
<1>5. PausesOK'
  BY <1>1, <1>2, BuildConstants DEF BuildInv, PausesOK, DevComesBack
<1>6. SourcesOK'
  BY <1>1 DEF BuildInv, SourcesOK, Active
<1>7. \A b \in Build : ~mixed'[b] => OwnWork(b)'
  BY <1>1 DEF BuildInv, OwnWork, Ref
<1> QED
  BY <1>3, <1>4, <1>5, <1>6, <1>7 DEF BuildInv

LEMMA BuildNextInv == BuildInv /\ [BuildNext]_buildVars => BuildInv'
<1> SUFFICES ASSUME BuildInv, [BuildNext]_buildVars PROVE BuildInv'
  OBVIOUS
<1>1. ASSUME NEW b \in Build, BuildStep(b) PROVE BuildInv'
  BY <1>1, SettleStep, ListStep, PauseStep, PreflightStep, BuildKitStep, TarStep, CtxDirStep, DownloadStep,
     RailpackStep, WrapStep, CheckStep, CleanupStep, ResumeStep DEF BuildStep
<1>2. CASE UNCHANGED buildVars
  <2>1. UNCHANGED <<at, proj, tag, paused, result, mixed, disk, dev, downBy, tarball, ctx, image, buildkit>>
    BY <1>2 DEF buildVars, asked, stops, store
  <2>2. BuildTypeOK'
    BY <2>1 DEF BuildInv, BuildTypeOK, InContext
  <2>3. LayersCounted' /\ SourcesOK'
    BY <2>1 DEF BuildInv, LayersCounted, LayeredOf, Ref, SourcesOK, Active
  <2>4. PausesOK' /\ \A b \in Build : ~mixed'[b] => OwnWork(b)'
    BY <2>1 DEF BuildInv, PausesOK, DevComesBack, OwnWork, Ref
  <2> QED
    BY <2>2, <2>3, <2>4 DEF BuildInv
<1> QED
  BY <1>1, <1>2, SendStep, SandboxStep DEF BuildNext

LEMMA BuildRight == BuildInv => BuildTypeOK /\ BuildsHold
BY DEF BuildInv, PausesOK, BuildsHold, BuildIsOwn, OwnWork
-----------------------------------------------------------------------------
(* The provisioner: sandboxes and the builds in them.                      *)

LEMMA ProvParts ==
    [ProvNext]_<<part, vars, buildVars>> => UNCHANGED part /\ [Next]_vars /\ [BuildNext]_buildVars
BY DEF ProvNext

LEMMA ProvInitInv == ProvInit => IInv /\ BuildInv
BY InitIInv, BuildInitInv DEF ProvInit

LEMMA ProvStep ==
    IInv /\ BuildInv /\ [ProvNext]_<<part, vars, buildVars>> => (IInv /\ BuildInv)'
BY ProvParts, NextIInv, BuildNextInv

\* Sandboxes and builds stay well-typed; a directory with source in it belongs to a build
\* that is under way and will remove it.
THEOREM ProvisionerIsTyped == ProvSpec => []ProvTypeOK
<1>1. IInv /\ BuildInv => ProvTypeOK
  BY BuildRight DEF ProvTypeOK, IInv
<1> QED
  BY ProvInitInv, ProvStep, <1>1, PTL DEF ProvSpec

\* For any number of builds, projects and tags, whatever fails and whichever clients go
\* away: a dev server that a build has stopped is on the list of a build that will start
\* it again, and an image answered to a build that was alone with its tag is of that
\* build's source only, under one layer of authproxy.
THEOREM BuildsKeepTheirPromises == ProvSpec => []BuildsHold
<1>1. IInv /\ BuildInv => BuildsHold
  BY BuildRight
<1> QED
  BY ProvInitInv, ProvStep, <1>1, PTL DEF ProvSpec

\* A behaviour of the provisioner is one of its sandboxes and one of its builds.
THEOREM ProvisionerHasItsParts == ProvSpec => Spec /\ BuildSpec
<1>1. ProvInit => Init /\ BuildInit
  BY DEF ProvInit
<1> QED
  BY <1>1, ProvParts, PTL DEF ProvSpec, Spec, BuildSpec
==============================================================================
