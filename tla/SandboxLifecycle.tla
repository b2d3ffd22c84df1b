-------------------------- MODULE SandboxLifecycle --------------------------
(***************************************************************************)
(* Sandbox lifecycle on the Docker backend: the provisioner's create,      *)
(* delete, evict and renew handlers (provisioner.go), the TTL reaper       *)
(* (reaper.go, ttl.go) and the Docker backend they all call                *)
(* (docker_client.go).  Every HTTP request runs in its own goroutine and   *)
(* no lock spans a handler, so one call to the Docker daemon, or one       *)
(* critical section of the annotation overlay, is one step, and the steps  *)
(* of all handlers and of the reaper interleave.                           *)
(*                                                                         *)
(* The daemon's containers outlive the provisioner; the overlay, the       *)
(* handlers and the reaper do not (Crash).                                 *)
(***************************************************************************)
EXTENDS Integers, FiniteSets

CONSTANTS
  Procs,          \* request goroutines: how many requests can be in flight
  Names,          \* sandbox ids a client may ask for
  FreshIds,       \* the <name>-<4hex> ids allocFreshSandboxID can draw
  TTLs,           \* ttl_seconds values of requests; 0 means "no TTL"
  TicksPerSecond, \* resolution of time.Now() relative to RFC3339 seconds
  MaxTime,        \* bound on the clock, in ticks
  MaxInc          \* bound on the number of containers ever created

ASSUME ProcsAssumption == Procs # {}
ASSUME IdsAssumption == Names # {} /\ Names \cap FreshIds = {}
ASSUME TTLAssumption == TTLs \subseteq Nat
ASSUME ClockAssumption == TicksPerSecond \in Nat \ {0} /\ MaxTime \in Nat
ASSUME IncAssumption == MaxInc \in Nat

Ids == Names \cup FreshIds

VARIABLES
  containers, \* the daemon's container of each sandbox id
  overlay,    \* DockerBackend.overlay: annotations written after creation
  now,        \* the clock, in ticks
  nextInc,    \* next container identity (Docker's container id)
  job,        \* the request each goroutine is handling, and how far it is
  expired,    \* ids the current sweep found expired and has yet to remove
  dropping    \* ids the sweep has removed, with the overlay still to drop

vars == <<containers, overlay, now, nextInc, job, expired, dropping>>

----------------------------------------------------------------------------
(* Data.  An expiry of 0 is Go's zero Time: no TTL.                        *)

NoContainer == [inc |-> 0, state |-> "absent", exp |-> 0, ttl |-> 0,
                stopped |-> FALSE, renewed |-> FALSE, holders |-> 0]

(* History: stopped (it has stopped running at least once), renewed (a     *)
(* renew request that found this very container has set its deadline) and  *)
(* holders (how many non-reuse creates were answered with it, up to 2).    *)
Container ==
  [inc : Nat,
   state : {"absent", "created", "running", "restarting", "exited"},
   exp : Nat, ttl : Nat, stopped : BOOLEAN, renewed : BOOLEAN, holders : 0..2]

NewContainer(inc, exp, ttl) ==
  [inc |-> inc, state |-> "created", exp |-> exp, ttl |-> ttl,
   stopped |-> FALSE, renewed |-> FALSE, holders |-> 0]

NoOverlay == [exp |-> 0, ttl |-> 0]

IdleJob == [pc |-> "idle", id |-> CHOOSE n \in Names : TRUE,
            ttl |-> 0, reuse |-> FALSE, exp |-> 0, mine |-> 0,
            got |-> 0, blind |-> FALSE, seen |-> {}]

PCs == {"idle", "check", "alloc", "create", "start", "egress", "wait",
        "probe", "phase", "remove", "drop", "annots", "set"}

(* mine is the container this request created.  got (the container it was  *)
(* shown, by its port or by its annotations), blind (the collision check failed to ask the daemon) and  *)
(* seen (the containers promised before the request came in) are history.  *)
Job ==
  [pc : PCs, id : Ids, ttl : Nat, reuse : BOOLEAN, exp : Nat, mine : Nat, got : Nat,
   blind : BOOLEAN, seen : SUBSET Nat]

Exists(id) == containers[id].state # "absent"

(* GetNodePort returns a port only while the container runs: Docker has no *)
(* published port for a created or exited container.                       *)
GetNodePort(id) == containers[id].state = "running"

(* Format(time.RFC3339) drops the fraction of a second. *)
FormatRFC3339(t) == (t \div TicksPerSecond) * TicksPerSecond

expiresAtFromTTL(t, ttl) ==
  IF ttl <= 0 THEN 0 ELSE FormatRFC3339(t + ttl * TicksPerSecond)

isExpired(exp, t) == exp # 0 /\ t >= exp

(* The overlay always carries both annotations, and wins over the labels.  *)
expiresAtFor(id) ==
  IF overlay[id].exp # 0 THEN overlay[id].exp ELSE containers[id].exp

GetPodAnnotationsTTL(id) ==
  IF overlay[id].exp # 0 THEN overlay[id].ttl ELSE containers[id].ttl

Become(p, f) == job' = [job EXCEPT ![p] = f]

Goto(p, where) == job' = [job EXCEPT ![p].pc = where]

(* The handler writes its response, whatever the status, and returns. *)
Respond(p) == job' = [job EXCEPT ![p] = IdleJob]

----------------------------------------------------------------------------
(* POST /api/sandboxes.  The request is validated before any state is      *)
(* touched; requests refused with 400 leave no trace and are not modelled. *)
(* seen is history: the containers already promised to an earlier caller.  *)

BeginCreate(p, id, ttl, reuse) ==
  /\ job[p].pc = "idle"
  /\ Become(p, [IdleJob EXCEPT !.pc = "check", !.id = id, !.ttl = ttl,
                !.reuse = reuse,
                !.seen = {containers[i].inc : i \in
                            {j \in Ids : containers[j].holders > 0}}])
  /\ UNCHANGED <<containers, overlay, now, nextInc, expired, dropping>>

(* The id is taken to be free: fix the annotations and go on to CreatePod. *)
Claim(p, id, failed) ==
  Become(p, [job[p] EXCEPT !.pc = "create", !.id = id, !.blind = failed,
             !.exp = expiresAtFromTTL(now, job[p].ttl)])

(* GetNodePort on the requested name decides between joining the sandbox,  *)
(* drawing a suffixed id, and creating under the requested name.  A failed *)
(* inspect is taken for "no such sandbox".                                 *)
CheckCollision(p) ==
  LET id == job[p].id IN
  /\ job[p].pc = "check"
  /\ \/ GetNodePort(id) /\ job[p].reuse /\ Respond(p)
     \/ GetNodePort(id) /\ ~job[p].reuse /\ Goto(p, "alloc")
     \/ ~GetNodePort(id) /\ Claim(p, id, FALSE)
     \/ Claim(p, id, TRUE)                              \* inspect failed
  /\ UNCHANGED <<containers, overlay, now, nextInc, expired, dropping>>

(* Mutant: a collision keeps the requested name. *)
allocFreshSandboxID_SameName(p) ==
  /\ job[p].pc = "alloc"
  /\ Claim(p, job[p].id, FALSE)
  /\ UNCHANGED <<containers, overlay, now, nextInc, expired, dropping>>

(* Eight random suffixes, the first without a port is taken; the attempts  *)
(* that collide change nothing.                                            *)
allocFreshSandboxID(p) ==
  /\ job[p].pc = "alloc"
  /\ \/ \E id \in FreshIds : ~GetNodePort(id) /\ Claim(p, id, FALSE)
     \/ \E id \in FreshIds : Claim(p, id, TRUE)         \* inspect failed
     \/ (\E id \in FreshIds : GetNodePort(id)) /\ Respond(p)
  /\ UNCHANGED <<containers, overlay, now, nextInc, expired, dropping>>

(* CreatePod up to ContainerCreate.  A name conflict is reported as        *)
(* success, and the caller goes on to wait for the existing container.     *)
(* When the client hangs up (the request's context ends) the daemon may    *)
(* have created the container all the same.                                *)
ContainerCreate(p) ==
  LET id == job[p].id IN
  /\ job[p].pc = "create"
  /\ \/ /\ ~Exists(id)
        /\ nextInc <= MaxInc
        /\ containers' = [containers EXCEPT ![id] =
                            NewContainer(nextInc, job[p].exp, job[p].ttl)]
        /\ nextInc' = nextInc + 1
        /\ \/ Become(p, [job[p] EXCEPT !.pc = "start", !.mine = nextInc,
                                       !.ttl = 0, !.exp = 0])
           \/ Respond(p)                                    \* reply lost
     \/ /\ Exists(id)
        /\ Become(p, [job[p] EXCEPT !.pc = "wait", !.ttl = 0, !.exp = 0])
        /\ UNCHANGED <<containers, nextInc>>
     \/ Respond(p) /\ UNCHANGED <<containers, nextInc>>  \* daemon error: 500
  /\ UNCHANGED <<overlay, now, expired, dropping>>

(* Mutant: clean up by name, as DeletePod does. *)
RemoveMine_ByName(p) == containers' = [containers EXCEPT ![job[p].id] = NoContainer]

(* Removing by the id ContainerCreate returned, never by name. *)
RemoveMine(p) ==
  containers' = [i \in Ids |-> IF containers[i].inc = job[p].mine
                               THEN NoContainer ELSE containers[i]]

(* The cleanup is best effort: it runs under the request's own context and *)
(* fails when that is what broke the step before it.                       *)
RollbackCreate(p) ==
  /\ RemoveMine(p) \/ UNCHANGED containers
  /\ Respond(p)

(* ContainerStart addresses the container by id, and fails if it is gone. *)
ContainerStart(p) ==
  LET id == job[p].id IN
  /\ job[p].pc = "start"
  /\ \/ /\ containers[id].inc = job[p].mine
        /\ containers' = [containers EXCEPT ![id].state = "running"]
        /\ Goto(p, "egress") \/ Respond(p)                   \* reply lost
     \/ RollbackCreate(p)
  /\ UNCHANGED <<overlay, now, nextInc, expired, dropping>>

(* The egress sidecar (skipped when no policy is set) joins the network    *)
(* namespace of the container; CreateService is a no-op.                   *)
ApplyEgress(p) ==
  /\ job[p].pc = "egress"
  /\ \/ Goto(p, "wait") /\ UNCHANGED containers
     \/ RollbackCreate(p)
  /\ UNCHANGED <<overlay, now, nextInc, expired, dropping>>

(* Twenty polls of GetNodePort, then 500; the container is left behind. *)
WaitNodePort(p) ==
  /\ job[p].pc = "wait"
  /\ \/ /\ GetNodePort(job[p].id)
        /\ Become(p, [job[p] EXCEPT !.pc = "probe",
                      !.got = containers[job[p].id].inc])
     \/ Respond(p)
  /\ UNCHANGED <<containers, overlay, now, nextInc, expired, dropping>>

(* readyProbe, the AGENTRY_APP_NAME stamp (its failure is only logged) and *)
(* the answer.  A failed probe is a 500 that leaves the container behind.  *)
AnswerCreate(p) ==
  LET id == job[p].id IN
  /\ job[p].pc = "probe"
  /\ \/ UNCHANGED containers
     \/ /\ containers[id].inc = job[p].got
        /\ containers' = [containers EXCEPT ![id].holders =
                            IF job[p].reuse \/ @ = 2 THEN @ ELSE @ + 1]
  /\ Respond(p)
  /\ UNCHANGED <<overlay, now, nextInc, expired, dropping>>

----------------------------------------------------------------------------
(* DELETE /api/sandboxes/{id} and POST .../evict.  DeleteService is a      *)
(* no-op on Docker; DeletePod removes by name, then drops the overlay.     *)

BeginDelete(p, id) ==
  /\ job[p].pc = "idle"
  /\ \E pc \in {"phase", "remove"} :  \* evict looks at the phase first
       Become(p, [IdleJob EXCEPT !.pc = pc, !.id = id])
  /\ UNCHANGED <<containers, overlay, now, nextInc, expired, dropping>>

(* Evict only goes on for the phases Running and Pending; a failed inspect *)
(* is phase Unknown.                                                       *)
EvictPhase(p) ==
  /\ job[p].pc = "phase"
  /\ \/ /\ containers[job[p].id].state \in {"running", "created", "restarting"}
        /\ Goto(p, "remove")
     \/ Respond(p)
  /\ UNCHANGED <<containers, overlay, now, nextInc, expired, dropping>>

DeletePodRemove(p) ==
  /\ job[p].pc = "remove"
  /\ \/ /\ containers' = [containers EXCEPT ![job[p].id] = NoContainer]
        /\ Goto(p, "drop") \/ Respond(p)                     \* reply lost
     \/ UNCHANGED containers /\ Respond(p)            \* daemon error: 500
  /\ UNCHANGED <<overlay, now, nextInc, expired, dropping>>

dropOverlay(p) ==
  /\ job[p].pc = "drop"
  /\ overlay' = [overlay EXCEPT ![job[p].id] = NoOverlay]
  /\ Respond(p)
  /\ UNCHANGED <<containers, now, nextInc, expired, dropping>>

----------------------------------------------------------------------------
(* POST /api/sandboxes/{id}/renew.  The annotations are read, then written *)
(* back; SetPodAnnotations does not ask the daemon whether the container   *)
(* is still there.                                                         *)

BeginRenew(p, id, ttl) ==
  /\ job[p].pc = "idle"
  /\ Become(p, [IdleJob EXCEPT !.pc = "annots", !.id = id, !.ttl = ttl])
  /\ UNCHANGED <<containers, overlay, now, nextInc, expired, dropping>>

RenewRead(p) ==
  LET id  == job[p].id
      ttl == IF job[p].ttl # 0 THEN job[p].ttl ELSE GetPodAnnotationsTTL(id)
  IN
  /\ job[p].pc = "annots"
  /\ \/ /\ Exists(id) /\ ttl > 0
        /\ Become(p, [job[p] EXCEPT !.pc = "set", !.ttl = ttl,
                      !.got = containers[id].inc])
     \/ Respond(p)                                         \* 404 or 400
  /\ UNCHANGED <<containers, overlay, now, nextInc, expired, dropping>>

SetPodAnnotations(p) ==
  LET id == job[p].id IN
  /\ job[p].pc = "set"
  /\ overlay' = [overlay EXCEPT ![id] =
       [exp |-> expiresAtFromTTL(now, job[p].ttl), ttl |-> job[p].ttl]]
  /\ containers' = [containers EXCEPT ![id].renewed =
                      @ \/ containers[id].inc = job[p].got]
  /\ Respond(p)
  /\ UNCHANGED <<now, nextInc, expired, dropping>>

----------------------------------------------------------------------------
(* The reaper.  One sweep lists, then deletes what was expired in parallel *)
(* and waits for all of it before the next tick.                           *)

(* Mutant: only deadlines set at creation are looked at.                   *)
sweep_LabelsOnly ==
  /\ expired = {} /\ dropping = {}
  /\ expired' = {id \in Ids : GetNodePort(id) /\ isExpired(containers[id].exp, now)}
  /\ UNCHANGED <<containers, overlay, now, nextInc, job, dropping>>

sweep ==
  /\ expired = {} /\ dropping = {}
  /\ expired' = {id \in Ids : GetNodePort(id) /\ isExpired(expiresAtFor(id), now)}
  /\ UNCHANGED <<containers, overlay, now, nextInc, job, dropping>>

(* Mutant: a deletion under way is still on the list of the next goroutine. *)
ReapRemove_Kept(id) ==
  /\ id \in expired
  /\ containers' = [containers EXCEPT ![id] = NoContainer]
  /\ dropping' \in {dropping \cup {id}, dropping}
  /\ UNCHANGED <<expired, overlay, now, nextInc, job>>

(* reapOne: DeletePod by name.  An error is logged and the id is left for  *)
(* the next sweep; the overlay is kept even if only the reply was lost.    *)
ReapRemove(id) ==
  /\ id \in expired
  /\ expired' = expired \ {id}
  /\ containers' = [containers EXCEPT ![id] = NoContainer]
  /\ dropping' \in {dropping \cup {id}, dropping}
  /\ UNCHANGED <<overlay, now, nextInc, job>>

ReapError(id) ==
  /\ id \in expired
  /\ expired' = expired \ {id}
  /\ UNCHANGED <<containers, overlay, now, nextInc, job, dropping>>

ReapDrop(id) ==
  /\ id \in dropping
  /\ dropping' = dropping \ {id}
  /\ overlay' = [overlay EXCEPT ![id] = NoOverlay]
  /\ UNCHANGED <<containers, now, nextInc, job, expired>>

----------------------------------------------------------------------------
(* The environment. *)

Tick ==
  /\ now < MaxTime
  /\ now' = now + 1
  /\ UNCHANGED <<containers, overlay, nextInc, job, expired, dropping>>

(* The runtime process in the container ends; RestartPolicy on-failure has *)
(* the daemon start it again after a failure, at most three times.         *)
ContainerExit(id) ==
  /\ containers[id].state = "running"
  /\ \E s \in {"restarting", "exited"} :
       containers' = [containers EXCEPT ![id].state = s, ![id].stopped = TRUE]
  /\ UNCHANGED <<overlay, now, nextInc, job, expired, dropping>>

ContainerRestart(id) ==
  /\ containers[id].state = "restarting"
  /\ containers' = [containers EXCEPT ![id].state = "running"]
  /\ UNCHANGED <<overlay, now, nextInc, job, expired, dropping>>

(* The provisioner process stops and is started again. *)
Crash ==
  /\ job' = [p \in Procs |-> IdleJob]
  /\ overlay' = [id \in Ids |-> NoOverlay]
  /\ expired' = {} /\ dropping' = {}
  /\ UNCHANGED <<containers, now, nextInc>>

----------------------------------------------------------------------------

Init ==
  /\ containers = [id \in Ids |-> NoContainer]
  /\ overlay = [id \in Ids |-> NoOverlay]
  /\ now = TicksPerSecond
  /\ nextInc = 1
  /\ job = [p \in Procs |-> IdleJob]
  /\ expired = {} /\ dropping = {}

Begin(p) ==
  \E id \in Ids :
    \/ \E ttl \in TTLs : \E reuse \in BOOLEAN : BeginCreate(p, id, ttl, reuse)
    \/ BeginDelete(p, id)
    \/ \E ttl \in TTLs : BeginRenew(p, id, ttl)

(* One step of a request that is being handled. *)
Handle(p) ==
  \/ CheckCollision(p) \/ allocFreshSandboxID(p) \/ ContainerCreate(p)
  \/ ContainerStart(p) \/ ApplyEgress(p) \/ WaitNodePort(p) \/ AnswerCreate(p)
  \/ EvictPhase(p) \/ DeletePodRemove(p) \/ dropOverlay(p)
  \/ RenewRead(p) \/ SetPodAnnotations(p)

Reap == sweep \/ \E id \in Ids : ReapRemove(id) \/ ReapError(id) \/ ReapDrop(id)

Environment ==
  Tick \/ Crash \/ \E id \in Ids : ContainerExit(id) \/ ContainerRestart(id)

Next == (\E p \in Procs : Begin(p) \/ Handle(p)) \/ Reap \/ Environment

Spec == Init /\ [][Next]_vars

----------------------------------------------------------------------------
(* Properties. *)

(* Values are well formed, only present containers have an identity, and   *)
(* the reaper never has two deletions of one sandbox in flight: reapAll    *)
(* waits for its goroutines before the next sweep lists (reaper.go).       *)
TypeOK ==
  /\ containers \in [Ids -> Container]
  /\ \A id \in Ids : containers[id].inc = 0 <=> ~Exists(id)
  /\ overlay \in [Ids -> [exp : Nat, ttl : Nat]]
  /\ now \in Nat
  /\ nextInc \in Nat \ {0}
  /\ job \in [Procs -> Job]
  /\ expired \subseteq Ids /\ dropping \subseteq Ids
  /\ expired \cap dropping = {}

(* A create that arrives after a sandbox has been handed out and does not  *)
(* join it is never given that sandbox, whatever else is in flight, unless *)
(* it stopped in between or the collision check itself failed              *)
(* (handleCreate's two-arm collision policy).                              *)
CreateIsolation ==
  \A p \in Procs :
    LET c == containers[job[p].id] IN
    (job[p].pc = "probe" /\ ~job[p].blind) => ~(c.inc \in job[p].seen /\ ~c.stopped)

(* A create that fails after ContainerCreate removes at most the container *)
(* it made, even when its name has since been given to another one         *)
(* (CreatePod's cleanup by resp.ID).                                       *)
RollbackOwn ==
  [][\A p \in Procs :
       (job[p].pc \in {"start", "egress"} /\ job'[p].pc = "idle")
         => \A id \in Ids : containers[id].inc # job[p].mine
                             => (Exists(id) => containers'[id].state # "absent")]_vars

(* The inductive invariant behind CreateIsolation, in parts. *)

Ran(c) == c.state \notin {"absent", "created"}

(* Identities are handed out once. *)
IncsOK ==
  /\ \A id \in Ids : containers[id].inc < nextInc
  /\ \A i, j \in Ids : containers[i].inc = containers[j].inc => i = j \/ ~Exists(i)

(* A container that ran and has no port now has stopped, and only one that *)
(* ran is ever handed out.                                                 *)
HistoryOK ==
  \A id \in Ids :
    /\ containers[id].state \in {"restarting", "exited"} => containers[id].stopped
    /\ containers[id].holders > 0 => Ran(containers[id])

(* What a request remembers of containers is about containers that existed *)
(* and, for the ones it was shown a port of, that ran.  Past the collision *)
(* check, a container under the request's id that was promised before it   *)
(* came in has stopped since.                                              *)
JobOK(j) ==
  /\ j.pc \in {"start", "egress"} => j.mine # 0
  /\ j.pc = "probe" => j.got # 0
  /\ j.got < nextInc
  /\ \A n \in j.seen : n # 0 /\ n < nextInc
  /\ \A id \in Ids :
       /\ (j.pc = "probe" /\ containers[id].inc = j.got) => Ran(containers[id])
       /\ containers[id].inc \in j.seen => Ran(containers[id])
  /\ (j.pc \in {"create", "start", "egress", "wait", "probe"} /\ ~j.blind)
       => (containers[j.id].inc \in j.seen => containers[j.id].stopped)

IInv == TypeOK /\ IncsOK /\ HistoryOK /\ \A p \in Procs : JobOK(job[p])

(* Every request is answered: no handler waits for ever on the daemon.     *)
(* (handleCreate's twenty polls.)                                          *)
EveryRequestAnswered == \A p \in Procs : job[p].pc # "idle" ~> job[p].pc = "idle"

Overdue(id) == GetNodePort(id) /\ isExpired(expiresAtFor(id), now)

(* A running sandbox past its deadline, renewed or not, does not stay:     *)
(* failed deletions are retried by later sweeps (Reaper.Run).              *)
OverdueIsReaped == \A id \in Ids : Overdue(id) ~> ~Overdue(id)

(* What the comments promise and the code does not keep.                   *)

(* "two independent callers can't silently overwrite each other's          *)
(* workspace" (CreateRequest.ReuseExisting): no container is handed to two *)
(* callers that both asked for a sandbox of their own.                     *)
CreatorsIsolated == \A id \in Ids : containers[id].holders <= 1

Reaped(id) == id \in expired /\ id \notin expired' /\ Exists(id) /\ ~Exists(id)'

(* "Reaper deletes sandboxes whose expires-at annotation is in the past":  *)
(* what it deletes is past its deadline when it is deleted.                *)
ReapOnlyExpired ==
  [][\A id \in Ids : Reaped(id) => isExpired(expiresAtFor(id), now)]_vars

(* "0 or unset = no TTL (sandbox is immortal until explicitly deleted)":   *)
(* a sandbox created without TTL that nobody renewed has no deadline.      *)
ImmortalHasNoDeadline ==
  \A id \in Ids :
    (Exists(id) /\ containers[id].ttl = 0 /\ ~containers[id].renewed)
      => expiresAtFor(id) = 0

(* "asks the reaper to delete this sandbox after this many seconds": a     *)
(* sandbox past its deadline, running or not, is deleted or renewed.       *)
TTLHonoured ==
  \A id \in Ids :
    (Exists(id) /\ isExpired(expiresAtFor(id), now))
      ~> ~(Exists(id) /\ isExpired(expiresAtFor(id), now))

============================================================================
