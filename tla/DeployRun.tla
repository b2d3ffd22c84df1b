----------------------------- MODULE DeployRun -----------------------------
(***************************************************************************)
(* pkg/provisioner/deploy_run.go: the runs and stops of one deployment,    *)
(* with the garbage collection of gc.go next to them.                      *)
(* There is no lock: a run removes whatever container has the deployment's *)
(* name, creates its own under that name, and removes the name again when  *)
(* its health gate fails.  The Docker daemon keeps names unique.           *)
(***************************************************************************)
EXTENDS Naturals

CONSTANTS
    Run,            \* bound: POST /api/deployments for the one id; a run names its container
    MaxRetry,       \* bound: restarts by the daemon (MaximumRetryCount 5)
    NoRun

ASSUME RunConstants == MaxRetry \in Nat /\ NoRun \notin Run

VARIABLES
    rpc,        \* of a run: see RunTypeOK
    ctr,        \* its container: "none", "created", "running", "exited", "removed"
    name,       \* the container that has the name, or NoRun
    listens,    \* the app inside has bound its port
    retries,    \* restarts of a container so far
    ip,         \* the run has cached its container's address
    taken,      \* somebody other than its own run removed the container
    gcplan      \* the containers a POST /api/gc has still to remove

runVars == <<rpc, ctr, name, listens, retries, ip, taken, gcplan>>

RunTypeOK ==
    /\ rpc \in [Run -> {"idle", "pull", "remove", "create", "start", "gate", "sick",
                        "running", "refused", "reaped"}]
    /\ ctr \in [Run -> {"none", "created", "running", "exited", "removed"}]
    /\ name \in Run \cup {NoRun} /\ {listens, ip, taken} \subseteq [Run -> BOOLEAN]
    /\ retries \in [Run -> 0..MaxRetry] /\ gcplan \subseteq Run

RunInit ==
    /\ rpc = [r \in Run |-> "idle"] /\ ctr = [r \in Run |-> "none"] /\ name = NoRun
    /\ listens = [r \in Run |-> FALSE] /\ retries = [r \in Run |-> 0]
    /\ ip = [r \in Run |-> FALSE] /\ taken = [r \in Run |-> FALSE]
    /\ gcplan = {}

Then(r, l) == rpc' = [rpc EXCEPT ![r] = l]

\* ContainerRemove(name, Force), for run r or (NoRun) for a stop.
RemoveByName(r) ==
    IF name = NoRun THEN UNCHANGED <<ctr, name, listens, taken>>
    ELSE /\ ctr' = [ctr EXCEPT ![name] = "removed"] /\ name' = NoRun
         /\ listens' = [listens EXCEPT ![name] = FALSE]
         /\ taken' = [taken EXCEPT ![name] = @ \/ name # r]

-----------------------------------------------------------------------------
(* handleDeploymentRun.                                                    *)

\* A request, with or without registry credentials.
DeployStarts(r) ==
    /\ rpc[r] = "idle" /\ \E l \in {"pull", "remove"} : Then(r, l)
    /\ UNCHANGED <<ctr, name, listens, retries, ip, taken, gcplan>>

\* pullForDeploy: the stream is drained, and an error frame in it is an error (502).
PullImage(r) ==
    /\ rpc[r] = "pull" /\ \E l \in {"remove", "refused"} : Then(r, l)
    /\ UNCHANGED <<ctr, name, listens, retries, ip, taken, gcplan>>

\* The predecessor goes; whether that worked is not looked at.
RemoveOld(r) ==
    /\ rpc[r] = "remove" /\ Then(r, "create")
    /\ \/ RemoveByName(r)
       \/ UNCHANGED <<ctr, name, listens, taken>>
    /\ UNCHANGED <<retries, ip, gcplan>>

\* A name that is taken is a conflict, and there are other errors: 502.
CreateContainer(r) ==
    /\ rpc[r] = "create"
    /\ \/ name = NoRun /\ name' = r /\ ctr' = [ctr EXCEPT ![r] = "created"] /\ Then(r, "start")
       \/ Then(r, "refused") /\ UNCHANGED <<ctr, name>>
    /\ UNCHANGED <<listens, retries, ip, taken, gcplan>>

\* By id.  On an error (the container is gone, the client is) it stays as it is.
StartContainer(r) ==
    /\ rpc[r] = "start"
    /\ \/ ctr[r] = "created" /\ ctr' = [ctr EXCEPT ![r] = "running"] /\ Then(r, "gate")
       \/ Then(r, "refused") /\ UNCHANGED ctr
    /\ UNCHANGED <<name, listens, retries, ip, taken, gcplan>>

\* waitForDeploymentPort: until an inspect yields an address, an exited container
\* ends the wait.
GateInspect(r) ==
    /\ rpc[r] = "gate" /\ ~ip[r]
    /\ \/ ctr[r] = "running" /\ ip' = [ip EXCEPT ![r] = TRUE] /\ UNCHANGED rpc
       \/ ctr[r] = "exited" /\ Then(r, "sick") /\ UNCHANGED ip
    /\ UNCHANGED <<ctr, name, listens, retries, taken, gcplan>>

\* The cached address answers: the app, or, once its container is gone, whichever
\* container the daemon has given the address to.
Answers(r) == listens[r] \/ (ctr[r] = "removed" /\ \E s \in Run : listens[s])

GateDial(r) ==
    /\ rpc[r] = "gate" /\ ip[r] /\ Answers(r) /\ Then(r, "running")
    /\ UNCHANGED <<ctr, name, listens, retries, ip, taken, gcplan>>

\* 120 seconds, or the client has gone.
GateGivesUp(r) ==
    /\ rpc[r] = "gate" /\ Then(r, "sick")
    /\ UNCHANGED <<ctr, name, listens, retries, ip, taken, gcplan>>

\* MUTANT: with the request's context, which may be over.
ReapRun_RequestContext(r) ==
    /\ rpc[r] = "sick" /\ Then(r, "reaped")
    /\ RemoveByName(r) \/ UNCHANGED <<ctr, name, listens, taken>>
    /\ UNCHANGED <<retries, ip, gcplan>>

\* The logs are fetched by id; then the name is removed, with a context of its own (the
\* daemon is taken not to refuse that: the error is passed over).
ReapRun(r) ==
    /\ rpc[r] = "sick" /\ Then(r, "reaped") /\ RemoveByName(r)
    /\ UNCHANGED <<retries, ip, gcplan>>

-----------------------------------------------------------------------------
(* handleDeploymentStop, and the container.                                *)

\* By name; no such container is a success.
DeploymentStop ==
    /\ name # NoRun /\ RemoveByName(NoRun)
    /\ UNCHANGED <<rpc, retries, ip, gcplan>>

AppListens(r) ==
    /\ ctr[r] = "running" /\ ~listens[r] /\ listens' = [listens EXCEPT ![r] = TRUE]
    /\ UNCHANGED <<rpc, ctr, name, retries, ip, taken, gcplan>>

\* Restarted on failure a few times, then left alone.
AppCrashes(r) ==
    /\ ctr[r] = "running" /\ listens' = [listens EXCEPT ![r] = FALSE]
    /\ IF retries[r] < MaxRetry
       THEN retries' = [retries EXCEPT ![r] = @ + 1] /\ UNCHANGED ctr
       ELSE ctr' = [ctr EXCEPT ![r] = "exited"] /\ UNCHANGED retries
    /\ UNCHANGED <<rpc, name, ip, taken, gcplan>>

-----------------------------------------------------------------------------
(* gc.go.                                                                  *)

\* gcContainerReclaimable.
Reclaimable(state) == state \in {"created", "exited"}

\* gcPlanRemovals: of what is asked for, what may go now and what is an error.
GcPlan(candidates, asked) == [remove |-> asked \cap candidates, errors |-> asked \ candidates]

\* handleGC: the candidates are collected again and the request is held against them.
CollectGarbage ==
    /\ gcplan = {}
    /\ \E asked \in SUBSET Run \ {{}} :
          gcplan' = GcPlan({r \in Run : Reclaimable(ctr[r])}, asked).remove
    /\ gcplan' # {}
    /\ UNCHANGED <<rpc, ctr, name, listens, retries, ip, taken>>

\* ContainerRemove by id and without Force: Docker refuses what runs by now.
GcRemove(r) ==
    /\ r \in gcplan /\ gcplan' = gcplan \ {r}
    /\ IF Reclaimable(ctr[r])
       THEN /\ ctr' = [ctr EXCEPT ![r] = "removed"] /\ taken' = [taken EXCEPT ![r] = TRUE]
            /\ name' = IF name = r THEN NoRun ELSE name
       ELSE UNCHANGED <<ctr, taken, name>>
    /\ UNCHANGED <<rpc, listens, retries, ip>>

DeployStep(r) ==
    \/ PullImage(r) \/ RemoveOld(r) \/ CreateContainer(r) \/ StartContainer(r)
    \/ GateInspect(r) \/ GateDial(r) \/ GateGivesUp(r) \/ ReapRun(r)

RunNext ==
    \/ \E r \in Run : DeployStarts(r) \/ DeployStep(r) \/ AppListens(r) \/ AppCrashes(r)
                      \/ GcRemove(r)
    \/ DeploymentStop \/ CollectGarbage

RunSpec == RunInit /\ [][RunNext]_runVars

-----------------------------------------------------------------------------
(* Properties.                                                             *)

\* What handleDeploymentGet shows and handleDeploymentProxy serves: the container
\* that has the name, if it runs.
Served == IF name # NoRun /\ ctr[name] = "running" THEN name ELSE NoRun

\* A run that answered "running" is what the proxy serves, unless a later run or a
\* stop took the name from it or its app crashed for good; and a run whose health
\* gate failed leaves "no broken container running + retrying" behind.
RunsHonest ==
    /\ \A r \in Run : rpc[r] = "running" /\ ~taken[r] /\ ctr[r] # "exited" => Served = r
    /\ \A r \in Run : rpc[r] = "reaped" => ctr[r] = "removed"

\* deploy_run.go:209, "Reap so we don't leave a broken container running": the reap
\* takes the broken one, not the healthy one of another run.
ReapsOwn ==
    [][\A r, s \in Run : rpc[r] = "sick" /\ rpc'[r] = "reaped" /\ s # r /\ rpc[s] = "running"
            => ctr'[s] = ctr[s]]_runVars

\* gc.go:37, "Exited agentry DEPLOYMENT containers": not the one a run has just created.
GcSparesRuns ==
    [][\A r \in Run : rpc[r] = "start" /\ r \in gcplan /\ r \notin gcplan' => ctr'[r] = ctr[r]]_runVars
==============================================================================
