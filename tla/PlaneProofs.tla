---------------------------- MODULE PlaneProofs ----------------------------
(***************************************************************************)
(* Proofs about the parts of the control plane, for any number of runs,    *)
(* calls, sites and visitors.  Every part has an inductive invariant of    *)
(* its own; the last section puts them together for MCControlPlane, whose  *)
(* behaviours move one part at a time.                                     *)
(***************************************************************************)
EXTENDS MCControlPlane, BridgeProofs, SequenceTheorems

-----------------------------------------------------------------------------
(* DeployRun: runs, stops and the garbage collection of one deployment.    *)

\* The containers that exist.
There == {"created", "running", "exited"}

\* What the progress of a run says of its container.
CtrOfRun(r) ==
    /\ rpc[r] \in {"idle", "pull", "remove", "create"} => ctr[r] = "none"
    /\ rpc[r] = "start" => ctr[r] \in {"created", "removed"}
    /\ rpc[r] = "refused" => ctr[r] \in {"none", "created", "removed"}
    /\ rpc[r] \in {"gate", "sick", "running"} => ctr[r] \in {"running", "exited", "removed"}
    /\ rpc[r] = "reaped" => ctr[r] = "removed"

\* Whoever exists has the name, so at most one does; and a container that is gone was
\* taken, or its own run reaped it.
RunOK(r) ==
    /\ CtrOfRun(r)
    /\ ctr[r] \in There => name = r
    /\ listens[r] => ctr[r] = "running"
    /\ ctr[r] = "removed" => taken[r] \/ rpc[r] = "reaped"

RunInv ==
    /\ RunTypeOK
    /\ name # NoRun => ctr[name] \in There
    /\ \A r \in Run : RunOK(r)

(* The invariant is more than RunsHonest.                                  *)
LEMMA RunInvHonest == RunInv => RunsHonest
BY RunConstants DEF RunInv, RunTypeOK, RunsHonest, RunOK, CtrOfRun, There, Served

LEMMA RunInitInv == RunInit => RunInv
BY RunConstants DEF RunInit, RunInv, RunTypeOK, RunOK, CtrOfRun, There

(* Every step of a run, of the app, of a stop and of a collection keeps    *)
(* the types.                                                              *)
RunTypes ==
    /\ rpc \in [Run -> {"idle", "pull", "remove", "create", "start", "gate", "sick",
                        "running", "refused", "reaped"}]
    /\ ctr \in [Run -> {"none", "created", "running", "exited", "removed"}]
    /\ name \in Run \cup {NoRun} /\ listens \in [Run -> BOOLEAN] /\ ip \in [Run -> BOOLEAN]
    /\ taken \in [Run -> BOOLEAN] /\ retries \in [Run -> 0..MaxRetry] /\ gcplan \subseteq Run

LEMMA RunStepType == RunTypeOK /\ [RunNext]_runVars => RunTypeOK'
<1> SUFFICES ASSUME RunTypes, [RunNext]_runVars PROVE RunTypes'
  BY DEF RunTypes, RunTypeOK
<1> USE RunConstants DEF RunTypes, Then
<1>1. ASSUME NEW r \in Run, DeployStarts(r) \/ PullImage(r) \/ GateDial(r) \/ GateGivesUp(r)
      PROVE  RunTypes'
  BY <1>1 DEF DeployStarts, PullImage, GateDial, GateGivesUp
<1>2. ASSUME NEW r \in Run \cup {NoRun}, RemoveByName(r)
      PROVE  /\ ctr' \in [Run -> {"none", "created", "running", "exited", "removed"}]
             /\ name' \in Run \cup {NoRun} /\ listens' \in [Run -> BOOLEAN]
             /\ taken' \in [Run -> BOOLEAN]
  BY <1>2 DEF RemoveByName
<1>3. ASSUME NEW r \in Run, RemoveOld(r) \/ ReapRun(r) PROVE RunTypes'
  BY <1>2, <1>3 DEF RemoveOld, ReapRun
<1>4. ASSUME NEW r \in Run, CreateContainer(r) PROVE RunTypes'
  BY <1>4 DEF CreateContainer
<1>5. ASSUME NEW r \in Run, StartContainer(r) \/ GateInspect(r) PROVE RunTypes'
  BY <1>5 DEF StartContainer, GateInspect
<1>6. ASSUME NEW r \in Run, AppListens(r) \/ AppCrashes(r) PROVE RunTypes'
  <2>1. retries[r] \in Nat /\ retries[r] < MaxRetry => retries[r] + 1 \in 0..MaxRetry
    OBVIOUS
  <2>2. CASE AppListens(r)
    BY <2>2 DEF AppListens
  <2>3. CASE AppCrashes(r)
    BY <2>1, <2>3 DEF AppCrashes
  <2> QED
    BY <1>6, <2>2, <2>3
<1>7. ASSUME NEW r \in Run, GcRemove(r) PROVE RunTypes'
  BY <1>7 DEF GcRemove, Reclaimable
<1>8. ASSUME DeploymentStop PROVE RunTypes'
  BY <1>2, <1>8 DEF DeploymentStop
<1>9. ASSUME CollectGarbage PROVE RunTypes'
  BY <1>9 DEF CollectGarbage, GcPlan, Reclaimable
<1> QED
  BY <1>1, <1>3, <1>4, <1>5, <1>6, <1>7, <1>8, <1>9 DEF RunNext, DeployStep, runVars

(* Whoever removes the name leaves every run with what its progress says:  *)
(* it is taken from the run that has it.                                   *)
LEMMA RemovedByName ==
    ASSUME RunInv, NEW r \in Run \cup {NoRun}, RemoveByName(r), NEW l,
           \/ r = NoRun /\ rpc' = rpc
           \/ r \in Run /\ rpc' = [rpc EXCEPT ![r] = l]
              /\ \/ rpc[r] = "remove" /\ l = "create"
                 \/ rpc[r] = "sick" /\ l = "reaped"
    PROVE  name' = NoRun /\ \A s \in Run : RunOK(s)'
<1> USE RunConstants DEF RunInv, RunTypeOK
<1>1. CASE name = NoRun
  BY <1>1 DEF RemoveByName, RunOK, CtrOfRun, There
<1>2. CASE name # NoRun
  <2> SUFFICES ASSUME NEW s \in Run PROVE RunOK(s)'
    BY <1>2 DEF RemoveByName
  <2>1. CASE s = name
    BY ZenonT(40), <1>2, <2>1 DEF RemoveByName, RunOK, CtrOfRun, There
  <2>2. CASE s # name
    <3>1. ctr'[s] = ctr[s] /\ listens'[s] = listens[s] /\ taken'[s] = taken[s]
          /\ ctr[s] \notin There
      BY <1>2, <2>2 DEF RemoveByName, RunOK
    <3> QED
      BY <3>1 DEF RunOK, CtrOfRun, There
  <2> QED
    BY <2>1, <2>2
<1> QED
  BY <1>1, <1>2

LEMMA RunStepInv == RunInv /\ [RunNext]_runVars => RunInv'
<1> SUFFICES ASSUME RunInv, [RunNext]_runVars
             PROVE  (name' # NoRun => ctr'[name'] \in There) /\ \A s \in Run : RunOK(s)'
  BY RunStepType DEF RunInv
<1> DEFINE Goal == (name' # NoRun => ctr'[name'] \in There) /\ \A s \in Run : RunOK(s)'
<1> USE RunConstants DEF RunInv, RunTypeOK, RunOK, CtrOfRun, There
<1>1. ASSUME NEW r \in Run, DeployStarts(r) PROVE Goal
  BY <1>1 DEF DeployStarts, Then
<1>2. ASSUME NEW r \in Run, PullImage(r) PROVE Goal
  BY <1>2 DEF PullImage, Then
<1>3. ASSUME NEW r \in Run, RemoveOld(r) PROVE Goal
  <2>1. CASE RemoveByName(r)
    BY <1>3, <2>1, RemovedByName DEF RemoveOld, Then
  <2>2. CASE UNCHANGED <<ctr, name, listens, taken>>
    BY <1>3, <2>2 DEF RemoveOld, Then
  <2> QED
    BY <1>3, <2>1, <2>2 DEF RemoveOld
<1>4. ASSUME NEW r \in Run, CreateContainer(r) PROVE Goal
  BY <1>4 DEF CreateContainer, Then
<1>5. ASSUME NEW r \in Run, StartContainer(r) PROVE Goal
  BY <1>5 DEF StartContainer, Then
<1>6. ASSUME NEW r \in Run, GateInspect(r) PROVE Goal
  BY <1>6 DEF GateInspect, Then
<1>7. ASSUME NEW r \in Run, GateDial(r) \/ GateGivesUp(r) PROVE Goal
  BY <1>7 DEF GateDial, GateGivesUp, Then
<1>8. ASSUME NEW r \in Run, ReapRun(r) PROVE Goal
  BY <1>8, RemovedByName DEF ReapRun, Then
<1>9. ASSUME NEW r \in Run, AppListens(r) \/ AppCrashes(r) PROVE Goal
  BY <1>9 DEF AppListens, AppCrashes
<1>10. ASSUME NEW r \in Run, GcRemove(r) PROVE Goal
  BY <1>10 DEF GcRemove, Reclaimable
<1>11. ASSUME DeploymentStop PROVE Goal
  BY <1>11, RemovedByName DEF DeploymentStop
<1>12. ASSUME CollectGarbage \/ UNCHANGED runVars PROVE Goal
  BY <1>12 DEF CollectGarbage, runVars
<1> QED
  BY <1>1, <1>2, <1>3, <1>4, <1>5, <1>6, <1>7, <1>8, <1>9, <1>10, <1>11, <1>12
     DEF RunNext, DeployStep

(* A run that answered "running" is what the proxy of the deployment       *)
(* serves, unless a later run or a stop took the name or the app crashed   *)
(* for good, and a run that reaped left no container (deploy_run.go).      *)
THEOREM RunsAreHonest == RunSpec => []RunsHonest
<1>1. RunSpec => []RunInv
  BY RunInitInv, RunStepInv, PTL DEF RunSpec
<1> QED
  BY <1>1, RunInvHonest, PTL
-----------------------------------------------------------------------------
(* SelfUpdate: what an updater leaves behind.                              *)

\* The updater is started while the provisioner is up, with the image of that; whatever
\* is up has an image, and so has what the updater may go back to.
UpdInv ==
    /\ UpdTypeOK /\ UpdateSafe
    /\ main.up => main.img # 0
    /\ Swapping => oldImg # 0

\* A container of image i, up or not, is one.
LEMMA MainType ==
    ASSUME NEW i \in 0..MaxImage, NEW b \in BOOLEAN, NEW m, m = [img |-> i, up |-> b]
    PROVE  m \in [img : 0..MaxImage, up : BOOLEAN] /\ m.img = i /\ m.up = b
OBVIOUS

LEMMA ImageTypes ==
    /\ 0 \in 0..MaxImage /\ 1 \in 0..MaxImage /\ 1 \in 1..MaxImage
    /\ \A i \in 1..MaxImage : i \in 0..MaxImage /\ i # 0
BY UpdateConstants

LEMMA UpdInitInv == UpdInit => UpdInv
<1> SUFFICES ASSUME UpdInit PROVE UpdInv
  OBVIOUS
<1>1. main \in [img : 0..MaxImage, up : BOOLEAN] /\ main.img = 1 /\ main.up
  BY ImageTypes, MainType DEF UpdInit
<1> QED
  BY <1>1, ImageTypes
     DEF UpdInit, UpdInv, UpdTypeOK, UpdateSafe, NeverStranded, RollbackIsOld, Swapping

(* The requests of a provisioner that is up.                               *)
LEMMA UpdRequestStep ==
    ASSUME UpdInv, NEW u \in Update,
           UpdateBegins(u) \/ PullLatest(u) \/ LaunchSwapper(u)
    PROVE  UpdInv'
<1> USE UpdateConstants DEF UpdInv, UpdTypeOK, UpdateSafe, NeverStranded, RollbackIsOld, Swapping, UpTo
<1>1. CASE UpdateBegins(u)
  BY <1>1 DEF UpdateBegins
<1>2. CASE PullLatest(u)
  BY <1>2 DEF PullLatest
<1>3. CASE LaunchSwapper(u)
  BY <1>3 DEF LaunchSwapper
<1> QED
  BY <1>1, <1>2, <1>3

(* What a container the updater starts leaves: one of that image that is   *)
(* up, or none that is up which was not before.                            *)
LEMMA Recreated ==
    ASSUME UpdInv, NEW i \in 1..MaxImage, NEW ok, NEW bad, Recreate(i, ok, bad)
    PROVE  /\ main' \in [img : 0..MaxImage, up : BOOLEAN] /\ (main'.up => main'.img # 0)
           /\ \/ swap' = ok /\ main' = [img |-> i, up |-> TRUE]
              \/ swap' = bad
<1>1. CASE main' = [img |-> i, up |-> TRUE]
  BY <1>1, ImageTypes, MainType DEF Recreate
<1>2. CASE main' = [img |-> i, up |-> FALSE]
  BY <1>2, ImageTypes, MainType DEF Recreate
<1>3. CASE main' = main
  BY <1>3 DEF Recreate, UpdInv, UpdTypeOK
<1> QED
  BY <1>1, <1>2, <1>3 DEF Recreate

(* What a stop leaves: the container, stopped or running as before, or     *)
(* none.                                                                   *)
LEMMA Stopped ==
    ASSUME UpdInv, main' \in {[img |-> 0, up |-> FALSE], [main EXCEPT !.up = FALSE], main}
    PROVE  main' \in [img : 0..MaxImage, up : BOOLEAN] /\ (main'.up => main'.img # 0)
<1>1. CASE main' = [img |-> 0, up |-> FALSE]
  BY <1>1, ImageTypes, MainType
<1>2. CASE main' = [main EXCEPT !.up = FALSE]
  BY <1>2 DEF UpdInv, UpdTypeOK
<1>3. CASE main' = main
  BY <1>3 DEF UpdInv, UpdTypeOK
<1> QED
  BY <1>1, <1>2, <1>3

(* The steps of the updater.                                               *)
LEMMA UpdSwapStep ==
    ASSUME UpdInv, SwapStarts \/ StopOld \/ StartNew \/ ProbeNew \/ StopNew \/ StartOld
    PROVE  UpdInv'
<1> USE UpdateConstants DEF UpdInv, UpdTypeOK, UpdateSafe, NeverStranded, RollbackIsOld, Swapping
<1>1. CASE SwapStarts
  BY <1>1 DEF SwapStarts
<1>2. CASE StopOld
  <2>1. main' \in [img : 0..MaxImage, up : BOOLEAN] /\ (main'.up => main'.img # 0)
    BY <1>2, Stopped DEF StopOld
  <2>2. /\ busy' \in BOOLEAN
        /\ upc' \in [Update -> {"idle", "pull", "launch", "started", "same", "busy", "failed"}]
    <3>1. CASE main'.up
      BY <1>2, <3>1 DEF StopOld
    <3>2. CASE ~main'.up
      <4>1. /\ busy' = FALSE
            /\ upc' = [u \in Update |-> IF upc[u] \in {"pull", "launch"} THEN "failed" ELSE upc[u]]
        BY <1>2, <3>2 DEF StopOld
      <4> QED
        BY <4>1
    <3> QED
      BY <3>1, <3>2
  <2> QED
    BY <1>2, <2>1, <2>2 DEF StopOld
<1>3. CASE StartNew
  BY <1>3, Recreated DEF StartNew
<1>4. CASE ProbeNew
  BY <1>4 DEF ProbeNew
<1>5. CASE StopNew
  BY <1>5, Stopped DEF StopNew
<1>6. CASE StartOld
  <2>1. oldImg \in 1..MaxImage
    BY <1>6 DEF StartOld
  <2> QED
    BY <1>6, <2>1, Recreated DEF StartOld
<1> QED
  BY <1>1, <1>2, <1>3, <1>4, <1>5, <1>6

LEMMA UpdStepInv == UpdInv /\ [UpdNext]_updateVars => UpdInv'
<1> SUFFICES ASSUME UpdInv, [UpdNext]_updateVars PROVE UpdInv'
  OBVIOUS
<1>1. CASE UNCHANGED updateVars
  BY <1>1 DEF updateVars, UpdInv, UpdTypeOK, UpdateSafe, NeverStranded, RollbackIsOld, Swapping
<1>2. CASE Release
  BY <1>2, UpdateConstants DEF Release, UpdInv, UpdTypeOK, UpdateSafe, NeverStranded, RollbackIsOld, Swapping
<1> QED
  BY <1>1, <1>2, UpdRequestStep, UpdSwapStep DEF UpdNext

(* An updater that is over has left a provisioner running, of the new      *)
(* image or of the one it found (selfupdate.go:35), and until it stops     *)
(* that one, the image it would go back to is the one that runs.           *)
THEOREM UpdatesAreSafe == UpdSpec => []UpdateSafe
<1>1. UpdSpec => []UpdInv
  BY UpdInitInv, UpdStepInv, PTL DEF UpdSpec
<1>2. UpdInv => UpdateSafe
  BY DEF UpdInv
<1> QED
  BY <1>1, <1>2, PTL
-----------------------------------------------------------------------------
(* BridgeGate: who is past the gate, and the attempts at passwords.        *)

Wishes == GateRoute \cup {NoRoute}

\* GateTypeOK with the types of what it leaves open.
GateTypes ==
    /\ clock \in 1..MaxClock /\ published \in [Site -> Wishes]
    /\ token \in [Browser -> Signed(Tenant)] /\ sess \in [Browser -> Signed(Tenant)]
    /\ unlock \in [Browser -> Signed(Pass)]
    /\ visit \in [Browser -> [at : {"away", "admitted", "proxied"}, site : Site \cup {NoOne},
                              route : Wishes, target : Wishes, when : 0..MaxClock]]
    /\ bucket \in [Address -> [count : 0..MaxTries, at : Nat]]
    /\ signedIn \in [Browser -> [Tenant -> 0..MaxClock]]
    /\ typed \in [Browser -> [Pass -> 0..MaxClock]]
    /\ tries \in [Address -> Nat]

\* Nothing was done after now.
NotAfterNow ==
    \A b \in Browser : /\ \A o \in Tenant : signedIn[b][o] <= clock
                       /\ \A p \in Pass : typed[b][p] <= clock

\* A token follows a sign-in to its organisation, a session cookie a token and an unlock
\* cookie the password of its prefix; and none is good for longer than that gives it.
CookiesEarned(b) ==
    /\ token[b].of # NoOne => /\ signedIn[b][token[b].of] > 0
                              /\ token[b].exp <= signedIn[b][token[b].of] + Handoff
    /\ sess[b].of # NoOne => /\ signedIn[b][sess[b].of] > 0
                             /\ sess[b].exp <= signedIn[b][sess[b].of] + Handoff + SessTTL
    /\ unlock[b].of # NoOne => /\ typed[b][unlock[b].of] > 0
                               /\ unlock[b].exp <= typed[b][unlock[b].of] + UnlockTTL

\* The bucket of an address has every attempt of this minute.
Counts(a) ==
    /\ tries[a] <= MaxTries
    /\ tries[a] > 0 => bucket[a].at = ThisMinute /\ tries[a] <= bucket[a].count

\* Whoever is past the gate is on a site.
OnASite == \A b \in Browser : visit[b].at # "away" => visit[b].site \in Site

GateInv ==
    /\ GateTypes /\ NotAfterNow /\ OnASite /\ AdmittedRight
    /\ \A b \in Browser : CookiesEarned(b)
    /\ \A a \in Address : Counts(a)

LEMMA GateInvSound == GateInv => GateTypeOK /\ GateSound
BY DEF GateInv, GateTypes, GateTypeOK, GateSound, TriesBounded, Counts, Wishes

LEMMA GateInitInv == GateInit => GateInv
<1> SUFFICES ASSUME GateInit PROVE GateInv
  OBVIOUS
<1>1. clock \in 1..MaxClock /\ 0 \in 0..MaxClock /\ 0 \in 0..MaxTries
  BY GateConstants DEF GateInit
<1>2. GateTypes
  BY <1>1 DEF GateInit, GateTypes, Wishes, Unsigned, Signed, NoBucket, Away
<1> QED
  BY <1>1, <1>2, GateConstants
     DEF GateInit, GateInv, NotAfterNow, OnASite, AdmittedRight, CookiesEarned, Counts, Unsigned, Away

(* A minute is over exactly when the seconds are a multiple of it.         *)
LEMMA MinuteStays ==
    ASSUME NEW c \in Nat, NEW m \in Nat \ {0}, (c + 1) % m # 0
    PROVE  (c + 1) \div m = c \div m
OBVIOUS

LEMMA MinuteType == GateTypes => ThisMinute \in Nat
<1> SUFFICES ASSUME NEW c \in Nat, NEW m \in Nat \ {0} PROVE c \div m \in Nat
  BY GateConstants DEF GateTypes, ThisMinute
<1> QED
  OBVIOUS
(* A visit that goes on keeps the invariant if what the route wanted was   *)
(* shown.                                                                  *)
LEMMA VisitStep ==
    ASSUME GateInv, NEW b \in Browser,
           NEW v \in [at : {"away", "admitted", "proxied"}, site : Site \cup {NoOne},
                      route : Wishes, target : Wishes, when : 0..MaxClock],
           visit' = [visit EXCEPT ![b] = v], UNCHANGED <<clock, published, cookies, bucket, history>>,
           v.at # "away" =>
              /\ v.site \in Site
              /\ v.route.mode = "password" => /\ v.route.pass # NoOne /\ typed[b][v.route.pass] > 0
                                              /\ v.when < typed[b][v.route.pass] + UnlockTTL
              /\ v.route.mode = "org" => /\ signedIn[b][v.route.org] > 0
                                         /\ v.when <= signedIn[b][v.route.org] + Handoff + SessTTL
    PROVE  GateInv'
<1> USE DEF cookies, history
<1>1. GateTypes'
  BY DEF GateInv, GateTypes
<1>2. AdmittedRight'
  <2> SUFFICES ASSUME NEW c \in Browser, visit'[c].at # "away"
               PROVE  LET r == visit'[c].route IN
                      /\ r.mode = "password" => /\ r.pass # NoOne /\ typed[c][r.pass] > 0
                                                /\ visit'[c].when < typed[c][r.pass] + UnlockTTL
                      /\ r.mode = "org" => /\ signedIn[c][r.org] > 0
                                           /\ visit'[c].when <= signedIn[c][r.org] + Handoff + SessTTL
    BY DEF AdmittedRight
  <2>1. visit'[c] = IF c = b THEN v ELSE visit[c]
    BY DEF GateInv, GateTypes
  <2> QED
    BY <2>1 DEF GateInv, AdmittedRight
<1>3. OnASite' /\ NotAfterNow' /\ (\A c \in Browser : CookiesEarned(c)')
      /\ \A a \in Address : Counts(a)'
  BY DEF GateInv, GateTypes, OnASite, NotAfterNow, CookiesEarned, Counts, ThisMinute
<1> QED
  BY <1>1, <1>2, <1>3 DEF GateInv

(* The three ways in.                                                      *)
LEMMA AdmitStep ==
    ASSUME GateInv, NEW b \in Browser, NEW s \in Site,
           OrgCookie(b, s) \/ Open(b, s) \/ UnlockCookie(b, s)
    PROVE  GateInv'
<1> DEFINE v == [at |-> "admitted", site |-> s, route |-> published[s], target |-> NoRoute,
                 when |-> clock]
<1>1. /\ v \in [at : {"away", "admitted", "proxied"}, site : Site \cup {NoOne},
                route : Wishes, target : Wishes, when : 0..MaxClock]
      /\ visit' = [visit EXCEPT ![b] = v] /\ UNCHANGED <<clock, published, cookies, bucket, history>>
  BY DEF GateInv, GateTypes, Wishes, OrgCookie, Open, UnlockCookie, Admit
<1>2. clock \in Nat /\ sess[b].exp \in Nat /\ unlock[b].exp \in Nat
  BY DEF GateInv, GateTypes, Signed
<1>3. ASSUME published[s].mode = "password"
      PROVE  /\ published[s].pass # NoOne /\ typed[b][published[s].pass] > 0
             /\ clock < typed[b][published[s].pass] + UnlockTTL
  <2>1. UnlockCookie(b, s)
    BY <1>3 DEF OrgCookie, Open
  <2>2. unlock[b].of = published[s].pass /\ unlock[b].of # NoOne /\ clock < unlock[b].exp
    BY <2>1 DEF UnlockCookie
  <2>3. unlock[b].of \in Pass
    BY <2>2 DEF GateInv, GateTypes, Signed
  <2>4. typed[b][unlock[b].of] \in Nat
    BY <2>3 DEF GateInv, GateTypes
  <2> QED
    BY <1>2, <2>2, <2>4, GateConstants DEF GateInv, CookiesEarned
<1>4. ASSUME published[s].mode = "org"
      PROVE  /\ signedIn[b][published[s].org] > 0
             /\ clock <= signedIn[b][published[s].org] + Handoff + SessTTL
  <2>1. sess[b].of # NoOne /\ clock <= sess[b].exp /\ sess[b].of = published[s].org
    BY <1>4 DEF OrgCookie, Open, UnlockCookie, Valid
  <2>2. sess[b].of \in Tenant
    BY <2>1 DEF GateInv, GateTypes, Signed
  <2>3. signedIn[b][sess[b].of] \in Nat
    BY <2>2 DEF GateInv, GateTypes
  <2> QED
    BY <1>2, <2>1, <2>3, GateConstants DEF GateInv, CookiesEarned
<1> QED
  BY <1>1, <1>3, <1>4, VisitStep

(* The request goes on to the deployment, and is answered.                 *)
LEMMA GateProxyStep ==
    ASSUME GateInv, NEW b \in Browser, GateProxies(b) \/ GateAnswered(b)
    PROVE  GateInv'
<1> DEFINE T == [at : {"away", "admitted", "proxied"}, site : Site \cup {NoOne},
                 route : Wishes, target : Wishes, when : 0..MaxClock]
<1>1. visit[b] \in T /\ Away \in T /\ Away.at = "away"
  BY GateConstants DEF GateInv, GateTypes, Away, Wishes
<1>2. CASE visit' = [visit EXCEPT ![b] = Away]
  BY <1>1, <1>2, VisitStep DEF GateProxies, GateAnswered
<1>3. CASE visit' # [visit EXCEPT ![b] = Away]
  <2> DEFINE v == [visit[b] EXCEPT !.at = "proxied", !.target = published[visit[b].site]]
  <2>1. /\ visit' = [visit EXCEPT ![b] = v] /\ UNCHANGED <<clock, published, cookies, bucket, history>>
        /\ visit[b].at = "admitted"
    BY <1>3 DEF GateProxies, GateAnswered
  <2> QED
    <3>1. v \in T /\ v.at = "proxied" /\ v.site = visit[b].site /\ v.route = visit[b].route
          /\ v.when = visit[b].when /\ v.site \in Site
      BY <1>1, <2>1 DEF GateInv, GateTypes, OnASite
    <3> HIDE DEF v
    <3> QED
      BY <2>1, <3>1, VisitStep DEF GateInv, AdmittedRight
<1> QED
  BY <1>2, <1>3
(* Time passes: nothing is shown later than now, and the attempts start    *)
(* again with the minute.                                                  *)
LEMMA GateTickStep == ASSUME GateInv, GateTick PROVE GateInv'
<1> USE DEF GateTick, cookies
<1>1. clock \in Nat /\ clock' = clock + 1 /\ clock' \in 1..MaxClock
  BY GateConstants DEF GateInv, GateTypes
<1>2. GateTypes'
  BY <1>1 DEF GateInv, GateTypes
<1>3. NotAfterNow'
  BY <1>1 DEF GateInv, GateTypes, NotAfterNow
<1>4. OnASite' /\ AdmittedRight' /\ \A b \in Browser : CookiesEarned(b)'
  BY DEF GateInv, OnASite, AdmittedRight, CookiesEarned
<1>5. ASSUME NEW a \in Address PROVE Counts(a)'
  <2>1. CASE (clock + 1) % Minute = 0
    BY <2>1, GateConstants DEF Counts
  <2>2. CASE (clock + 1) % Minute # 0
    <3>1. ThisMinute' = ThisMinute
      BY <1>1, <2>2, GateConstants, MinuteStays DEF ThisMinute
    <3> QED
      BY <2>2, <3>1 DEF GateInv, Counts
  <2> QED
    BY <2>1, <2>2
<1> QED
  BY <1>2, <1>3, <1>4, <1>5 DEF GateInv

LEMMA PublishStep ==
    ASSUME GateInv, NEW s \in Site, NEW r \in Wishes, Publish(s, r)
    PROVE  GateInv'
BY DEF Publish, cookies, history, GateInv, GateTypes, NotAfterNow, OnASite, AdmittedRight,
       CookiesEarned, Counts, ThisMinute

(* A sign-in with the app, and what a site makes of the token.             *)
LEMMA SignInStep ==
    ASSUME GateInv, NEW b \in Browser, NEW o \in Tenant, AppSignsIn(b, o)
    PROVE  GateInv'
<1> USE GateConstants DEF AppSignsIn
<1>1. /\ clock \in Nat /\ clock > 0 /\ clock + Handoff \in Nat /\ signedIn[b][o] <= clock
      /\ o # NoOne
  BY DEF GateInv, GateTypes, NotAfterNow
<1>2. /\ token' \in [Browser -> Signed(Tenant)]
      /\ signedIn' \in [Browser -> [Tenant -> 0..MaxClock]]
  BY <1>1 DEF GateInv, GateTypes, Signed
<1>3. GateTypes'
  BY <1>2 DEF GateInv, GateTypes
<1>4. \A c \in Browser, p \in Tenant :
         /\ signedIn'[c][p] = IF c = b /\ p = o THEN clock ELSE signedIn[c][p]
         /\ signedIn[c][p] \in 0..MaxClock /\ signedIn[c][p] <= clock
         /\ signedIn[c][p] <= signedIn'[c][p]
  BY <1>1 DEF GateInv, GateTypes, NotAfterNow
<1>5. NotAfterNow' /\ OnASite'
  BY <1>1, <1>4 DEF GateInv, NotAfterNow, OnASite
<1>6. AdmittedRight'
  <2> SUFFICES ASSUME NEW c \in Browser, visit[c].at # "away", visit[c].route.mode = "org"
               PROVE  /\ signedIn'[c][visit[c].route.org] > 0
                      /\ visit[c].when <= signedIn'[c][visit[c].route.org] + Handoff + SessTTL
    BY DEF GateInv, AdmittedRight
  <2>1. visit[c].route \in Wishes /\ visit[c].when \in Nat
    BY DEF GateInv, GateTypes
  <2>2. visit[c].route.org \in Tenant
    BY <2>1 DEF Wishes, GateRoute, NoRoute
  <2>3. /\ signedIn[c][visit[c].route.org] > 0
        /\ visit[c].when <= signedIn[c][visit[c].route.org] + Handoff + SessTTL
    BY DEF GateInv, AdmittedRight
  <2>4. /\ signedIn[c][visit[c].route.org] \in Nat /\ signedIn'[c][visit[c].route.org] \in Nat
        /\ signedIn[c][visit[c].route.org] <= signedIn'[c][visit[c].route.org]
    BY <1>1, <1>4, <2>2
  <2> QED
    BY <2>1, <2>3, <2>4
<1>7. ASSUME NEW c \in Browser PROVE CookiesEarned(c)'
  <2>1. CASE c = b
    <3>1. token'[b] = [of |-> o, exp |-> clock + Handoff]
      BY DEF GateInv, GateTypes
    <3>2. sess[b].of # NoOne => sess[b].of \in Tenant /\ sess[b].exp \in Nat
      BY DEF GateInv, GateTypes, Signed
    <3> QED
      BY <1>1, <1>4, <2>1, <3>1, <3>2 DEF GateInv, CookiesEarned
  <2>2. CASE c # b
    <3>1. token'[c] = token[c] /\ signedIn'[c] = signedIn[c]
      BY <2>2 DEF GateInv, GateTypes
    <3> QED
      BY <3>1 DEF GateInv, CookiesEarned
  <2> QED
    BY <2>1, <2>2
<1>8. \A a \in Address : Counts(a)'
  BY DEF GateInv, Counts, ThisMinute
<1> QED
  BY <1>3, <1>5, <1>6, <1>7, <1>8 DEF GateInv

LEMMA TokenStep ==
    ASSUME GateInv, NEW b \in Browser, NEW s \in Site, TokenToCookie(b, s)
    PROVE  GateInv'
<1> USE GateConstants DEF TokenToCookie, history
<1>1. clock \in Nat /\ clock + SessTTL \in Nat /\ token[b].exp \in Nat
  BY DEF GateInv, GateTypes, Signed
<1>2. ASSUME sess' # sess
      PROVE  /\ sess' \in [Browser -> Signed(Tenant)]
             /\ \A c \in Browser :
                   sess'[c].of # NoOne => /\ signedIn[c][sess'[c].of] > 0
                                          /\ sess'[c].exp <= signedIn[c][sess'[c].of] + Handoff + SessTTL
  <2>1. /\ token[b].of = published[s].org /\ token[b].of # NoOne /\ clock <= token[b].exp
        /\ sess' = [sess EXCEPT ![b] = [of |-> token[b].of, exp |-> clock + SessTTL]]
    BY <1>2 DEF Valid
  <2>2. token[b].of \in Tenant
    BY <2>1 DEF GateInv, GateTypes, Signed
  <2>3. sess' \in [Browser -> Signed(Tenant)]
    BY <1>1, <2>1, <2>2 DEF GateInv, GateTypes, Signed
  <2>4. \A c \in Browser : sess'[c] = IF c = b THEN [of |-> token[b].of, exp |-> clock + SessTTL]
                                     ELSE sess[c]
    BY <2>1 DEF GateInv, GateTypes
  <2>5. signedIn[b][token[b].of] \in Nat
    BY <2>2 DEF GateInv, GateTypes
  <2>6. ASSUME NEW c \in Browser
        PROVE  sess'[c].of # NoOne => /\ signedIn[c][sess'[c].of] > 0
                                      /\ sess'[c].exp <= signedIn[c][sess'[c].of] + Handoff + SessTTL
    BY <1>1, <2>1, <2>4, <2>5 DEF GateInv, CookiesEarned
  <2> QED
    BY <2>3, <2>6
<1>3. /\ sess' \in [Browser -> Signed(Tenant)]
      /\ \A c \in Browser :
            sess'[c].of # NoOne => /\ signedIn[c][sess'[c].of] > 0
                                   /\ sess'[c].exp <= signedIn[c][sess'[c].of] + Handoff + SessTTL
  BY <1>2 DEF GateInv, GateTypes, CookiesEarned
<1>4. token' \in [Browser -> Signed(Tenant)] /\ \A c \in Browser : token'[c] \in {Unsigned, token[c]}
  BY DEF GateInv, GateTypes, Signed, Unsigned
<1>5. \A c \in Browser : CookiesEarned(c)'
  BY <1>3, <1>4 DEF GateInv, CookiesEarned, Unsigned
<1>6. GateTypes'
  BY <1>3, <1>4 DEF GateInv, GateTypes
<1> QED
  BY <1>5, <1>6 DEF GateInv, NotAfterNow, OnASite, AdmittedRight, Counts, ThisMinute
(* An attempt is counted: the bucket of its address grows with it, and the *)
(* sweep of the map drops only what has no attempt in this minute.         *)
LEMMA CountedStep ==
    ASSUME GateInv, NEW a \in Address, Allowed(a), bucket' = Counted(a),
           tries' = [tries EXCEPT ![a] = @ + 1], UNCHANGED clock
    PROVE  /\ bucket' \in [Address -> [count : 0..MaxTries, at : Nat]] /\ tries' \in [Address -> Nat]
           /\ \A c \in Address : Counts(c)'
<1> USE GateConstants
<1>1. ThisMinute \in Nat /\ ThisMinute' = ThisMinute
  BY MinuteType DEF ThisMinute, GateInv
<1> DEFINE f == [Fresh(a) EXCEPT !.count = @ + 1]
           m == [bucket EXCEPT ![a] = f]
<1>2. /\ Fresh(a) \in [count : 0..MaxTries, at : Nat] /\ Fresh(a).at = ThisMinute
      /\ tries[a] <= Fresh(a).count /\ tries[a] \in Nat
  BY <1>1 DEF Fresh, GateInv, GateTypes, Counts
<1>3. /\ f \in [count : 0..MaxTries, at : Nat] /\ f.at = ThisMinute
      /\ tries[a] + 1 <= f.count
  BY <1>2 DEF Allowed
<1> HIDE DEF f
<1>4. m \in [Address -> [count : 0..MaxTries, at : Nat]]
  BY <1>3 DEF GateInv, GateTypes
<1>5. \A c \in Address : bucket'[c] = m[c] \/ (bucket'[c] = NoBucket /\ m[c].at # ThisMinute)
  BY <1>4 DEF Counted, Evicted, f
<1>6. bucket' \in [Address -> [count : 0..MaxTries, at : Nat]]
  BY <1>4 DEF Counted, Evicted, NoBucket, f
<1>7. tries' \in [Address -> Nat]
  BY DEF GateInv, GateTypes
<1>8. ASSUME NEW c \in Address PROVE Counts(c)'
  <2>1. CASE c = a
    <3>1. bucket'[c] = f /\ tries'[c] = tries[a] + 1
      BY <1>3, <1>4, <1>5, <2>1 DEF GateInv, GateTypes
    <3> QED
      BY <1>1, <1>2, <1>3, <3>1, <2>1 DEF Counts
  <2>2. CASE c # a
    <3>1. m[c] = bucket[c] /\ tries'[c] = tries[c]
      BY <2>2 DEF GateInv, GateTypes
    <3> QED
      BY <1>1, <1>5, <3>1 DEF GateInv, GateTypes, Counts
  <2> QED
    BY <2>1, <2>2
<1> QED
  BY <1>6, <1>7, <1>8

(* An attempt past the budget only renews the bucket.                      *)
LEMMA DeniedStep ==
    ASSUME GateInv, NEW a \in Address, bucket' = [bucket EXCEPT ![a] = Fresh(a)],
           UNCHANGED <<clock, tries>>
    PROVE  /\ bucket' \in [Address -> [count : 0..MaxTries, at : Nat]] /\ tries' \in [Address -> Nat]
           /\ \A c \in Address : Counts(c)'
<1> USE GateConstants
<1>1. ThisMinute \in Nat /\ ThisMinute' = ThisMinute
  BY MinuteType DEF ThisMinute, GateInv
<1>2. /\ Fresh(a) \in [count : 0..MaxTries, at : Nat] /\ Fresh(a).at = ThisMinute
      /\ tries[a] <= Fresh(a).count
  BY <1>1 DEF Fresh, GateInv, GateTypes, Counts
<1>3. \A c \in Address : bucket'[c] = IF c = a THEN Fresh(a) ELSE bucket[c]
  BY DEF GateInv, GateTypes
<1> QED
  BY <1>1, <1>2, <1>3 DEF GateInv, GateTypes, Counts

(* Guesses, and passwords that browsers type.                              *)
LEMMA GuessStep == ASSUME GateInv, NEW a \in Stranger, Guess(a) PROVE GateInv'
<1>1. /\ bucket' \in [Address -> [count : 0..MaxTries, at : Nat]] /\ tries' \in [Address -> Nat]
      /\ \A c \in Address : Counts(c)'
  BY CountedStep, DeniedStep DEF Guess, Address
<1> QED
  BY <1>1 DEF Guess, cookies, GateInv, GateTypes, NotAfterNow, OnASite, AdmittedRight, CookiesEarned

(* A password that is right is typed now, for all that it opens.           *)
LEMMA UnlockStep ==
    ASSUME GateInv, NEW b \in Browser, NEW s \in Site, NEW p \in Pass \cup {NoOne},
           UnlockSubmit(b, s, p)
    PROVE  GateInv'
<1> USE GateConstants DEF UnlockSubmit
<1>1. /\ bucket' \in [Address -> [count : 0..MaxTries, at : Nat]] /\ tries' \in [Address -> Nat]
      /\ \A c \in Address : Counts(c)'
  BY CountedStep, DeniedStep DEF Address
<1>2. CASE UNCHANGED <<unlock, typed>>
  BY <1>1, <1>2 DEF GateInv, GateTypes, NotAfterNow, OnASite, AdmittedRight, CookiesEarned
<1>3. CASE ~UNCHANGED <<unlock, typed>>
  <2>1. /\ p \in Pass /\ unlock' = [unlock EXCEPT ![b] = [of |-> p, exp |-> clock + UnlockTTL]]
        /\ typed' = [typed EXCEPT ![b][p] = clock]
    BY <1>3 DEF Right
  <2>2. clock \in Nat /\ clock > 0 /\ clock \in 0..MaxClock /\ clock + UnlockTTL \in Nat
    BY DEF GateInv, GateTypes
  <2>3. unlock' \in [Browser -> Signed(Pass)] /\ typed' \in [Browser -> [Pass -> 0..MaxClock]]
    BY <2>1, <2>2 DEF GateInv, GateTypes, Signed
  <2>4. \A c \in Browser, q \in Pass :
           /\ typed'[c][q] = IF c = b /\ q = p THEN clock ELSE typed[c][q]
           /\ typed[c][q] \in Nat /\ typed'[c][q] \in Nat /\ typed[c][q] <= typed'[c][q]
           /\ typed'[c][q] <= clock
    BY <2>1, <2>2 DEF GateInv, GateTypes, NotAfterNow
  <2>5. GateTypes' /\ NotAfterNow' /\ OnASite'
    BY <1>1, <2>3, <2>4 DEF GateInv, GateTypes, NotAfterNow, OnASite
  <2>6. AdmittedRight'
    <3> SUFFICES ASSUME NEW c \in Browser, visit[c].at # "away", visit[c].route.mode = "password"
                 PROVE  /\ visit[c].route.pass # NoOne /\ typed'[c][visit[c].route.pass] > 0
                        /\ visit[c].when < typed'[c][visit[c].route.pass] + UnlockTTL
      BY DEF GateInv, AdmittedRight
    <3>1. visit[c].route \in Wishes /\ visit[c].when \in Nat
      BY DEF GateInv, GateTypes
    <3>2. /\ visit[c].route.pass # NoOne /\ typed[c][visit[c].route.pass] > 0
          /\ visit[c].when < typed[c][visit[c].route.pass] + UnlockTTL
      BY DEF GateInv, AdmittedRight
    <3>3. visit[c].route.pass \in Pass
      BY <3>1, <3>2 DEF Wishes, GateRoute, NoRoute
    <3>4. /\ typed[c][visit[c].route.pass] \in Nat /\ typed'[c][visit[c].route.pass] \in Nat
          /\ typed[c][visit[c].route.pass] <= typed'[c][visit[c].route.pass]
      BY <2>4, <3>3
    <3> QED
      BY <3>1, <3>2, <3>4
  <2>7. ASSUME NEW c \in Browser PROVE CookiesEarned(c)'
    <3>1. CASE c = b
      <4>1. unlock'[b] = [of |-> p, exp |-> clock + UnlockTTL]
        BY <2>1 DEF GateInv, GateTypes
      <4> QED
        BY <2>2, <2>4, <2>1, <3>1, <4>1 DEF GateInv, CookiesEarned
    <3>2. CASE c # b
      <4>1. unlock'[c] = unlock[c] /\ typed'[c] = typed[c]
        BY <2>1, <3>2 DEF GateInv, GateTypes
      <4> QED
        BY <4>1 DEF GateInv, CookiesEarned
    <3> QED
      BY <3>1, <3>2
  <2> QED
    BY <1>1, <2>5, <2>6, <2>7 DEF GateInv
<1> QED
  BY <1>2, <1>3

LEMMA GateStepInv == GateInv /\ [GateNext]_gateVars => GateInv'
<1> SUFFICES ASSUME GateInv, [GateNext]_gateVars PROVE GateInv'
  OBVIOUS
<1>1. CASE UNCHANGED gateVars
  BY <1>1 DEF gateVars, cookies, history, GateInv, GateTypes, NotAfterNow, OnASite, AdmittedRight,
              CookiesEarned, Counts, ThisMinute
<1>2. ASSUME NEW s \in Site, NEW r \in GateRoute \cup {NoRoute}, Publish(s, r) PROVE GateInv'
  BY <1>2, PublishStep DEF Wishes
<1> QED
  BY <1>1, <1>2, GateTickStep, SignInStep, TokenStep, AdmitStep, UnlockStep, GateProxyStep, GuessStep
     DEF GateNext

(* Whoever is past the gate of a deployment has signed in to its           *)
(* organisation, or typed the password it has, not too long ago; and no    *)
(* address has more passwords verified in a minute than the budget         *)
(* (deploy_auth.go, deploy_auth_password.go).                              *)
THEOREM GateIsSound == GateSpec => []GateSound
<1>1. GateSpec => []GateInv
  BY GateInitInv, GateStepInv, PTL DEF GateSpec
<1> QED
  BY <1>1, GateInvSound, PTL
-----------------------------------------------------------------------------
(* Bindings: the record comes after the files.                             *)

LockFile == [pins : Seq(Pin), secrets : SUBSET Key]

OnePinEach(l) == \A i, j \in DOMAIN l.pins : l.pins[i].svc = l.pins[j].svc => i = j

BindTypes ==
    /\ bpc \in [Call -> {"idle", "files", "read", "write", "values", "manifest", "ok",
                         "refused"}]
    /\ kind \in [Call -> {"bind", "secret", "resolve", "build"}]
    /\ svc \in [Call -> Svc] /\ keys \in [Call -> SUBSET Key]
    /\ todo \in [Call -> SUBSET ((Svc \cup {"secret"}) \X Key)]
    /\ answer \in [Call -> [Key -> [of : Call \cup {NoCall}, from : Svc \cup {"secret", "none"}]]]
    /\ files \in [Svc \X Key -> Call \cup {NoCall}] /\ secrets \in [Key -> Call \cup {NoCall}]
    /\ lock \in LockFile /\ snap \in [Call -> LockFile]
    /\ OnePinEach(lock) /\ \A c \in Call : OnePinEach(snap[c])

\* A lock file of which every name has a value in the sandbox.
Backed(l) ==
    /\ \A p \in Pins(l) : \A k \in p.keys : files[<<p.svc, k>>] # NoCall
    /\ \A k \in l.secrets : secrets[k] # NoCall

\* Where a call that binds has written all but these keys.
WrittenBut(c, left) ==
    IF kind[c] = "secret" THEN \A k \in keys[c] : <<"secret", k>> \notin left => secrets[k] # NoCall
    ELSE \A k \in keys[c] : <<svc[c], k>> \notin left => files[<<svc[c], k>>] # NoCall

\* The files a call that binds may still write are its own, it goes on to the lock file
\* when there are none left, and what it has read of it is backed as well: files stay.
BindsAfterFiles(c) ==
    /\ bpc[c] = "files" => /\ kind[c] \in {"bind", "secret"} /\ WrittenBut(c, todo[c])
                           /\ \A f \in todo[c] : f[1] = "secret" <=> kind[c] = "secret"
    /\ bpc[c] \in {"read", "write"} => kind[c] \in {"bind", "secret"} /\ WrittenBut(c, {})
    /\ Backed(snap[c])

BindInv == BindTypes /\ Backed(lock) /\ \A c \in Call : BindsAfterFiles(c)

LEMMA LockFileTypes ==
    ASSUME NEW l \in LockFile
    PROVE  /\ Pins(l) \subseteq Pin /\ l.secrets \subseteq Key
           /\ \A p \in Pins(l) : p.svc \in Svc /\ p.keys \subseteq Key
<1>1. Pins(l) \subseteq Pin /\ l.secrets \subseteq Key
  BY DEF LockFile, Pins, Range
<1> QED
  BY <1>1 DEF Pin

LEMMA BindInvBacked == BindInv => BindTypeOK /\ PinsAreBacked
<1> SUFFICES ASSUME BindInv PROVE BindTypeOK /\ PinsAreBacked
  OBVIOUS
<1>2. \A l \in {lock} \cup Range(snap) : l \in LockFile /\ OnePinEach(l)
  BY DEF BindInv, BindTypes, Range
<1>3. BindTypeOK
  BY <1>2, LockFileTypes DEF BindInv, BindTypes, BindTypeOK, OnePinEach
<1> QED
  BY <1>3 DEF BindInv, Backed, PinsAreBacked

LEMMA BindInitInv == BindInit => BindInv
<1> SUFFICES ASSUME BindInit PROVE BindInv
  OBVIOUS
<1>1. Empty \in LockFile /\ OnePinEach(Empty) /\ Pins(Empty) = {} /\ Empty.secrets = {}
  BY DEF Empty, LockFile, OnePinEach, Pins, Range
<1>2. NoValue \in [of : Call \cup {NoCall}, from : Svc \cup {"secret", "none"}]
  BY DEF NoValue
<1>3. BindTypes
  BY <1>1, <1>2 DEF BindInit, BindTypes
<1> QED
  BY <1>1, <1>3 DEF BindInit, BindInv, BindsAfterFiles, Backed

(* A lock file without the pin of a service: the other pins, one each.     *)
LEMMA OtherPinsRight ==
    ASSUME NEW l \in LockFile, OnePinEach(l), NEW s
    PROVE  /\ OtherPins(l.pins, s) \in Seq(Pin)
           /\ Range(OtherPins(l.pins, s)) = {p \in Pins(l) : p.svc # s}
           /\ \A i, j \in DOMAIN OtherPins(l.pins, s) :
                 OtherPins(l.pins, s)[i].svc = OtherPins(l.pins, s)[j].svc => i = j
<1> DEFINE pins == l.pins
           n == Len(pins)
<1>1. pins \in Seq(Pin) /\ n \in Nat /\ DOMAIN pins = 1..n /\ \A i \in 1..n : pins[i] \in Pin
  BY DEF LockFile
<1>2. CASE ~ \E i \in DOMAIN pins : pins[i].svc = s
  BY <1>1, <1>2 DEF OtherPins, OnePinEach, Pins, Range
<1>3. CASE \E i \in DOMAIN pins : pins[i].svc = s
  <2> DEFINE k == CHOOSE i \in DOMAIN pins : pins[i].svc = s
             a == SubSeq(pins, 1, k - 1)
             z == SubSeq(pins, k + 1, n)
             o == a \o z
  <2>1. k \in 1..n /\ pins[k].svc = s /\ \A i \in 1..n : pins[i].svc = s => i = k
    BY <1>1, <1>3 DEF OnePinEach
  <2>2. OtherPins(pins, s) = o
    BY <1>3 DEF OtherPins, RemoveAt
  <2> HIDE DEF k
  <2>3. /\ a \in Seq(Pin) /\ Len(a) = k - 1 /\ \A i \in 1..(k - 1) : a[i] = pins[i]
        /\ z \in Seq(Pin) /\ Len(z) = n - k /\ \A i \in 1..(n - k) : z[i] = pins[k + i]
    BY <1>1, <2>1
  <2> HIDE DEF a, z
  <2>4. /\ o \in Seq(Pin) /\ Len(o) = n - 1
        /\ \A i \in 1..(n - 1) : o[i] = IF i < k THEN pins[i] ELSE pins[i + 1]
    <3>1. o \in Seq(Pin) /\ Len(o) = n - 1
      <4>1. o \in Seq(Pin) /\ Len(o) = Len(a) + Len(z)
        BY <2>3, ConcatProperties
      <4> QED
        BY <1>1, <2>1, <2>3, <4>1
    <3>2. ASSUME NEW i \in 1..(n - 1), i < k PROVE o[i] = pins[i]
      BY <1>1, <2>1, <2>3, <3>2
    <3>3. ASSUME NEW i \in 1..(n - 1), ~(i < k) PROVE o[i] = pins[i + 1]
      <4>1. i - (k - 1) \in 1..(n - k) /\ k + (i - (k - 1)) = i + 1
        BY <1>1, <2>1, <3>3
      <4>2. o[i] = z[i - (k - 1)]
        BY <1>1, <2>1, <2>3, <3>3
      <4> QED
        BY <2>3, <4>1, <4>2
    <3> QED
      BY <3>1, <3>2, <3>3
  <2>5. DOMAIN o = 1..(n - 1)
    BY <2>4
  <2> HIDE DEF o
  <2> DEFINE at(i) == IF i < k THEN i ELSE i + 1
  <2>8. ASSUME NEW i \in 1..(n - 1)
        PROVE  at(i) \in 1..n /\ at(i) # k /\ o[i] = pins[at(i)]
    BY <1>1, <2>1, <2>4
  <2>9. \A i, j \in 1..(n - 1) : at(i) = at(j) => i = j
    BY <1>1, <2>1
  <2> HIDE DEF at
  <2>6. \A i, j \in DOMAIN o : o[i].svc = o[j].svc => i = j
    BY SMTT(30), <1>1, <2>5, <2>8, <2>9 DEF OnePinEach
  <2>7. Range(o) = {p \in Pins(l) : p.svc # s}
    <3>1. ASSUME NEW p \in Range(o) PROVE p \in Pins(l) /\ p.svc # s
      BY <1>1, <2>1, <2>5, <2>8, <3>1 DEF Range, Pins
    <3>2. ASSUME NEW i \in 1..n, pins[i].svc # s PROVE pins[i] \in Range(o)
      <4>1. CASE i < k
        <5>1. i \in 1..(n - 1) /\ o[i] = pins[i]
          BY <1>1, <2>1, <2>4, <4>1
        <5> QED
          BY <2>5, <5>1 DEF Range
      <4>2. CASE i > k
        <5>1. i - 1 \in 1..(n - 1) /\ o[i - 1] = pins[i]
          BY <1>1, <2>1, <2>4, <4>2
        <5> QED
          BY <2>5, <5>1 DEF Range
      <4> QED
        BY <1>1, <2>1, <3>2, <4>1, <4>2
    <3> QED
      BY <1>1, <3>1, <3>2 DEF Range, Pins
  <2> QED
    BY <2>2, <2>4, <2>6, <2>7
<1> QED
  BY <1>2, <1>3

(* What a call records: the other pins and its own, or one secret more.    *)
LEMMA RecordedRight ==
    ASSUME BindInv, NEW c \in Call
    PROVE  /\ Recorded(c) \in LockFile /\ OnePinEach(Recorded(c))
           /\ kind[c] = "secret" => /\ Pins(Recorded(c)) = Pins(snap[c])
                                    /\ Recorded(c).secrets = snap[c].secrets \cup keys[c]
           /\ kind[c] # "secret" =>
                 /\ Recorded(c).secrets = snap[c].secrets
                 /\ Pins(Recorded(c)) = {p \in Pins(snap[c]) : p.svc # svc[c]}
                                        \cup {[svc |-> svc[c], keys |-> keys[c]]}
<1>1. snap[c] \in LockFile /\ OnePinEach(snap[c]) /\ svc[c] \in Svc /\ keys[c] \subseteq Key
  BY DEF BindInv, BindTypes
<1>2. CASE kind[c] = "secret"
  BY <1>1, <1>2 DEF Recorded, LockFile, OnePinEach, Pins
<1>3. CASE kind[c] # "secret"
  <2> DEFINE o == OtherPins(snap[c].pins, svc[c])
             own == [svc |-> svc[c], keys |-> keys[c]]
  <2>1. /\ o \in Seq(Pin) /\ Range(o) = {p \in Pins(snap[c]) : p.svc # svc[c]}
        /\ \A i, j \in DOMAIN o : o[i].svc = o[j].svc => i = j
    BY <1>1, OtherPinsRight
  <2>2. own \in Pin /\ own.svc = svc[c]
    BY <1>1 DEF Pin
  <2>3. Recorded(c) = [snap[c] EXCEPT !.pins = Append(o, own)]
    BY <1>3 DEF Recorded
  <2> HIDE DEF o, own
  <2>4. /\ Append(o, own) \in Seq(Pin) /\ DOMAIN Append(o, own) = 1..(Len(o) + 1)
        /\ Append(o, own)[Len(o) + 1] = own /\ DOMAIN o = 1..Len(o) /\ Len(o) \in Nat
        /\ \A i \in 1..Len(o) : Append(o, own)[i] = o[i]
    BY <2>1, <2>2
  <2>5. Range(Append(o, own)) = Range(o) \cup {own}
    <3>1. Range(o) \cup {own} \subseteq Range(Append(o, own))
      BY <2>4 DEF Range
    <3>2. Range(Append(o, own)) \subseteq Range(o) \cup {own}
      BY <2>4 DEF Range
    <3> QED
      BY <3>1, <3>2
  <2>6. \A i \in 1..Len(o) : o[i].svc # svc[c]
    BY <2>1, <2>4 DEF Range
  <2>7. \A i, j \in DOMAIN Append(o, own) : Append(o, own)[i].svc = Append(o, own)[j].svc => i = j
    BY <2>1, <2>2, <2>4, <2>6
  <2>8. /\ Recorded(c).pins = Append(o, own) /\ Recorded(c).secrets = snap[c].secrets
        /\ Recorded(c) \in LockFile
    BY <1>1, <2>3, <2>4 DEF LockFile
  <2> QED
    BY <1>3, <2>1, <2>5, <2>7, <2>8 DEF OnePinEach, Pins, o, own
<1> QED
  BY <1>2, <1>3
(* A call that is not writing files changes nothing that is backed: it     *)
(* moves on with what it has read.                                         *)
LEMMA BindCallStep ==
    ASSUME BindInv, NEW c \in Call,
           BindBegins(c) \/ BindAgain(c) \/ SecretBegins(c) \/ ReadLock(c) \/ ReadPins(c)
           \/ Resolved(c) \/ BuildManifest(c)
    PROVE  BindInv'
<1> USE BindingConstants DEF On, what
<1>1. /\ UNCHANGED <<kind, svc, keys, answer, files, secrets, lock>>
      /\ Backed(lock)' /\ \A l \in LockFile : Backed(l) => Backed(l)'
  BY DEF BindBegins, BindAgain, SecretBegins, ReadLock, ReadPins, Resolved, BuildManifest,
         BindInv, Backed
<1>2. /\ snap' \in [Call -> LockFile] /\ (\A d \in Call : snap'[d] \in {lock, snap[d]})
  BY DEF BindBegins, BindAgain, SecretBegins, ReadLock, ReadPins, Resolved, BuildManifest,
         BindInv, BindTypes
<1>3. /\ bpc' \in [Call -> {"idle", "files", "read", "write", "values", "manifest", "ok", "refused"}]
      /\ \A d \in Call : d # c => bpc'[d] = bpc[d]
  BY DEF BindBegins, BindAgain, SecretBegins, ReadLock, ReadPins, Resolved, BuildManifest,
         BindInv, BindTypes
<1>4. /\ todo' \in [Call -> SUBSET ((Svc \cup {"secret"}) \X Key)]
      /\ \A d \in Call : d # c => todo'[d] = todo[d]
  <2>1. CASE ReadPins(c)
    <3> DEFINE wanted == (UNION {{p.svc} \X p.keys : p \in Pins(lock)})
                        \cup ({"secret"} \X lock.secrets)
    <3>1. wanted \subseteq (Svc \cup {"secret"}) \X Key
      <4>1. ASSUME NEW p \in Pins(lock)
            PROVE  {p.svc} \X p.keys \subseteq (Svc \cup {"secret"}) \X Key
        <5>1. p.svc \in Svc /\ p.keys \subseteq Key
          BY LockFileTypes DEF BindInv, BindTypes
        <5> QED
          BY <5>1
      <4>2. {"secret"} \X lock.secrets \subseteq (Svc \cup {"secret"}) \X Key
        <5>1. lock.secrets \subseteq Key
          BY LockFileTypes DEF BindInv, BindTypes
        <5> QED
          BY <5>1
      <4>3. ASSUME NEW x \in wanted PROVE x \in (Svc \cup {"secret"}) \X Key
        <5>1. CASE x \in {"secret"} \X lock.secrets
          BY <4>2, <5>1
        <5>2. CASE \E p \in Pins(lock) : x \in {p.svc} \X p.keys
          BY <4>1, <5>2
        <5>3. ASSUME x \in UNION {{p.svc} \X p.keys : p \in Pins(lock)}
              PROVE  \E p \in Pins(lock) : x \in {p.svc} \X p.keys
          BY <5>3
        <5>4. \/ x \in UNION {{p.svc} \X p.keys : p \in Pins(lock)}
              \/ x \in {"secret"} \X lock.secrets
          BY <4>3
        <5> QED
          BY <5>1, <5>2, <5>3, <5>4
      <4> QED
        BY <4>3
    <3>2. todo' = [todo EXCEPT ![c] = wanted] \/ todo' = todo
      BY <2>1 DEF ReadPins
    <3> HIDE DEF wanted
    <3> QED
      BY <3>1, <3>2 DEF BindInv, BindTypes
  <2>2. CASE BindBegins(c) \/ SecretBegins(c)
    BY <2>2 DEF BindBegins, SecretBegins, BindInv, BindTypes
  <2>3. CASE BindAgain(c) \/ ReadLock(c) \/ Resolved(c) \/ BuildManifest(c)
    BY <2>3 DEF BindAgain, ReadLock, Resolved, BuildManifest, BindInv, BindTypes
  <2> QED
    BY <2>1, <2>2, <2>3
<1>5. BindTypes'
  BY ZenonT(40), <1>1, <1>2, <1>3, <1>4 DEF BindInv, BindTypes, OnePinEach
<1>6. \A d \in Call : Backed(snap[d])'
  BY <1>1, <1>2 DEF BindInv, BindTypes, BindsAfterFiles
<1>7. ASSUME NEW d \in Call PROVE BindsAfterFiles(d)'
  <2>1. CASE d # c
    BY <1>1, <1>3, <1>4, <1>6, <2>1 DEF BindInv, BindsAfterFiles, WrittenBut
  <2>2. CASE d = c
    <3>1. CASE bpc'[c] = "files"
      <4>1. /\ bpc[c] = "idle"
            /\ \/ kind[c] = "bind" /\ todo'[c] = {svc[c]} \X keys[c]
               \/ kind[c] = "secret" /\ todo'[c] = {"secret"} \X keys[c]
        BY <3>1 DEF BindBegins, BindAgain, SecretBegins, ReadLock, ReadPins, Resolved,
              BuildManifest, BindInv, BindTypes
      <4>2. svc[c] \in Svc /\ svc[c] # "secret"
        BY DEF BindInv, BindTypes
      <4>3. WrittenBut(c, todo[c])'
        BY <1>1, <4>1 DEF WrittenBut
      <4> QED
        BY <1>1, <1>6, <2>2, <3>1, <4>1, <4>2, <4>3 DEF BindsAfterFiles
    <3>2. CASE bpc'[c] \in {"read", "write"}
      <4>1. bpc[c] = "read"
        BY <3>2 DEF BindBegins, BindAgain, SecretBegins, ReadLock, ReadPins, Resolved,
              BuildManifest, BindInv, BindTypes
      <4>2. kind[c] \in {"bind", "secret"} /\ WrittenBut(c, {})
        BY <4>1 DEF BindInv, BindsAfterFiles
      <4> QED
        BY <1>1, <1>6, <2>2, <3>2, <4>2 DEF BindsAfterFiles, WrittenBut
    <3> QED
      BY <1>6, <2>2, <3>1, <3>2 DEF BindsAfterFiles
  <2> QED
    BY <2>1, <2>2
<1> QED
  BY <1>1, <1>5, <1>7 DEF BindInv

(* A file is written or the writing fails: what has a value keeps one.     *)
LEMMA BindFileStep == ASSUME BindInv, NEW c \in Call, WriteFile(c) PROVE BindInv'
<1> USE BindingConstants DEF WriteFile, On, what
<1>1. CASE todo'[c] = {} /\ bpc'[c] = "refused" /\ UNCHANGED <<files, secrets>>
  <2>1. BindTypes'
    BY ZenonT(40), <1>1 DEF BindInv, BindTypes, OnePinEach
  <2>2. \A d \in Call : d # c => bpc'[d] = bpc[d] /\ todo'[d] = todo[d]
    BY DEF BindInv, BindTypes
  <2> QED
    BY <1>1, <2>1, <2>2 DEF BindInv, Backed, BindsAfterFiles, WrittenBut
<1>2. ASSUME NEW f \in todo[c],
             IF f[1] = "secret" THEN secrets' = [secrets EXCEPT ![f[2]] = c] /\ UNCHANGED files
             ELSE files' = [files EXCEPT ![f] = c] /\ UNCHANGED secrets,
             todo' = [todo EXCEPT ![c] = @ \ {f}],
             IF todo[c] = {f} THEN bpc' = [bpc EXCEPT ![c] = "read"] ELSE UNCHANGED bpc
      PROVE  BindInv'
  <2>1. /\ f \in (Svc \cup {"secret"}) \X Key /\ f = <<f[1], f[2]>> /\ c # NoCall
        /\ kind[c] \in {"bind", "secret"} /\ WrittenBut(c, todo[c])
        /\ f[1] = "secret" <=> kind[c] = "secret"
    BY DEF BindInv, BindTypes, BindsAfterFiles
  <2>2. /\ files' \in [Svc \X Key -> Call \cup {NoCall}] /\ secrets' \in [Key -> Call \cup {NoCall}]
        /\ \A g \in Svc \X Key : files[g] # NoCall => files'[g] # NoCall
        /\ \A k \in Key : secrets[k] # NoCall => secrets'[k] # NoCall
    <3> USE DEF BindInv, BindTypes
    <3>1. CASE f[1] = "secret"
      <4>1. secrets' = [secrets EXCEPT ![f[2]] = c] /\ files' = files /\ f[2] \in Key
        BY <1>2, <2>1, <3>1
      <4> HIDE <1>2
      <4> QED
        BY <2>1, <4>1
    <3>2. CASE f[1] # "secret"
      <4>1. files' = [files EXCEPT ![f] = c] /\ secrets' = secrets /\ f \in Svc \X Key
        BY <1>2, <2>1, <3>2
      <4> HIDE <1>2
      <4> QED
        BY <2>1, <4>1
    <3> QED
      BY <3>1, <3>2
  <2>3. UNCHANGED <<kind, svc, keys, snap, answer, lock>>
    OBVIOUS
  <2>4. BindTypes'
    BY ZenonT(40), <1>2, <2>2, <2>3 DEF BindInv, BindTypes, OnePinEach
  <2>5. ASSUME NEW l \in LockFile, Backed(l) PROVE Backed(l)'
    BY <2>2, <2>5, LockFileTypes DEF Backed
  <2>6. Backed(lock)' /\ \A d \in Call : Backed(snap[d])'
    BY <2>3, <2>5 DEF BindInv, BindTypes, BindsAfterFiles
  <2>7. ASSUME NEW d \in Call, NEW left, WrittenBut(d, left) PROVE WrittenBut(d, left)'
    BY <2>2, <2>3, <2>7 DEF WrittenBut, BindInv, BindTypes
  <2>8. WrittenBut(c, todo[c])'
    <3> todo'[c] = todo[c] \ {f}
      BY <1>2 DEF BindInv, BindTypes
    <3>1. CASE f[1] = "secret"
      BY <1>2, <2>1, <2>2, <2>3, <3>1 DEF WrittenBut, BindInv, BindTypes
    <3>2. CASE f[1] # "secret"
      <4>1. files' = [files EXCEPT ![f] = c] /\ f \in Svc \X Key /\ kind[c] # "secret"
        BY <1>2, <2>1, <3>2
      <4>2. /\ files'[f] # NoCall /\ svc[c] \in Svc /\ keys[c] \subseteq Key
            /\ kind' = kind /\ svc' = svc /\ keys' = keys
        BY <2>1, <2>3, <4>1 DEF BindInv, BindTypes
      <4>3. ASSUME NEW k \in keys[c], <<svc[c], k>> \notin todo[c] \ {f}
            PROVE  files'[<<svc[c], k>>] # NoCall
        BY <2>1, <2>2, <4>1, <4>2, <4>3 DEF WrittenBut
      <4> QED
        BY <4>1, <4>2, <4>3 DEF WrittenBut
    <3> QED
      BY <3>1, <3>2
  <2>9. ASSUME NEW d \in Call PROVE BindsAfterFiles(d)'
    <3>1. CASE d # c
      <4>1. bpc'[d] = bpc[d] /\ todo'[d] = todo[d]
        BY <1>2, <3>1 DEF BindInv, BindTypes
      <4> QED
        BY <2>3, <2>6, <2>7, <4>1 DEF BindInv, BindsAfterFiles
    <3>2. CASE d = c
      <4>1. bpc[c] = "files" /\ todo'[c] = todo[c] \ {f}
        BY <1>2 DEF BindInv, BindTypes
      <4>2. bpc'[c] = IF todo[c] = {f} THEN "read" ELSE "files"
        BY <1>2, <4>1 DEF BindInv, BindTypes
      <4> QED
        BY <2>1, <2>3, <2>6, <2>8, <3>2, <4>1, <4>2 DEF BindInv, BindsAfterFiles
    <3> QED
      BY <3>1, <3>2
  <2> QED
    BY <2>4, <2>6, <2>9 DEF BindInv
<1>3. (\E f \in todo[c] :
             /\ IF f[1] = "secret" THEN secrets' = [secrets EXCEPT ![f[2]] = c] /\ UNCHANGED files
                ELSE files' = [files EXCEPT ![f] = c] /\ UNCHANGED secrets
             /\ todo' = [todo EXCEPT ![c] = @ \ {f}]
             /\ IF todo[c] = {f} THEN bpc' = [bpc EXCEPT ![c] = "read"] ELSE UNCHANGED bpc)
      \/ (todo'[c] = {} /\ bpc'[c] = "refused" /\ UNCHANGED <<files, secrets>>)
  BY DEF BindInv, BindTypes
<1> QED
  BY <1>1, <1>2, <1>3
(* The lock file is written, from what was read of it.                     *)
LEMMA BindRecordStep == ASSUME BindInv, NEW c \in Call, WriteLock(c) PROVE BindInv'
<1> USE DEF WriteLock, On, what
<1>1. /\ Recorded(c) \in LockFile /\ OnePinEach(Recorded(c))
      /\ UNCHANGED <<kind, svc, keys, todo, snap, answer, files, secrets>>
      /\ \A l \in LockFile : Backed(l) => Backed(l)'
  BY RecordedRight DEF Backed
<1>2. Backed(Recorded(c))
  <2>1. kind[c] \in {"bind", "secret"} /\ WrittenBut(c, {}) /\ Backed(snap[c])
    BY DEF BindInv, BindsAfterFiles
  <2>2. CASE kind[c] = "secret"
    BY <2>1, <2>2, RecordedRight DEF Backed, WrittenBut
  <2>3. CASE kind[c] # "secret"
    <3>1. [svc |-> svc[c], keys |-> keys[c]].svc = svc[c] /\ [svc |-> svc[c], keys |-> keys[c]].keys = keys[c]
      OBVIOUS
    <3> QED
      BY <2>1, <2>3, <3>1, RecordedRight DEF Backed, WrittenBut
  <2> QED
    BY <2>2, <2>3
<1>3. /\ lock' \in LockFile /\ OnePinEach(lock)' /\ Backed(lock)'
  BY <1>1, <1>2 DEF BindInv, BindTypes, OnePinEach, Backed
<1>4. \A d \in Call : BindsAfterFiles(d)'
  <2>1. \A d \in Call : bpc'[d] = bpc[d] \/ bpc'[d] = "ok"
    BY DEF BindInv, BindTypes
  <2> QED
    BY <1>1, <2>1 DEF BindInv, BindsAfterFiles, WrittenBut, Backed
<1>5. BindTypes'
  BY <1>1, <1>3 DEF BindInv, BindTypes, OnePinEach
<1> QED
  BY <1>3, <1>4, <1>5 DEF BindInv

(* The user edits the file, and a resolve reads values.                    *)
LEMMA BindOtherStep ==
    ASSUME BindInv, LockCorrupted \/ \E c \in Call : ReadValue(c)
    PROVE  BindInv'
<1> USE DEF what
<1>1. CASE LockCorrupted
  <2>1. Empty \in LockFile /\ OnePinEach(Empty) /\ Pins(Empty) = {} /\ Empty.secrets = {}
    BY DEF Empty, LockFile, OnePinEach, Pins, Range
  <2>2. BindTypes'
    BY <1>1, <2>1 DEF LockCorrupted, BindInv, BindTypes, OnePinEach
  <2>3. Backed(lock)'
    BY <1>1, <2>1 DEF LockCorrupted, Backed
  <2> QED
    BY <1>1, <2>2, <2>3 DEF LockCorrupted, BindInv, BindsAfterFiles, WrittenBut, Backed
<1>2. ASSUME NEW c \in Call, ReadValue(c) PROVE BindInv'
  <2>1. PICK f \in todo[c] :
           /\ todo' = [todo EXCEPT ![c] = @ \ {f}]
           /\ \/ /\ (IF f[1] = "secret" THEN secrets[f[2]] ELSE files[f]) # NoCall
                 /\ answer' = [answer EXCEPT ![c][f[2]] =
                        [of |-> IF f[1] = "secret" THEN secrets[f[2]] ELSE files[f], from |-> f[1]]]
              \/ UNCHANGED answer
    BY <1>2 DEF ReadValue
  <2>2. f \in (Svc \cup {"secret"}) \X Key /\ f = <<f[1], f[2]>> /\ f[2] \in Key
        /\ f[1] \in Svc \cup {"secret"}
    BY DEF BindInv, BindTypes
  <2>3. (IF f[1] = "secret" THEN secrets[f[2]] ELSE files[f]) \in Call \cup {NoCall}
    BY <2>2 DEF BindInv, BindTypes
  <2>4. answer' \in [Call -> [Key -> [of : Call \cup {NoCall}, from : Svc \cup {"secret", "none"}]]]
    <3>1. ASSUME NEW v \in [of : Call \cup {NoCall}, from : Svc \cup {"secret", "none"}],
                 answer' = [answer EXCEPT ![c][f[2]] = v]
          PROVE  answer' \in [Call -> [Key -> [of : Call \cup {NoCall}, from : Svc \cup {"secret", "none"}]]]
      BY <2>2, <3>1 DEF BindInv, BindTypes
    <3>2. [of |-> IF f[1] = "secret" THEN secrets[f[2]] ELSE files[f], from |-> f[1]]
             \in [of : Call \cup {NoCall}, from : Svc \cup {"secret", "none"}]
      BY <2>2, <2>3
    <3> QED
      BY <2>1, <3>1, <3>2 DEF BindInv, BindTypes
  <2>5. todo' \in [Call -> SUBSET ((Svc \cup {"secret"}) \X Key)]
        /\ bpc[c] = "values" /\ \A d \in Call : d # c => todo'[d] = todo[d]
    BY <1>2, <2>1 DEF ReadValue, BindInv, BindTypes
  <2>6. UNCHANGED <<bpc, kind, svc, keys, snap, files, secrets, lock>>
    BY <1>2 DEF ReadValue
  <2>7. BindTypes'
    BY <2>4, <2>5, <2>6 DEF BindInv, BindTypes, OnePinEach
  <2> QED
    BY <2>5, <2>6, <2>7 DEF BindInv, BindsAfterFiles, WrittenBut, Backed
<1> QED
  BY <1>1, <1>2

LEMMA BindStepInv == BindInv /\ [BindNext]_bindVars => BindInv'
<1> SUFFICES ASSUME BindInv, [BindNext]_bindVars PROVE BindInv'
  OBVIOUS
<1>1. CASE UNCHANGED bindVars
  BY <1>1 DEF bindVars, BindInv, BindTypes, OnePinEach, Backed, BindsAfterFiles, WrittenBut
<1> QED
  BY <1>1, BindCallStep, BindFileStep, BindRecordStep, BindOtherStep DEF BindNext

(* The lock file never promises a deploy a variable or a secret that has   *)
(* no value in the sandbox, whatever requests and failures come between    *)
(* (bindings.go writes the files before the record).                       *)
THEOREM PinsStayBacked == BindSpec => []PinsAreBacked
<1>1. BindSpec => []BindInv
  BY BindInitInv, BindStepInv, PTL DEF BindSpec
<1> QED
  BY <1>1, BindInvBacked, PTL

(* A step that loses a pin or a secret is the loss of the whole file, or   *)
(* the record of a request that had read the file before its last change.  *)
LEMMA PinsKeptStep ==
    ASSUME BindInv, [BindNext]_bindVars, ~(Named(lock) \subseteq Named(lock'))
    PROVE  \/ lock' = Empty
           \/ \E c \in Call : bpc[c] = "write" /\ bpc'[c] = "ok" /\ snap[c] # lock
<1>1. lock' # lock
  OBVIOUS
<1>2. CASE LockCorrupted
  BY <1>2 DEF LockCorrupted
<1>3. ASSUME NEW c \in Call, WriteLock(c)
      PROVE  bpc[c] = "write" /\ bpc'[c] = "ok" /\ snap[c] # lock
  <2>1. bpc[c] = "write" /\ bpc'[c] = "ok" /\ lock' = Recorded(c)
    BY <1>1, <1>3 DEF WriteLock, On, BindInv, BindTypes
  <2>2. Named(snap[c]) \subseteq Named(Recorded(c))
    <3>1. CASE kind[c] = "secret"
      BY <3>1, RecordedRight DEF Named
    <3>2. CASE kind[c] # "secret"
      <4>1. [svc |-> svc[c], keys |-> keys[c]] \in Pins(Recorded(c))
            /\ [svc |-> svc[c], keys |-> keys[c]].svc = svc[c]
        BY <3>2, RecordedRight
      <4>2. \A p \in Pins(snap[c]) : p.svc = svc[c] \/ p \in Pins(Recorded(c))
        BY <3>2, RecordedRight
      <4>3. Recorded(c).secrets = snap[c].secrets
        BY <3>2, RecordedRight
      <4> QED
        BY <4>1, <4>2, <4>3 DEF Named
    <3> QED
      BY <3>1, <3>2
  <2> QED
    BY <2>1, <2>2
<1> QED
  BY <1>1, <1>2, <1>3 DEF BindNext, BindBegins, BindAgain, SecretBegins, WriteFile, ReadLock,
     ReadPins, ReadValue, Resolved, BuildManifest, bindVars

(* The read-modify-write of lockfile.go:125 loses nothing by itself.       *)
THEOREM PinsAreKept == BindSpec => PinsKept
<1>1. BindSpec => []BindInv
  BY BindInitInv, BindStepInv, PTL DEF BindSpec
<1>2. BindInv /\ [BindNext]_bindVars =>
        [~(Named(lock) \subseteq Named(lock'))
           => \/ lock' = Empty
              \/ \E c \in Call : bpc[c] = "write" /\ bpc'[c] = "ok" /\ snap[c] # lock]_bindVars
  BY PinsKeptStep
<1> QED
  BY <1>1, <1>2, PTL DEF BindSpec, PinsKept
-----------------------------------------------------------------------------
(* MCControlPlane: the parts side by side.                                 *)

PlaneInv ==
    /\ part \in {"bridge", "gate_org", "gate_password", "runs", "bindings", "update"}
    /\ IInv /\ GateInv /\ RunInv /\ BindInv /\ UpdInv

planeVars == <<part, vars, gateVars, runVars, bindVars, updateVars>>

LEMMA PlaneInitInv == PlaneInit => PlaneInv
BY InitOK, GateInitInv, RunInitInv, BindInitInv, UpdInitInv DEF PlaneInit, PlaneInv

LEMMA PlaneStepInv == PlaneInv /\ [PlaneNext]_planeVars => PlaneInv'
<1> SUFFICES ASSUME PlaneInv, [PlaneNext]_planeVars PROVE PlaneInv'
  OBVIOUS
<1>1. /\ [Next]_vars /\ [GateNext]_gateVars /\ [RunNext]_runVars /\ [BindNext]_bindVars
      /\ [UpdNext]_updateVars /\ part' = part
  BY DEF PlaneNext, planeVars, rest
<1> QED
  BY <1>1, StepOK, GateStepInv, RunStepInv, BindStepInv, UpdStepInv DEF PlaneInv

(* The types of the control plane.                                         *)
THEOREM PlaneIsTyped == PlaneSpec => []PlaneTypeOK
<1>1. PlaneSpec => []PlaneInv
  BY PlaneInitInv, PlaneStepInv, PTL DEF PlaneSpec, planeVars
<1>2. PlaneInv => PlaneTypeOK
  BY GateInvSound, BindInvBacked DEF PlaneInv, PlaneTypeOK, IInv, RunInv, UpdInv
<1> QED
  BY <1>1, <1>2, PTL
==============================================================================
