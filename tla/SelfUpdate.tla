----------------------------- MODULE SelfUpdate -----------------------------
(***************************************************************************)
(* pkg/provisioner/selfupdate.go: the provisioner's container is replaced  *)
(* by one of a newer image.  A request pulls the image and starts the      *)
(* updater, a container of that image which outlives the provisioner; the  *)
(* updater removes the old container, starts the new one under its name    *)
(* and goes back to the old image if that does not come up.                *)
(***************************************************************************)
EXTENDS Naturals

CONSTANTS
    Update,         \* bound: POST /api/update
    MaxImage        \* bound: releases of the image, numbered

ASSUME UpdateConstants == MaxImage \in Nat \ {0}

VARIABLES
    upc,        \* of a request: "idle", "pull", "launch", "started", "same", "busy", "failed"
    busy,       \* updateInProgress, in the provisioner's memory
    latest,     \* the image the registry has under the reference
    pulled,     \* the image the daemon has under it
    main,       \* the container with the provisioner's name: [img, up], or none (img 0)
    swap,       \* the updater: "none", "wait", "stop", "new", "probe", "back", "backup", "done",
                \* "rolledback", "dead", "stranded"
    oldImg      \* the image id the updater was given to go back to

updateVars == <<upc, busy, latest, pulled, main, swap, oldImg>>

UpdTypeOK ==
    /\ upc \in [Update -> {"idle", "pull", "launch", "started", "same", "busy", "failed"}]
    /\ busy \in BOOLEAN /\ latest \in 1..MaxImage /\ pulled \in 1..MaxImage
    /\ main \in [img : 0..MaxImage, up : BOOLEAN] /\ oldImg \in 0..MaxImage
    /\ swap \in {"none", "wait", "stop", "new", "probe", "back", "backup", "done", "rolledback",
                 "dead", "stranded"}

UpdInit ==
    /\ upc = [u \in Update |-> "idle"] /\ busy = FALSE /\ latest = 1 /\ pulled = 1
    /\ main = [img |-> 1, up |-> TRUE] /\ swap = "none" /\ oldImg = 0

UpTo(u, l) == upc' = [upc EXCEPT ![u] = l]
Swapping == swap \notin {"none", "done", "rolledback", "dead", "stranded"}

\* A release is pushed.
Release ==
    /\ latest < MaxImage /\ latest' = latest + 1
    /\ UNCHANGED <<upc, busy, pulled, main, swap, oldImg>>

\* handleUpdate: one at a time.
UpdateBegins(u) ==
    /\ upc[u] = "idle" /\ main.up
    /\ IF busy THEN UpTo(u, "busy") /\ UNCHANGED busy
       ELSE UpTo(u, "pull") /\ busy' = TRUE
    /\ UNCHANGED <<latest, pulled, main, swap, oldImg>>

\* startSelfUpdate: the reference is pulled (a stream that ends in an error is drained all
\* the same, and the image under the reference is the old one); if that is the image the
\* provisioner runs, there is nothing to do.  An error before the swap releases the flag.
PullLatest(u) ==
    /\ upc[u] = "pull" /\ main.up
    /\ \/ /\ pulled' \in {latest, pulled}
          /\ IF pulled' = main.img THEN UpTo(u, "same") /\ busy' = FALSE
             ELSE UpTo(u, "launch") /\ UNCHANGED busy
       \/ UpTo(u, "failed") /\ busy' = FALSE /\ UNCHANGED pulled
    /\ UNCHANGED <<latest, main, swap, oldImg>>

\* MUTANT: the updater is told the reference to go back to, which is the new image by now.
LaunchSwapper_ByRef(u) ==
    /\ upc[u] = "launch" /\ main.up
    /\ \/ swap' = "wait" /\ oldImg' = pulled /\ UpTo(u, "started") /\ UNCHANGED busy
       \/ swap' = (IF Swapping THEN "dead" ELSE swap) /\ UpTo(u, "failed") /\ busy' = FALSE
          /\ UNCHANGED oldImg
    /\ UNCHANGED <<latest, pulled, main>>

\* launchSwapper: whatever updater there is is removed, and one is created and started
\* with the id of the running image.
LaunchSwapper(u) ==
    /\ upc[u] = "launch" /\ main.up
    /\ \/ swap' = "wait" /\ oldImg' = main.img /\ UpTo(u, "started") /\ UNCHANGED busy
       \/ swap' = (IF Swapping THEN "dead" ELSE swap) /\ UpTo(u, "failed") /\ busy' = FALSE
          /\ UNCHANGED oldImg
    /\ UNCHANGED <<latest, pulled, main>>

\* RunSelfUpdateSwap: without a Docker client or the old container's specification it
\* ends before it has touched anything.
SwapStarts ==
    /\ swap = "wait" /\ swap' \in {"stop", "dead"}
    /\ UNCHANGED <<upc, busy, latest, pulled, main, oldImg>>

\* swapTo: the old container is stopped and removed (that this fails is passed over),
\* and with it go its requests and its flag.
StopOld ==
    /\ swap = "stop" /\ swap' = "new"
    /\ main' \in {[img |-> 0, up |-> FALSE], [main EXCEPT !.up = FALSE], main}
    /\ IF main'.up THEN UNCHANGED <<upc, busy>>
       ELSE busy' = FALSE /\ upc' = [u \in Update |-> IF upc[u] \in {"pull", "launch"} THEN "failed" ELSE upc[u]]
    /\ UNCHANGED <<latest, pulled, oldImg>>

\* A container of that image with the name, if the name is free; started.
Recreate(img, ok, bad) ==
    \/ main.img = 0 /\ main' = [img |-> img, up |-> TRUE] /\ swap' = ok
    \/ main' = (IF main.img = 0 THEN [img |-> img, up |-> FALSE] ELSE main) /\ swap' = bad
    \/ main' = main /\ swap' = bad

StartNew ==
    /\ swap = "new" /\ Recreate(pulled, "probe", "back")
    /\ UNCHANGED <<upc, busy, latest, pulled, oldImg>>

\* waitRunning: up twice, two seconds apart; or it has exited, or thirty seconds are over.
ProbeNew ==
    /\ swap = "probe"
    /\ \/ main.up /\ swap' = "done" /\ UNCHANGED main
       \/ swap' = "back" /\ main' \in {main, [main EXCEPT !.up = FALSE]}
    /\ UNCHANGED <<upc, busy, latest, pulled, oldImg>>

\* The way back: the same for the old image; what does not work here is left to the operator.
StopNew ==
    /\ swap = "back" /\ swap' = "backup"
    /\ main' \in {[img |-> 0, up |-> FALSE], [main EXCEPT !.up = FALSE]}
    /\ busy' = FALSE
    /\ upc' = [u \in Update |-> IF upc[u] \in {"pull", "launch"} THEN "failed" ELSE upc[u]]
    /\ UNCHANGED <<latest, pulled, oldImg>>

StartOld ==
    /\ swap = "backup" /\ Recreate(oldImg, "rolledback", "stranded")
    /\ UNCHANGED <<upc, busy, latest, pulled, oldImg>>

UpdNext ==
    \/ \E u \in Update : UpdateBegins(u) \/ PullLatest(u) \/ LaunchSwapper(u)
    \/ Release \/ SwapStarts \/ StopOld \/ StartNew \/ ProbeNew \/ StopNew \/ StartOld

UpdSpec == UpdInit /\ [][UpdNext]_updateVars

-----------------------------------------------------------------------------
(* Properties.                                                             *)

\* selfupdate.go:35, "the swapper restores the old image, so a bad release can't strand
\* a cluster offline": an updater that is over has left a provisioner running, of the
\* new image or, after a rollback, of the one it found, unless Docker has failed it
\* twice.
NeverStranded ==
    /\ swap = "done" => main.up /\ main.img # 0
    /\ swap = "rolledback" => main = [img |-> oldImg, up |-> TRUE]
    /\ swap \in {"wait", "stop", "dead"} => main.up

\* A rollback is a rollback: the image the updater came from was running before.
RollbackIsOld == swap \in {"wait", "stop"} => oldImg = main.img

\* Both, from the request to the last step of the updater.
UpdateSafe == NeverStranded /\ RollbackIsOld

\* selfupdate.go:100, "the swapper is about to stop this process anyway": the flag is not
\* left set by an updater that is over.
FlagIsReleased == busy => Swapping \/ \E u \in Update : upc[u] \in {"pull", "launch"}
=============================================================================
