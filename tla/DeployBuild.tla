---------------------------- MODULE DeployBuild ----------------------------
(***************************************************************************)
(* pkg/provisioner/deploy_build.go with deploy_quiesce.go, deploy_wrap.go  *)
(* and deploy_push.go: builds of one sandbox's projects into images, in    *)
(* parallel requests.  A build pauses the dev server of its project, works *)
(* through a tar file in the sandbox and a directory of the provisioner,   *)
(* both named after its tag, and undoes both on its way out.  Any call may *)
(* fail, also because the client has gone and the request's context with   *)
(* it.                                                                     *)
(***************************************************************************)
EXTENDS Naturals, FiniteSets, Sequences, Functions, SequencesExt

CONSTANTS
    Build,          \* bound: POST /api/sandboxes/{id}/deploy-build
    Proj,           \* bound: names of projects
    Tag,            \* bound: image tags
    Root,           \* /workspace itself, the project "" or "."
    NoBuild

ASSUME BuildConstants ==
    /\ IsFiniteSet(Build) /\ NoBuild \notin Build /\ Root \notin Proj
    /\ {"lost", "failed", "user", "none"} \cap Build = {}

VARIABLES
    at,         \* of a build: see BuildTypeOK
    proj, tag,  \* what it builds and under which tag
    paused,     \* the projects it has paused and will resume
    result,     \* "none", "ok", "refused"
    mixed,      \* another build with its tag ran at the same time
    disk,       \* the projects with source under /workspace/projects
    dev,        \* of a project's dev server: "up", "down"
    downBy,     \* who stopped it: a build, "lost" (a build that was told it had failed),
                \* "failed" (it did not start again), "user" or "none"
    tarball,    \* of a tag: the build whose source is in the sandbox's tar file
    ctx,        \* of a tag: the builds whose sources are in /tmp/buildctx-<tag>
    image,      \* of a project and a tag: what the daemon has under that name
    buildkit    \* the shared container: "down" (absent or stopped), "running" (Docker restarts it)

asked == <<proj, tag>>
stops == <<dev, downBy>>
store == <<tarball, ctx, image>>
buildVars == <<at, asked, paused, result, mixed, disk, stops, store, buildkit>>

\* An image: the builds whose sources are in it and the authproxy layers over them.
NoImage == [src |-> {}, wraps |-> 0]
Image == [src : SUBSET Build, wraps : 0..Cardinality(Build)]

\* A build that has a context directory; only such a one leaves source in it.
InContext(b) == at[b] \in {"download", "railpack", "wrap", "check", "cleanup"}

BuildTypeOK ==
    /\ at \in [Build -> {"idle", "settle", "list", "pause", "preflight", "buildkit", "tar", "ctxdir",
                         "download", "railpack", "wrap", "check", "cleanup",
                         "resume", "over"}]
    /\ proj \in [Build -> Proj \cup {Root}] /\ tag \in [Build -> Tag]
    /\ paused \in [Build -> SUBSET Proj] /\ result \in [Build -> {"none", "ok", "refused"}]
    /\ mixed \in [Build -> BOOLEAN] /\ disk \subseteq Proj
    /\ dev \in [Proj -> {"up", "down"}] /\ downBy \in [Proj -> Build \cup {"lost", "failed", "user", "none"}]
    /\ tarball \in [Tag -> Build \cup {NoBuild}] /\ ctx \in [Tag -> SUBSET Build]
    /\ image \in [(Proj \cup {Root}) \X Tag -> Image]
    /\ buildkit \in {"down", "running"}
    /\ \A t \in Tag : ctx[t] # {} => \E b \in Build : tag[b] = t /\ InContext(b)

\* Requests with any project and tag, before they are sent; dev servers run for what
\* is on the disk.
BuildInit ==
    /\ at = [b \in Build |-> "idle"]
    /\ proj \in [Build -> Proj \cup {Root}] /\ tag \in [Build -> Tag]
    /\ paused = [b \in Build |-> {}] /\ result = [b \in Build |-> "none"]
    /\ mixed = [b \in Build |-> FALSE] /\ disk \in SUBSET Proj
    /\ dev = [p \in Proj |-> IF p \in disk THEN "up" ELSE "down"]
    /\ downBy = [p \in Proj |-> "none"]
    /\ tarball = [t \in Tag |-> NoBuild] /\ ctx = [t \in Tag |-> {}]
    /\ image = [r \in (Proj \cup {Root}) \X Tag |-> NoImage] /\ buildkit = "down"

To(b, l) == at' = [at EXCEPT ![b] = l]
Refused(b, l) == To(b, l) /\ result' = [result EXCEPT ![b] = "refused"]
Active == {b \in Build : at[b] \notin {"idle", "over"}}
Ref(b) == <<proj[b], tag[b]>>

-----------------------------------------------------------------------------
(* Which project.                                                          *)

\* projectPathAndSlug and sanitizeForDockerTag over classes of characters: "a" lower
\* case and digits, "A" upper case, "-" dash, underscore and slash, "." any other.
Sanitize(s, max) ==
    LET one(c, out) == CASE c \in {"a", "A"} -> Append(out, "a")
                         [] c = "-" /\ out # <<>> /\ Last(out) # "-" -> Append(out, "-")
                         [] OTHER -> out
        kept == FoldLeft(LAMBDA out, c : one(c, out), <<>>, s)
        trimmed == IF kept # <<>> /\ Last(kept) = "-" THEN Front(kept) ELSE kept
        cut == SubSeq(trimmed, 1, IF Len(trimmed) > max THEN max ELSE Len(trimmed))
    IN  IF cut = <<>> THEN <<"a", "a", "a">> ELSE cut

\* deploy_build.go:698, for every name of up to 4 characters and a limit of 3 (32 in the
\* code): never empty, no leading dash, no two in a row, and no trailing one unless the
\* name was cut, which comes after the trim.
SlugShape ==
    \A s \in UNION {[1..n -> {"a", "A", "-", "."}] : n \in 0..4} :
        LET out == Sanitize(s, 3) IN
        /\ out # <<>> /\ Len(out) <= 3 /\ out[1] = "a"
        /\ \A i \in 1..Len(out) - 1 : ~(out[i] = "-" /\ out[i + 1] = "-")
        /\ Last(out) = "-" => Len(Sanitize(s, 4)) > 3
ASSUME SlugAssumption == SlugShape

\* detectSoleProject: without a project, the only one on the disk is meant.  The shell
\* command that lists them may fail, and then none is.
Send(b) ==
    /\ at[b] = "idle" /\ To(b, "settle")
    /\ IF proj[b] = Root /\ Cardinality(disk) = 1
       THEN proj' = [proj EXCEPT ![b] = CHOOSE p \in disk : TRUE] \/ UNCHANGED proj
       ELSE UNCHANGED proj
    /\ LET same == {c \in Active : tag[c] = tag[b]} IN
       mixed' = [c \in Build |-> mixed[c] \/ c \in same \/ (c = b /\ same # {})]
    /\ UNCHANGED <<tag, paused, result, disk, stops, store, buildkit>>

\* checkProject, every two seconds for thirty: the project is there, or the only other
\* one is taken for it; more than one to choose from, an empty disk to the end, or a
\* client that has gone, refuse the request.
Settle(b) ==
    /\ at[b] = "settle"
    /\ \/ (proj[b] = Root \/ proj[b] \in disk) /\ To(b, "list") /\ UNCHANGED <<proj, result>>
       \/ /\ proj[b] \in Proj \ disk /\ Cardinality(disk) = 1 /\ To(b, "list")
          /\ proj' = [proj EXCEPT ![b] = CHOOSE p \in disk : TRUE] /\ UNCHANGED result
       \/ Cardinality(disk) # 1 /\ Refused(b, "over") /\ UNCHANGED proj
    /\ UNCHANGED <<tag, paused, mixed, disk, stops, store, buildkit>>

-----------------------------------------------------------------------------
(* The build.                                                              *)

\* runtimeProjectList: the running projects the build works on; none if the call fails.
ListRunning(b) ==
    /\ at[b] = "list" /\ To(b, "pause")
    /\ \E found \in {{}, {p \in Proj : dev[p] = "up" /\ proj[b] \in {p, Root}}} :
          paused' = [paused EXCEPT ![b] = found]
    /\ UNCHANGED <<asked, result, mixed, disk, stops, store, buildkit>>

\* pauseProjectsAt: each is stopped, whoever has stopped or started it since; one whose
\* stop fails is skipped over, also if the runtime has carried it out.
Pause(b) ==
    /\ at[b] = "pause" /\ To(b, "preflight")
    /\ \E stopped \in SUBSET paused[b] : \E known \in SUBSET stopped :
          /\ dev' = [p \in Proj |-> IF p \in stopped THEN "down" ELSE dev[p]]
          /\ downBy' = [p \in Proj |-> IF p \in known THEN b
                                       ELSE IF p \in stopped THEN "lost" ELSE downBy[p]]
          /\ paused' = [paused EXCEPT ![b] = known]
    /\ UNCHANGED <<asked, result, mixed, disk, store, buildkit>>

\* A step that only goes on or fails, with the deferred calls set up so far.
Try(b, from, next, out) ==
    /\ at[b] = from
    /\ \/ To(b, next) /\ UNCHANGED result
       \/ Refused(b, out)

\* The build outputs are removed and preflightBuild runs "npm run build" in the sandbox.
Preflight(b) ==
    /\ Try(b, "preflight", "buildkit", "resume")
    /\ UNCHANGED <<asked, paused, mixed, disk, stops, store, buildkit>>

\* ensureBuildKit, under buildKitMu: started, or pulled, created and started.
EnsureBuildKit(b) ==
    /\ at[b] = "buildkit"
    /\ \/ To(b, "tar") /\ buildkit' = "running" /\ UNCHANGED result
       \/ buildkit # "running" /\ Refused(b, "resume") /\ UNCHANGED buildkit
    /\ UNCHANGED <<asked, paused, mixed, disk, stops, store>>

\* MUTANT: one tar file for all tags.
TarProject_OneName(b) ==
    /\ Try(b, "tar", "ctxdir", "resume")
    /\ tarball' = [t \in Tag |-> b]
    /\ UNCHANGED <<asked, paused, mixed, disk, stops, ctx, image, buildkit>>

\* The tar of the source as it is now, over one of the same name.
TarProject(b) ==
    /\ Try(b, "tar", "ctxdir", "resume")
    /\ tarball' = [tarball EXCEPT ![tag[b]] = b]
    /\ UNCHANGED <<asked, paused, mixed, disk, stops, ctx, image, buildkit>>

\* RemoveAll and MkdirAll; from here on the cleanup is deferred.
MakeCtxDir(b) ==
    /\ at[b] = "ctxdir" /\ To(b, "download") /\ ctx' = [ctx EXCEPT ![tag[b]] = {}]
    /\ UNCHANGED <<asked, paused, result, mixed, disk, stops, tarball, image, buildkit>>

\* MUTANT: the clean-up is deferred only once the image is there.
Railpack_KeepsContext(b) ==
    /\ at[b] = "railpack"
    /\ image' = [image EXCEPT ![Ref(b)] = [src |-> ctx[tag[b]], wraps |-> 0]] \/ UNCHANGED image
    /\ \/ ctx[tag[b]] # {} /\ image'[Ref(b)].src = ctx[tag[b]] /\ To(b, "wrap") /\ UNCHANGED result
       \/ Refused(b, "resume")
    /\ UNCHANGED <<asked, paused, mixed, disk, stops, tarball, ctx, buildkit>>

\* runtimeFileDownload into tar: what the sandbox's file holds is added to what the
\* directory holds.
Download(b) ==
    /\ \/ /\ at[b] = "download" /\ tarball[tag[b]] # NoBuild
          /\ To(b, "railpack") /\ UNCHANGED result
          /\ ctx' = [ctx EXCEPT ![tag[b]] = @ \cup {tarball[tag[b]]}]
       \/ at[b] = "download" /\ Refused(b, "cleanup") /\ UNCHANGED ctx
    /\ UNCHANGED <<asked, paused, mixed, disk, stops, tarball, image, buildkit>>

\* railpack builds what is in the directory and loads it under the reference, where
\* the daemon must list it (a list that fails is not held against it).
Railpack(b) ==
    /\ at[b] = "railpack"
    /\ image' = [image EXCEPT ![Ref(b)] = [src |-> ctx[tag[b]], wraps |-> 0]] \/ UNCHANGED image
    /\ \/ ctx[tag[b]] # {} /\ image'[Ref(b)].src = ctx[tag[b]] /\ To(b, "wrap") /\ UNCHANGED result
       \/ Refused(b, "cleanup")
    /\ UNCHANGED <<asked, paused, mixed, disk, stops, tarball, ctx, buildkit>>

\* wrapImageWithAuthproxy: a layer over whatever has the reference now, which takes
\* the reference over.
Wrap(b) ==
    /\ \/ /\ at[b] = "wrap" /\ To(b, "check")
          /\ image' = [image EXCEPT ![Ref(b)].wraps = @ + 1] /\ UNCHANGED result
       \/ at[b] = "wrap" /\ Refused(b, "cleanup") /\ UNCHANGED image
    /\ UNCHANGED <<asked, paused, mixed, disk, stops, tarball, ctx, buildkit>>

\* The image inspected again must start with the authproxy; the build is a success.
CheckWrapped(b) ==
    /\ at[b] = "check" /\ To(b, "cleanup")
    /\ \/ image[Ref(b)].wraps > 0 /\ result' = [result EXCEPT ![b] = "ok"]
       \/ result' = [result EXCEPT ![b] = "refused"]
    /\ UNCHANGED <<asked, paused, mixed, disk, stops, store, buildkit>>

\* Deferred: the directory, and (with a context of its own) the tar file.
Cleanup(b) ==
    /\ at[b] = "cleanup" /\ To(b, "resume")
    /\ ctx' = [ctx EXCEPT ![tag[b]] = {}]
    /\ tarball' = [tarball EXCEPT ![tag[b]] = NoBuild] \/ UNCHANGED tarball
    /\ UNCHANGED <<asked, paused, result, mixed, disk, stops, image, buildkit>>

\* Nothing is kept of a request that is over.
Over(b) ==
    /\ To(b, "over") /\ paused' = [paused EXCEPT ![b] = {}]
    /\ result' = [result EXCEPT ![b] = "none"] /\ mixed' = [mixed EXCEPT ![b] = FALSE]

\* MUTANT: with the request's context, which is over when the client has gone.
Resume_RequestContext(b) ==
    /\ at[b] = "resume" /\ Over(b)
    /\ UNCHANGED <<asked, disk, stops, store, buildkit>>

\* Deferred before that, so run after it: resumeProjects, with a context of its own, so
\* that only the runtime can fail it.
Resume(b) ==
    /\ at[b] = "resume" /\ Over(b)
    /\ \E failed \in SUBSET {p \in paused[b] : dev[p] = "down"} :
          /\ dev' = [p \in Proj |-> IF p \in paused[b] \ failed THEN "up" ELSE dev[p]]
          /\ downBy' = [p \in Proj |-> IF p \in failed THEN "failed"
                                       ELSE IF p \in paused[b] THEN "none" ELSE downBy[p]]
    /\ UNCHANGED <<asked, disk, store, buildkit>>

BuildStep(b) ==
    \/ Settle(b) \/ ListRunning(b) \/ Pause(b) \/ Preflight(b) \/ EnsureBuildKit(b)
    \/ TarProject(b) \/ MakeCtxDir(b) \/ Download(b) \/ Railpack(b) \/ Wrap(b) \/ CheckWrapped(b)
    \/ Cleanup(b) \/ Resume(b)

-----------------------------------------------------------------------------
(* The daemon's answers to a build and a push: a stream of frames, "step" or *)
(* "error", that ends ("eof"), in the middle of a frame ("cut"), or with the *)
(* connection ("reset").                                                     *)

HasError(frames) == "error" \in Range(frames)

\* drainBuildResponse: decodes until the end or the first error.
DrainBuild(frames, end) == ~HasError(frames) /\ end = "eof"

\* drainPushStream and drainPullStream: while dec.More(), which a connection that
\* breaks between two frames ends as the end of the stream does.
DrainPush(frames, end) == ~HasError(frames) /\ end \in {"eof", "reset"}

\* deploy_push.go:133: an error frame anywhere in the stream is never a success,
\* whichever the step.
DrainAssumption ==
    \A frames \in UNION {[1..n -> {"step", "error"}] : n \in 0..3}, end \in {"eof", "cut", "reset"} :
        (\E i \in DOMAIN frames : frames[i] = "error")
            => ~DrainBuild(frames, end) /\ ~DrainPush(frames, end)
ASSUME StreamErrors == DrainAssumption

-----------------------------------------------------------------------------
(* The sandbox: the agent scaffolds a project, a user stops one.           *)

Scaffold(p) ==
    /\ p \notin disk /\ disk' = disk \cup {p}
    /\ UNCHANGED <<at, asked, paused, result, mixed, stops, store, buildkit>>

UserStops(p) ==
    /\ p \in disk /\ downBy[p] # "user"
    /\ dev' = [dev EXCEPT ![p] = "down"] /\ downBy' = [downBy EXCEPT ![p] = "user"]
    /\ UNCHANGED <<at, asked, paused, result, mixed, disk, store, buildkit>>

BuildNext ==
    \/ \E b \in Build : Send(b) \/ BuildStep(b)
    \/ \E p \in Proj : Scaffold(p) \/ UserStops(p)

BuildSpec == BuildInit /\ [][BuildNext]_buildVars

-----------------------------------------------------------------------------
(* Properties.                                                             *)

\* The preview comes back (deploy_build.go:250, "we still want the preview back"): a dev
\* server that is down because a build has stopped it is on the list of a build that is
\* under way and will start it.
DevComesBack ==
    \A p \in Proj, b \in Build : downBy[p] = b => p \in paused[b] /\ at[b] # "over"

\* The image a build answers with has the source of that build, of no other, under one
\* layer of authproxy, unless a build of the same tag ran at the same time.
BuildIsOwn ==
    \A b \in Build : at[b] \in {"cleanup", "resume"} /\ result[b] = "ok" /\ ~mixed[b]
        => image[Ref(b)] = [src |-> {b}, wraps |-> 1]

\* The two promises of a build that other builds could break.
BuildsHold == DevComesBack /\ BuildIsOwn

\* deploy_quiesce.go:104, "so the preflight build can own .next/ uncontested".
PreflightAlone ==
    \A b \in Build : at[b] = "buildkit" /\ proj[b] \in paused[b] => dev[proj[b]] = "down"

\* Nothing is left stopped by a stop whose answer was lost.
PauseIsUndone == (\A b \in Build : at[b] = "over") => \A p \in Proj : downBy[p] # "lost"

\* What the user has stopped meanwhile stays stopped.
UserStopIsKept == [][\A p \in Proj : downBy[p] = "user" => dev'[p] # "up"]_buildVars
=============================================================================
