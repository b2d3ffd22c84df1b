------------------------------- MODULE Projects -------------------------------
(***************************************************************************)
(* The ProjectManager of pkg/handlers/project.go: StartProject with its    *)
(* dependencies, StopProject, StopAll, AutoStartProjects, the goroutine    *)
(* that watches each process and restarts it after a delay, and the        *)
(* circuit breaker over crashes of the last minute.  An instance is one    *)
(* Project struct: every start makes a new one.  Logs and health checks    *)
(* only report and are left out.                                           *)
(***************************************************************************)
EXTENDS Naturals, Sequences, FiniteSets

CONSTANTS
    Name,               \* project names
    DependsOn,          \* name -> sequence of names (config.DependsOn)
    AutoRestart,        \* the names with config.AutoRestart
    Api,                \* bound: goroutines serving requests at a time
    MaxInst,            \* bound: instances ever started
    MaxCalls,           \* bound: requests
    maxCrashesInWindow,
    Nobody

Inst == 1..MaxInst
Thread == Api \cup Inst     \* an instance's watcher is a thread of its own

ASSUME ProjectConstants ==
    /\ DependsOn \in [Name -> Seq(Name)] /\ AutoRestart \subseteq Name
    /\ MaxInst \in Nat /\ MaxCalls \in Nat /\ maxCrashesInWindow \in Nat \ {0}
    /\ Nobody \notin Thread

VARIABLES
    projects,   \* pm.projects: name -> instance, 0 when absent
    named,      \* holder of each lock of pm.namedLocks
    inst,       \* the instances made so far, in order
    crash,      \* crashes of each name inside the window
    stack,      \* of a thread: its calls of StartProject and StopProject, innermost first
    calls       \* requests so far

projectVars == <<projects, named, inst, crash, stack, calls>>

\* The process is "up", "doomed" (its context is cancelled), "exited" by itself or
\* "killed" by a stop.  status tells "running" from the rest; manual is
\* manuallyStopped; auto is what watchProcess computed.
Instance == [of : Name, proc : {"up", "doomed", "exited", "killed"},
             status : {"running", "stopped"}, manual : BOOLEAN, auto : BOOLEAN,
             watch : {"wait", "record", "decide", "backoff", "done"}]
Stages == {"lock", "find", "mark", "kill", "settle", "deps", "abort"}

Alive(i) == inst[i].proc \in {"up", "doomed"}

ProjectsTypeOK ==
    /\ projects \in [Name -> 0..Len(inst)] /\ named \in [Name -> Thread \cup {Nobody}]
    /\ inst \in Seq(Instance) /\ Len(inst) <= MaxInst
    /\ crash \in [Name -> Nat] /\ calls \in 0..MaxCalls
    /\ \A t \in Thread : \A k \in 1..Len(stack[t]) :
          /\ stack[t][k].op \in {"start", "stop"} /\ stack[t][k].pc \in Stages
          /\ stack[t][k].pc # "lock" => named[stack[t][k].name] = t
          /\ k > 1 => stack[t][k].pc \in {"lock", "deps"}

ProjectsInit ==
    /\ projects = [n \in Name |-> 0] /\ named = [n \in Name |-> Nobody]
    /\ inst = <<>> /\ crash = [n \in Name |-> 0]
    /\ stack = [t \in Thread |-> <<>>] /\ calls = 0

Frame(op, n) == [op |-> op, name |-> n, pc |-> "lock", todo |-> <<>>]
Top(t) == Head(stack[t])
In(t, pc) == stack[t] # <<>> /\ Top(t).pc = pc
Current(t) == projects[Top(t).name]
To(t, pc) == stack' = [stack EXCEPT ![t][1].pc = pc] /\ UNCHANGED named

\* The start goes on to read its configuration and start its dependencies.
Prepare(t) ==
    /\ stack' = [stack EXCEPT ![t][1].pc = "deps", ![t][1].todo = DependsOn[Top(t).name]]
    /\ UNCHANGED named

\* The call returns and its deferred Unlock runs.  An error fails the start whose
\* dependency it was; ProjectRestartHandler ignores the error of its stop.
Pop(t, ok) ==
    LET rest == Tail(stack[t])
    IN  stack' = [stack EXCEPT ![t] =
                    IF ok \/ rest = <<>> \/ rest[1].pc # "deps" THEN rest
                    ELSE [rest EXCEPT ![1].pc = "abort"]]
Finish(t, ok) == Pop(t, ok) /\ named' = [named EXCEPT ![Top(t).name] = Nobody]

-----------------------------------------------------------------------------
(* Requests.                                                               *)

\* Idle threads start these calls.
Calls(frames) ==
    /\ calls < MaxCalls /\ calls' = calls + 1
    /\ stack' = [t \in Thread |-> IF t \in DOMAIN frames THEN frames[t] ELSE stack[t]]
    /\ UNCHANGED <<projects, named, inst, crash>>

\* A handler runs on any idle thread: they are interchangeable.
Idle == {t \in Api : stack[t] = <<>>}
Handler(frames) == Idle # {} /\ Calls([t \in {CHOOSE u \in Idle : TRUE} |-> frames])
ProjectStart(n) == Handler(<<Frame("start", n)>>)
ProjectStop(n) == Handler(<<Frame("stop", n)>>)
ProjectRestart(n) == Handler(<<Frame("stop", n), Frame("start", n)>>)

\* StopAll and AutoStartProjects run one goroutine per name.
Spread(op, names) ==
    LET Assign == {f \in [names -> Idle] : \A m, n \in names : f[m] = f[n] => m = n}
        f == CHOOSE g \in Assign : TRUE
    IN  /\ names # {} /\ Assign # {}
        /\ Calls([t \in {f[n] : n \in names} |-> <<Frame(op, CHOOSE n \in names : f[n] = t)>>])
StopAll == Spread("stop", {n \in Name : projects[n] # 0})
AutoStartProjects == Spread("start", AutoRestart)

-----------------------------------------------------------------------------
(* StartProject, StopProject and stopProject.                              *)

isCircuitOpen(n) == crash[n] >= maxCrashesInWindow

\* The named lock; a start goes no further while the circuit breaker is open.
Enter(t) ==
    LET n == Top(t).name IN
    /\ In(t, "lock") /\ named[n] = Nobody
    /\ IF Top(t).op = "start" /\ isCircuitOpen(n) THEN Pop(t, FALSE) /\ UNCHANGED named
       ELSE /\ stack' = [stack EXCEPT ![t][1].pc = "find"] /\ named' = [named EXCEPT ![n] = t]
    /\ UNCHANGED <<projects, inst, crash, calls>>

\* A start stops the instance that is running, a stop whatever instance there is.
Stops(t) == Current(t) # 0 /\ (Top(t).op = "stop" \/ inst[Current(t)].status = "running")
Find(t) ==
    /\ In(t, "find")
    /\ \/ Stops(t) /\ To(t, "mark")
       \/ ~Stops(t) /\ Top(t).op = "start" /\ Prepare(t)
       \/ ~Stops(t) /\ Top(t).op = "stop" /\ Finish(t, FALSE)
    /\ UNCHANGED <<projects, inst, crash, calls>>

\* cancel and manuallyStopped, under proj.mu.
Mark(t) ==
    /\ In(t, "mark") /\ To(t, "kill")
    /\ inst' = [inst EXCEPT ![Current(t)].manual = TRUE,
                            ![Current(t)].proc = IF @ = "up" THEN "doomed" ELSE @]
    /\ UNCHANGED <<projects, crash, calls>>

\* SIGTERM, two seconds, SIGKILL.
Kill(t) ==
    /\ In(t, "kill") /\ To(t, "settle")
    /\ inst' = [inst EXCEPT ![Current(t)].proc = IF Alive(Current(t)) THEN "killed" ELSE @]
    /\ UNCHANGED <<projects, crash, calls>>

Settle(t) ==
    /\ In(t, "settle")
    /\ inst' = [inst EXCEPT ![Current(t)].status = "stopped"]
    /\ IF Top(t).op = "start" THEN Prepare(t) ELSE Finish(t, TRUE)
    /\ UNCHANGED <<projects, crash, calls>>

\* The next dependency: started when it is absent or not running.
StartDep(t) ==
    /\ In(t, "deps") /\ Top(t).todo # <<>>
    /\ LET d == Head(Top(t).todo)
           rest == <<[Top(t) EXCEPT !.todo = Tail(@)]>> \o Tail(stack[t])
       IN stack' = [stack EXCEPT ![t] =
                      IF projects[d] = 0 \/ inst[projects[d]].status # "running"
                      THEN <<Frame("start", d)>> \o rest ELSE rest]
    /\ UNCHANGED <<projects, named, inst, crash, calls>>

\* An error return: a dependency has failed, the configuration is missing or
\* invalid, there is no start_command, or exec fails.
StartFails(t) ==
    /\ In(t, "abort") \/ (In(t, "deps") /\ Top(t).todo \in {<<>>, DependsOn[Top(t).name]})
    /\ Finish(t, FALSE)
    /\ UNCHANGED <<projects, inst, crash, calls>>

\* The process runs, its instance enters the map, and its watcher starts.
Spawn(t) ==
    /\ In(t, "deps") /\ Top(t).todo = <<>> /\ Len(inst) < MaxInst
    /\ inst' = Append(inst, [of |-> Top(t).name, proc |-> "up", status |-> "running",
                             manual |-> FALSE, auto |-> FALSE, watch |-> "wait"])
    /\ projects' = [projects EXCEPT ![Top(t).name] = Len(inst) + 1]
    /\ Finish(t, TRUE)
    /\ UNCHANGED <<crash, calls>>

-----------------------------------------------------------------------------
(* Processes and their watchers.                                           *)

\* The process exits by itself; os/exec kills the one whose context is cancelled.
Exits(i) ==
    /\ i <= Len(inst) /\ Alive(i)
    /\ inst' = [inst EXCEPT ![i].proc = IF @ = "up" THEN "exited" ELSE "killed"]
    /\ UNCHANGED <<projects, named, crash, stack, calls>>

\* MUTANT: the configuration decides alone.
autoRestart_ConfigOnly(i) == inst[i].of \in AutoRestart

autoRestart(i) == inst[i].of \in AutoRestart /\ ~inst[i].manual

\* watchProcess: Wait returns; one critical section.
Waited(i) ==
    /\ i <= Len(inst) /\ inst[i].watch = "wait" /\ ~Alive(i)
    /\ inst' = [inst EXCEPT ![i].auto = autoRestart(i), ![i].status = "stopped",
                            ![i].watch = "record"]
    /\ UNCHANGED <<projects, named, crash, stack, calls>>

recordCrash(i) ==
    /\ i <= Len(inst) /\ inst[i].watch = "record"
    /\ crash' = [crash EXCEPT ![inst[i].of] = @ + 1]
    /\ inst' = [inst EXCEPT ![i].watch = "decide"]
    /\ UNCHANGED <<projects, named, stack, calls>>

Decide(i) ==
    /\ i <= Len(inst) /\ inst[i].watch = "decide"
    /\ inst' = [inst EXCEPT ![i].watch =
                  IF inst[i].auto /\ ~isCircuitOpen(inst[i].of) THEN "backoff" ELSE "done"]
    /\ UNCHANGED <<projects, named, crash, stack, calls>>

\* The sleep is over: the watcher calls StartProject.  When that fails it marks its
\* own instance, which has ended anyway, as failed.
Wake(i) ==
    /\ i <= Len(inst) /\ inst[i].watch = "backoff"
    /\ inst' = [inst EXCEPT ![i].watch = "done"]
    /\ stack' = [stack EXCEPT ![i] = <<Frame("start", inst[i].of)>>]
    /\ UNCHANGED <<projects, named, crash, calls>>

\* A crash leaves the window of crashWindowSeconds.
Age(n) ==
    /\ crash[n] > 0 /\ crash' = [crash EXCEPT ![n] = @ - 1]
    /\ UNCHANGED <<projects, named, inst, stack, calls>>

-----------------------------------------------------------------------------
Serving(t) ==
    \/ Enter(t) \/ Find(t) \/ Mark(t) \/ Kill(t) \/ Settle(t)
    \/ StartDep(t) \/ StartFails(t) \/ Spawn(t)
Watching(i) == Waited(i) \/ recordCrash(i) \/ Decide(i) \/ Wake(i)

ProjectsNext ==
    \/ \E n \in Name : ProjectStart(n) \/ ProjectStop(n) \/ ProjectRestart(n)
    \/ StopAll \/ AutoStartProjects
    \/ \E t \in Thread : Serving(t)
    \/ \E i \in Inst : Exits(i) \/ Watching(i)
    \/ \E n \in Name : Age(n)

ProjectsSpec == ProjectsInit /\ [][ProjectsNext]_projectVars

-----------------------------------------------------------------------------
(* Properties.                                                             *)

\* A project has at most one live process, the one pm.projects knows, although
\* requests, dependants and watchers start it concurrently: nobody is left to
\* stop a second one.
LiveIsMapped == \A i \in 1..Len(inst) : Alive(i) => projects[inst[i].of] = i

\* What the listing calls stopped has no process.
StoppedIsDead == \A i \in 1..Len(inst) : inst[i].status = "stopped" => ~Alive(i)

\* One process per project, and the map tells the truth about it.
OneProcess == LiveIsMapped /\ StoppedIsDead

\* "stop should mean stop": a process that a stop has killed is not restarted by
\* its watcher, however the kill, the exit and the watcher's look at
\* manuallyStopped interleave.
KilledStaysDown == \A i \in 1..Len(inst) : inst[i].proc = "killed" => inst[i].watch # "backoff"

\* With acyclic dependencies every request and every automatic restart returns and
\* leaves no lock behind.
StartsReturn == \A t \in Thread : (stack[t] # <<>>) ~> (stack[t] = <<>>)

\* deploy_quiesce.go:67, "sets manuallyStopped=true so the auto-restart loop stays
\* out of our way until resumeProjects calls start": no watcher brings back a
\* project whose current instance was stopped.
StopIsKept ==
    [][\A i \in Inst : Spawn(i) /\ Len(stack[i]) = 1 => ~inst[Current(i)].manual]_projectVars
==============================================================================
