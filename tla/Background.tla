------------------------------ MODULE Background ------------------------------
(***************************************************************************)
(* pkg/shell/background.go and the handlers in pkg/handlers/shell_bg.go:   *)
(* supervised commands under a semaphore, a waiter goroutine per command,  *)
(* interrupts with a grace period, retention, and shutdown.                *)
(*                                                                         *)
(* m.mu and c.mu protect single assignments, so what happens under one     *)
(* lock is one step and everything between two locks interleaves.  A       *)
(* command's process group has a leader and perhaps a descendant that      *)
(* holds the output pipe: cmd.Wait returns only when both are gone.        *)
(***************************************************************************)
EXTENDS Naturals, FiniteSets

CONSTANTS
    Cmd,            \* bound: commands ever started; each is one id
    MaxConcurrent   \* BgMaxConcurrent

ASSUME BgConstants == MaxConcurrent \in Nat \ {0}

VARIABLES
    start,      \* the Start call for a command: "idle", "exec", "up", "over"
    leader,     \* its /bin/bash: "none", "runs", "stubborn" (traps SIGTERM), "dead"
    child,      \* a descendant holding the pipe: "none", "group", "escaped" (own session)
    exit,       \* how the leader ended: "none", "zero", "error"
    waiter,     \* waitFor: "none", "wait", "record", "release", "done"
    status,     \* bc.status
    finished,   \* is bc.finishedAt set?
    killer,     \* an Interrupt under way: "none", "signal", "grace", "check", "kill", "over"
    commands,   \* m.commands
    sem,        \* tokens in m.sem
    bgStop,     \* Shutdown: "no", "closed" (stop closed), "listed" (snapshot taken)
    toKill      \* its snapshot

procVars == <<leader, child, exit>>
bgVars == <<start, leader, child, exit, waiter, status, finished, killer,
            commands, sem, bgStop, toKill>>

BgTypeOK ==
    /\ start \in [Cmd -> {"idle", "exec", "up", "over"}]
    /\ leader \in [Cmd -> {"none", "runs", "stubborn", "dead"}]
    /\ child \in [Cmd -> {"none", "group", "escaped"}]
    /\ exit \in [Cmd -> {"none", "zero", "error"}]
    /\ waiter \in [Cmd -> {"none", "wait", "record", "release", "done"}]
    /\ status \in [Cmd -> {"running", "completed", "failed", "interrupted"}]
    /\ finished \in [Cmd -> BOOLEAN]
    /\ killer \in [Cmd -> {"none", "signal", "grace", "check", "kill", "over"}]
    /\ commands \subseteq Cmd /\ sem \in 0..MaxConcurrent
    /\ bgStop \in {"no", "closed", "listed"} /\ toKill \subseteq Cmd

BgInit ==
    /\ start = [c \in Cmd |-> "idle"] /\ leader = [c \in Cmd |-> "none"]
    /\ child = [c \in Cmd |-> "none"] /\ exit = [c \in Cmd |-> "none"]
    /\ waiter = [c \in Cmd |-> "none"] /\ status = [c \in Cmd |-> "running"]
    /\ finished = [c \in Cmd |-> FALSE] /\ killer = [c \in Cmd |-> "none"]
    /\ commands = {} /\ sem = 0 /\ bgStop = "no" /\ toKill = {}

-----------------------------------------------------------------------------
(* Start.                                                                  *)

\* m.sem <- struct{}{} blocks while the channel is full; the caller's context
\* may end first.
BgAcquire(c) ==
    /\ start[c] = "idle" /\ sem < MaxConcurrent
    /\ sem' = sem + 1 /\ start' = [start EXCEPT ![c] = "exec"]
    /\ UNCHANGED <<procVars, waiter, status, finished, killer, commands, bgStop, toKill>>
BgGiveUp(c) ==
    /\ start[c] = "idle"
    /\ start' = [start EXCEPT ![c] = "over"]
    /\ UNCHANGED <<procVars, waiter, status, finished, killer, commands, sem, bgStop, toKill>>

\* cmd.Start fails (no such directory, no memory): the slot goes back.
StartFails(c) ==
    /\ start[c] = "exec"
    /\ start' = [start EXCEPT ![c] = "over"] /\ sem' = sem - 1
    /\ UNCHANGED <<procVars, waiter, status, finished, killer, commands, bgStop, toKill>>

\* The process runs before anybody can find it.
StartRuns(c) ==
    /\ start[c] = "exec"
    /\ start' = [start EXCEPT ![c] = "up"]
    /\ \E l \in {"runs", "stubborn"} : leader' = [leader EXCEPT ![c] = l]
    /\ UNCHANGED <<child, exit, waiter, status, finished, killer, commands, sem, bgStop, toKill>>

\* m.commands[id] = bc, and go m.waitFor(bc).
Register(c) ==
    /\ start[c] = "up"
    /\ start' = [start EXCEPT ![c] = "over"]
    /\ commands' = commands \cup {c} /\ waiter' = [waiter EXCEPT ![c] = "wait"]
    /\ UNCHANGED <<procVars, status, finished, killer, sem, bgStop, toKill>>

-----------------------------------------------------------------------------
(* The processes.                                                          *)

Alive(c) == leader[c] \in {"runs", "stubborn"}

\* The command leaves something running in the background, in its own group
\* or (setsid) in another.
Fork(c) ==
    /\ Alive(c) /\ child[c] = "none"
    /\ \E k \in {"group", "escaped"} : child' = [child EXCEPT ![c] = k]
    /\ UNCHANGED <<start, leader, exit, waiter, status, finished, killer, commands, sem,
                   bgStop, toKill>>

Exits(c) ==
    /\ Alive(c)
    /\ leader' = [leader EXCEPT ![c] = "dead"]
    /\ \E e \in {"zero", "error"} : exit' = [exit EXCEPT ![c] = e]
    /\ UNCHANGED <<start, child, waiter, status, finished, killer, commands, sem, bgStop, toKill>>
ChildExits(c) ==
    /\ child[c] # "none"
    /\ child' = [child EXCEPT ![c] = "none"]
    /\ UNCHANGED <<start, leader, exit, waiter, status, finished, killer, commands, sem,
                   bgStop, toKill>>

\* kill(-pid, sig) reaches the group: SIGTERM spares who traps it (a trapping
\* leader's descendants inherit what it ignores), SIGKILL nobody.
Kill(c, sig) ==
    LET hit == leader[c] = "runs" \/ (leader[c] = "stubborn" /\ sig = "KILL") IN
    /\ leader' = [leader EXCEPT ![c] = IF hit THEN "dead" ELSE @]
    /\ exit' = [exit EXCEPT ![c] = IF hit THEN "error" ELSE @]
    /\ child' \in {[child EXCEPT ![c] = k] :
                       k \in CASE child[c] = "group" /\ sig = "KILL" -> {"none"}
                               [] child[c] = "group" -> {"none", "group"}
                               [] OTHER -> {child[c]}}

-----------------------------------------------------------------------------
(* waitFor.                                                                *)

\* cmd.Wait: the leader is reaped and the pipe has no writer left.
Reaped(c) ==
    /\ waiter[c] = "wait" /\ leader[c] = "dead" /\ child[c] = "none"
    /\ waiter' = [waiter EXCEPT ![c] = "record"]
    /\ UNCHANGED <<start, procVars, status, finished, killer, commands, sem, bgStop, toKill>>

\* An error after an interrupt stays "interrupted" (the ring never fails a write,
\* so the error is always an ExitError); a clean exit is "completed"
\* whoever asked.
Verdict(c) ==
    CASE exit[c] = "zero" -> "completed"
      [] status[c] = "interrupted" -> "interrupted"
      [] OTHER -> "failed"

Record(c) ==
    /\ waiter[c] = "record"
    /\ status' = [status EXCEPT ![c] = Verdict(c)]
    /\ finished' = [finished EXCEPT ![c] = TRUE]
    /\ waiter' = [waiter EXCEPT ![c] = "release"]
    /\ UNCHANGED <<start, procVars, killer, commands, sem, bgStop, toKill>>

\* The deferred <-m.sem and cancel().
Release(c) ==
    /\ waiter[c] = "release"
    /\ waiter' = [waiter EXCEPT ![c] = "done"] /\ sem' = sem - 1
    /\ UNCHANGED <<start, procVars, status, finished, killer, commands, bgStop, toKill>>

-----------------------------------------------------------------------------
(* Interrupt.                                                              *)

\* MUTANT: whatever state the command is in.
Mark_Always(c) ==
    /\ killer[c] \in {"none", "over"}
    /\ status' = [status EXCEPT ![c] = "interrupted"]
    /\ killer' = [killer EXCEPT ![c] = "signal"]

\* Under c.mu: only a running command is marked, and by one caller only.
Mark(c) ==
    /\ status[c] = "running"
    /\ status' = [status EXCEPT ![c] = "interrupted"]
    /\ killer' = [killer EXCEPT ![c] = "signal"]

\* The handler's lookup and the mark.  Nothing removes a running command, so
\* splitting the two would add no behaviour.
Interrupt(c) ==
    /\ c \in commands /\ Mark(c)
    /\ UNCHANGED <<start, procVars, waiter, finished, commands, sem, bgStop, toKill>>

Term(c) ==
    /\ killer[c] = "signal"
    /\ Kill(c, "TERM")
    /\ killer' = [killer EXCEPT ![c] = "grace"]
    /\ UNCHANGED <<start, waiter, status, finished, commands, sem, bgStop, toKill>>

\* After BgInterruptGrace, or as soon as m.stop is closed; when both are ready
\* select picks either.
GraceOver(c) ==
    /\ killer[c] = "grace"
    /\ killer' \in {[killer EXCEPT ![c] = k] :
                        k \in {"check"} \cup (IF bgStop # "no" THEN {"over"} ELSE {})}

Grace(c) ==
    /\ GraceOver(c)
    /\ UNCHANGED <<start, procVars, waiter, status, finished, commands, sem, bgStop, toKill>>

\* Is the command still unfinished?
GraceCheck(c) ==
    /\ killer[c] = "check"
    /\ killer' = [killer EXCEPT ![c] = IF ~finished[c] THEN "kill" ELSE "over"]
    /\ UNCHANGED <<start, procVars, waiter, status, finished, commands, sem, bgStop, toKill>>
GraceKill(c) ==
    /\ killer[c] = "kill"
    /\ Kill(c, "KILL")
    /\ killer' = [killer EXCEPT ![c] = "over"]
    /\ UNCHANGED <<start, waiter, status, finished, commands, sem, bgStop, toKill>>

-----------------------------------------------------------------------------
(* Forget, retention, shutdown.                                            *)

Forget(c) ==
    /\ c \in commands /\ status[c] # "running"
    /\ commands' = commands \ {c}
    /\ UNCHANGED <<start, procVars, waiter, status, finished, killer, sem, bgStop, toKill>>

\* Those whose finishedAt may be BgRetentionAfterFinish ago; time is not modelled.
Expirable == {c \in commands : finished[c]}

\* One pass of gcLoop, which runs until m.stop is closed (a tick already due may
\* still win).
gcOnce ==
    /\ \E old \in SUBSET Expirable : old # {} /\ commands' = commands \ old
    /\ UNCHANGED <<start, procVars, waiter, status, finished, killer, sem, bgStop, toKill>>

\* Shutdown: close(stop), snapshot the map, interrupt one by one.
ShutdownStop ==
    /\ bgStop = "no" /\ bgStop' = "closed"
    /\ UNCHANGED <<start, procVars, waiter, status, finished, killer, commands, sem, toKill>>
ShutdownList ==
    /\ bgStop = "closed" /\ bgStop' = "listed"
    /\ toKill' = commands
    /\ UNCHANGED <<start, procVars, waiter, status, finished, killer, commands, sem>>
ShutdownInterrupt(c) ==
    /\ bgStop = "listed" /\ c \in toKill
    /\ toKill' = toKill \ {c}
    /\ IF c \in commands /\ status[c] = "running" THEN Mark(c) ELSE UNCHANGED <<status, killer>>
    /\ UNCHANGED <<start, procVars, waiter, finished, commands, sem, bgStop>>

Starting(c) == StartFails(c) \/ StartRuns(c) \/ Register(c)
Waiting(c) == Reaped(c) \/ Record(c) \/ Release(c)
Killing(c) == Term(c) \/ Grace(c) \/ GraceCheck(c) \/ GraceKill(c)

BgNext ==
    \/ \E c \in Cmd :
        \/ BgAcquire(c) \/ BgGiveUp(c) \/ Starting(c) \/ Waiting(c) \/ Killing(c)
        \/ Fork(c) \/ Exits(c) \/ ChildExits(c)
        \/ Interrupt(c) \/ Forget(c) \/ ShutdownInterrupt(c)
    \/ gcOnce \/ ShutdownStop \/ ShutdownList

BgSpec == BgInit /\ [][BgNext]_bgVars

\* Goroutines run on; commands and their descendants may never end by themselves.
BgFair == \A c \in Cmd : WF_bgVars(Starting(c)) /\ WF_bgVars(Waiting(c)) /\ WF_bgVars(Killing(c))

-----------------------------------------------------------------------------
(* Properties.                                                             *)

\* The semaphore loses and gains no token: each one belongs to a Start under way
\* or to a command whose waiter has not ended, through failed starts, races
\* between interrupt and exit, and commands forgotten while they run.
SlotsExact ==
    sem = Cardinality({c \in Cmd : start[c] \in {"exec", "up"}
                                   \/ waiter[c] \in {"wait", "record", "release"}})

\* "BgMaxConcurrent caps in-flight background commands": never more commands
\* with a process of theirs alive than that, whoever interrupts, forgets or
\* outlives them.
InFlightCapped == Cardinality({c \in Cmd : Alive(c) \/ child[c] # "none"}) <= MaxConcurrent

\* The cap on background commands is kept and never shrinks.
SlotsKept == SlotsExact /\ InFlightCapped

\* A verdict is final: once a command has finished, no late interrupt and no
\* grace period still running changes what its status says.
VerdictFinal ==
    [][\A c \in Cmd : finished[c] => status'[c] = status[c] /\ finished'[c] = finished[c]]_bgVars

\* Interrupt "sends SIGTERM, waits up to BgInterruptGrace, then SIGKILLs": unless
\* the manager is shut down, an interrupted group dies, its record is completed
\* and its slot is free again, even when it traps SIGTERM.
InterruptsSettled ==
    \A c \in Cmd : status[c] = "interrupted" /\ bgStop = "no" /\ child[c] # "escaped" => waiter[c] = "done"
InterruptEnds == []<>InterruptsSettled

\* background.go:323, "Returns false if the command is still running".
ForgetOnlyFinished == [][\A c \in commands \ commands' : ~Alive(c)]_bgVars

\* background.go:132, Shutdown "interrupts every still-running command".
ShutdownKills == \A c \in Cmd : (bgStop = "listed") ~> ~Alive(c)
==============================================================================
