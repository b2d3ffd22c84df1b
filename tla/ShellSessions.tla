---------------------------- MODULE ShellSessions ----------------------------
(***************************************************************************)
(* pkg/shell/session.go and pkg/handlers/shell.go: command_run.  A session *)
(* is a long-lived bash behind a terminal; Execute writes a command and an *)
(* echo of a unique marker, and collects output until the marker, the      *)
(* deadline or the end of the session.  m.mu guards the map, s.mu is held  *)
(* for a whole Execute, and the cleanup loop takes s.mu while it holds     *)
(* m.mu.                                                                   *)
(***************************************************************************)
EXTENDS Naturals, Sequences, FiniteSets

CONSTANTS
    Req,            \* bound: Execute calls; a call is its command and its marker
    Sess,           \* bound: session objects
    SemCap,         \* MaxConcurrent; SANDBOX_CONCURRENCY may ask for less
    ChanCap,        \* capacity of s.output
    MaxSweeps,      \* bound: ticks of the cleanup loop
    None

ASSUME SessConstants ==
    /\ SemCap \in Nat \ {0} /\ ChanCap \in Nat \ {0} /\ MaxSweeps \in Nat
    /\ None \notin Req \cup Sess

VARIABLES
    sessions,   \* m.sessions[id] for the one id, or None (ids share only the semaphore)
    width,      \* the capacity of m.sem
    tokens,     \* tokens in it
    mmu,        \* m.mu held across steps: by the cleanup loop or not
    sbash,      \* a session's bash: "none", "runs", "dead"
    fd,         \* its ptmx: open or not
    ended,      \* s.done is closed
    stdin,      \* commands bash has not finished
    printed,    \* has the first of them printed?
    chan,       \* s.output: [of, kind] chunks
    smu,        \* holder of s.mu between steps: a call, the cleanup loop or None
    closeq,     \* sessions a Close is due for
    pc,         \* of a call: "idle", "sem", "get", "new", "insert", "lock", "write", "wait", "ret", "over"
    at,         \* the session it uses
    got,        \* chunks it has collected
    verdict,    \* "none", "completed", "hard_timeout", "terminated"
    clipped,    \* sessions that lost a chunk to a full channel
    sweeps      \* ticks so far

mapVars == <<sessions, width, tokens, mmu, sweeps>>
sessVars == <<sbash, fd, ended, stdin, printed, chan, clipped>>
callVars == <<pc, at, got, verdict>>
shellVars == <<mapVars, sessVars, smu, closeq, callVars>>

Chunk == [of : Req, kind : {"out", "mark"}]

SessTypeOK ==
    /\ sessions \in Sess \cup {None} /\ width \in 1..SemCap /\ tokens \in 0..width /\ mmu \in BOOLEAN
    /\ sweeps \in 0..MaxSweeps
    /\ sbash \in [Sess -> {"none", "runs", "dead"}]
    /\ {fd, ended, printed} \subseteq [Sess -> BOOLEAN] /\ clipped \subseteq Sess
    /\ \A s \in Sess : stdin[s] \in Seq(Req) /\ chan[s] \in Seq(Chunk) /\ Len(chan[s]) <= ChanCap
    /\ smu \in [Sess -> Req \cup {"sweep", None}] /\ closeq \subseteq Sess
    /\ pc \in [Req -> {"idle", "sem", "get", "new", "insert", "lock", "write", "wait", "ret", "over"}]
    /\ at \in [Req -> Sess \cup {None}] /\ got \in [Req -> SUBSET Chunk]
    /\ verdict \in [Req -> {"none", "completed", "hard_timeout", "terminated"}]

SessInit ==
    /\ sessions = None /\ width \in 1..SemCap /\ tokens = 0 /\ mmu = FALSE /\ sweeps = 0
    /\ sbash = [s \in Sess |-> "none"] /\ fd = [s \in Sess |-> FALSE]
    /\ ended = [s \in Sess |-> FALSE] /\ stdin = [s \in Sess |-> <<>>]
    /\ printed = [s \in Sess |-> FALSE] /\ chan = [s \in Sess |-> <<>>] /\ clipped = {}
    /\ smu = [s \in Sess |-> None] /\ closeq = {}
    /\ pc = [k \in Req |-> "idle"] /\ at = [k \in Req |-> None]
    /\ got = [k \in Req |-> {}] /\ verdict = [k \in Req |-> "none"]

To(k, l) == pc' = [pc EXCEPT ![k] = l]

-----------------------------------------------------------------------------
(* Manager.Execute and GetOrCreate.                                        *)

\* A request arrives, and waits for the semaphore.
Arrive(k) ==
    /\ pc[k] = "idle" /\ To(k, "sem")
    /\ UNCHANGED <<mapVars, sessVars, smu, closeq, at, got, verdict>>
AcquireSem(k) ==
    /\ pc[k] = "sem" /\ tokens < width
    /\ tokens' = tokens + 1 /\ To(k, "get")
    /\ UNCHANGED <<sessions, width, mmu, sweeps, sessVars, smu, closeq, at, got, verdict>>

\* The map's session, dead or alive, is used; without one, the call makes one.
GetSession(k) ==
    /\ pc[k] = "get" /\ ~mmu
    /\ IF sessions = None THEN To(k, "new") /\ UNCHANGED at
       ELSE To(k, "lock") /\ at' = [at EXCEPT ![k] = sessions]
    /\ UNCHANGED <<mapVars, sessVars, smu, closeq, got, verdict>>

\* newSession: bash, readLoop, the profile and 300 ms of draining; or an error.
newSession(k) ==
    /\ pc[k] = "new"
    /\ \/ /\ \E s \in Sess : sbash[s] = "none"
          /\ LET s == CHOOSE x \in Sess : sbash[x] = "none" IN
              /\ sbash' = [sbash EXCEPT ![s] = "runs"] /\ fd' = [fd EXCEPT ![s] = TRUE]
              /\ at' = [at EXCEPT ![k] = s]
          /\ To(k, "insert") /\ UNCHANGED verdict
       \/ /\ To(k, "ret") /\ verdict' = [verdict EXCEPT ![k] = "terminated"]
          /\ UNCHANGED <<sbash, fd, at>>
    /\ UNCHANGED <<mapVars, ended, stdin, printed, chan, clipped, smu, closeq, got>>

\* MUTANT: whoever loses returns the semaphore's token as well.
InsertSession_ReleaseToo(k) ==
    /\ pc[k] = "insert" /\ ~mmu
    /\ To(k, "lock")
    /\ IF sessions = None
       THEN sessions' = at[k] /\ UNCHANGED <<at, closeq, tokens>>
       ELSE /\ at' = [at EXCEPT ![k] = sessions] /\ closeq' = closeq \cup {at[k]}
            /\ tokens' = tokens - 1 /\ UNCHANGED sessions
    /\ UNCHANGED <<width, mmu, sweeps, sessVars, smu, got, verdict>>

\* The second lookup: ours goes in, or is closed in favour of the other (nobody
\* else knows it, so it makes no difference when).
InsertSession(k) ==
    /\ pc[k] = "insert" /\ ~mmu
    /\ To(k, "lock")
    /\ IF sessions = None
       THEN sessions' = at[k] /\ UNCHANGED <<at, closeq>>
       ELSE at' = [at EXCEPT ![k] = sessions] /\ closeq' = closeq \cup {at[k]} /\ UNCHANGED sessions
    /\ UNCHANGED <<width, tokens, mmu, sweeps, sessVars, smu, got, verdict>>

\* The deferred <-m.sem, and the response is on its way.
ReturnToken(k) ==
    /\ pc[k] = "ret"
    /\ tokens' = tokens - 1 /\ To(k, "over")
    /\ at' = [at EXCEPT ![k] = None] /\ got' = [got EXCEPT ![k] = {}]
    /\ verdict' = [verdict EXCEPT ![k] = "none"]
    /\ UNCHANGED <<sessions, width, mmu, sweeps, sessVars, smu, closeq>>

-----------------------------------------------------------------------------
(* Session.Execute, under s.mu throughout.                                 *)

Lock(k) ==
    /\ pc[k] = "lock" /\ smu[at[k]] = None
    /\ smu' = [smu EXCEPT ![at[k]] = k] /\ To(k, "write")
    /\ UNCHANGED <<mapVars, sessVars, closeq, at, got, verdict>>

Finish(k, v) ==
    /\ verdict' = [verdict EXCEPT ![k] = v] /\ To(k, "ret")
    /\ smu' = [smu EXCEPT ![at[k]] = None]

\* Ten milliseconds of draining, then the command and the echo of its marker go
\* into the terminal (which takes them even when bash is gone).
Submit(k) ==
    LET s == at[k] IN
    /\ pc[k] = "write" /\ fd[s]
    /\ chan' = [chan EXCEPT ![s] = <<>>]
    /\ stdin' = [stdin EXCEPT ![s] = Append(@, k)] /\ To(k, "wait")
    /\ UNCHANGED <<mapVars, sbash, fd, ended, printed, clipped, smu, closeq, at, got, verdict>>
SubmitFails(k) ==
    /\ pc[k] = "write" /\ (~fd[at[k]] \/ sbash[at[k]] = "dead")
    /\ Finish(k, "terminated")
    /\ UNCHANGED <<mapVars, sessVars, closeq, at, got>>

\* The marker this call has made up.
OwnMarker(k, c) == c.kind = "mark" /\ c.of = k

\* A chunk comes in.  The marker ends the call: "completed" with the exit code
\* behind it, "terminated" (code -1) when the chunk ends before the code.
Collect(k) ==
    LET s == at[k] c == Head(chan[s]) IN
    /\ pc[k] = "wait" /\ chan[s] # <<>>
    /\ chan' = [chan EXCEPT ![s] = Tail(@)]
    /\ IF OwnMarker(k, c) THEN (\E v \in {"completed", "terminated"} : Finish(k, v)) /\ UNCHANGED got
       ELSE got' = [got EXCEPT ![k] = @ \cup {c}] /\ UNCHANGED <<verdict, pc, smu>>
    /\ UNCHANGED <<mapVars, sbash, fd, ended, stdin, printed, clipped, closeq, at>>

\* The deadline, which may fire with output pending.
Deadline(k) ==
    /\ pc[k] = "wait" /\ Finish(k, "hard_timeout")
    /\ UNCHANGED <<mapVars, sessVars, closeq, at, got>>

\* s.done, likewise.
Terminated(k) ==
    /\ pc[k] = "wait" /\ ended[at[k]] /\ Finish(k, "terminated")
    /\ UNCHANGED <<mapVars, sessVars, closeq, at, got>>

-----------------------------------------------------------------------------
(* bash and readLoop.                                                      *)

\* readLoop's send: a full channel loses its oldest chunk.
Emit(s, c) ==
    /\ chan' = [chan EXCEPT ![s] = Append(IF Len(@) = ChanCap THEN Tail(@) ELSE @, c)]
    /\ clipped' = IF Len(chan[s]) = ChanCap THEN clipped \cup {s} ELSE clipped

\* The command at hand prints, and ends with the marker; or never does.
Prints(s) ==
    /\ sbash[s] = "runs" /\ fd[s] /\ stdin[s] # <<>> /\ ~printed[s]
    /\ printed' = [printed EXCEPT ![s] = TRUE]
    /\ Emit(s, [of |-> Head(stdin[s]), kind |-> "out"])
    /\ UNCHANGED <<mapVars, sbash, fd, ended, stdin, smu, closeq, callVars>>
Marks(s) ==
    /\ sbash[s] = "runs" /\ fd[s] /\ stdin[s] # <<>> /\ printed[s]
    /\ printed' = [printed EXCEPT ![s] = FALSE] /\ stdin' = [stdin EXCEPT ![s] = Tail(@)]
    /\ Emit(s, [of |-> Head(stdin[s]), kind |-> "mark"])
    /\ UNCHANGED <<mapVars, sbash, fd, ended, smu, closeq, callVars>>

\* The command was "exit", or bash crashed.
Dies(s) ==
    /\ sbash[s] = "runs" /\ stdin[s] # <<>>
    /\ sbash' = [sbash EXCEPT ![s] = "dead"]
    /\ UNCHANGED <<mapVars, fd, ended, stdin, printed, chan, clipped, smu, closeq, callVars>>
ReadLoopEnds(s) ==
    /\ sbash[s] # "none" /\ ~ended[s] /\ (sbash[s] = "dead" \/ ~fd[s])
    /\ ended' = [ended EXCEPT ![s] = TRUE]
    /\ UNCHANGED <<mapVars, sbash, fd, stdin, printed, chan, clipped, smu, closeq, callVars>>

-----------------------------------------------------------------------------
(* Close, CloseAll and the cleanup loop.                                   *)

\* MUTANT: Close does not wait for the session's mutex.
CloseSession_NoLock(s) ==
    /\ s \in closeq /\ closeq' = closeq \ {s}
    /\ fd' = [fd EXCEPT ![s] = FALSE] /\ sbash' = [sbash EXCEPT ![s] = "dead"]
    /\ UNCHANGED <<mapVars, ended, stdin, printed, chan, clipped, smu, callVars>>

\* Under s.mu: the terminal is closed, bash is killed and reaped.
CloseSession(s) ==
    /\ s \in closeq /\ smu[s] = None /\ closeq' = closeq \ {s}
    /\ fd' = [fd EXCEPT ![s] = FALSE] /\ sbash' = [sbash EXCEPT ![s] = "dead"]
    /\ UNCHANGED <<mapVars, ended, stdin, printed, chan, clipped, smu, callVars>>

\* CloseAll at shutdown (Remove is the same for one id).
CloseAllSessions ==
    /\ sessions # None /\ ~mmu
    /\ closeq' = closeq \cup {sessions} /\ sessions' = None
    /\ UNCHANGED <<width, tokens, mmu, sweeps, sessVars, smu, callVars>>

\* A tick: m.mu is taken, and kept while the loop waits for each s.mu.
SweepStarts ==
    /\ sweeps < MaxSweeps /\ ~mmu /\ sessions # None
    /\ mmu' = TRUE /\ sweeps' = sweeps + 1
    /\ UNCHANGED <<sessions, width, tokens, sessVars, smu, closeq, callVars>>

\* MUTANT: the session is closed on the spot, by a call that needs s.mu too.
SweepSession_CloseInline ==
    /\ mmu /\ smu[sessions] = None
    /\ smu' = [smu EXCEPT ![sessions] = "sweep"]
    /\ UNCHANGED <<mapVars, sessVars, closeq, callVars>>

\* lastUsed is the start of the last command: any session may be past
\* SessionIdleExpiry by the time its mutex is free.
SweepSession ==
    /\ mmu /\ smu[sessions] = None /\ mmu' = FALSE
    /\ \/ closeq' = closeq \cup {sessions} /\ sessions' = None
       \/ UNCHANGED <<sessions, closeq>>
    /\ UNCHANGED <<width, tokens, sweeps, sessVars, smu, callVars>>

Step(k) ==
    \/ GetSession(k) \/ newSession(k) \/ InsertSession(k) \/ Lock(k) \/ Submit(k) \/ SubmitFails(k)
    \/ Collect(k) \/ Deadline(k) \/ Terminated(k) \/ ReturnToken(k)

SessNext ==
    \/ \E k \in Req : Arrive(k) \/ AcquireSem(k) \/ Step(k)
    \/ \E s \in Sess : Prints(s) \/ Marks(s) \/ Dies(s) \/ ReadLoopEnds(s) \/ CloseSession(s)
    \/ CloseAllSessions \/ SweepStarts \/ SweepSession

SessSpec == SessInit /\ [][SessNext]_shellVars

\* Goroutines run on and deadlines fire; a command may hang.
SessFair ==
    /\ \A k \in Req : WF_shellVars(AcquireSem(k)) /\ WF_shellVars(Step(k))
    /\ \A s \in Sess : WF_shellVars(ReadLoopEnds(s)) /\ WF_shellVars(CloseSession(s))
    /\ WF_shellVars(SweepSession)

-----------------------------------------------------------------------------
(* Properties.                                                             *)

\* "Commands are delimited by unique markers to reliably detect completion": a
\* call that reports completion has had its own command run to the end, although
\* timed-out commands before it print their markers into its output.
CompletedIsOwn ==
    \A k \in Req : verdict[k] = "completed" =>
        \A i \in 1..Len(stdin[at[k]]) : stdin[at[k]][i] # k

\* A completed call returns what its command printed: neither the drain nor an
\* earlier call that timed out takes it away.  (A full channel may.)
OutputIsWhole ==
    \A k \in Req : verdict[k] = "completed" =>
        [of |-> k, kind |-> "out"] \in got[k] \/ at[k] \in clipped

\* What a completed call reports is its own command's completion and output.
ResultIsOwn == CompletedIsOwn /\ OutputIsWhole

\* Close waits for the command under way: a session is never closed under a
\* call that has submitted its command.
NoCloseMidCommand == \A k \in Req : pc[k] = "wait" => fd[at[k]]

\* No bash is orphaned: a running one is in the map, in the hands of the call
\* that makes it, or waiting to be closed.
SessionReachable ==
    \A s \in Sess : sbash[s] = "runs" =>
        sessions = s \/ s \in closeq \/ \E k \in Req : pc[k] = "insert" /\ at[k] = s

\* A session lives as long as somebody uses it, and no longer than somebody can.
SessionsKept == NoCloseMidCommand /\ SessionReachable

\* A command_run's report is its own command's, and its session stays with it.
SessionsRight == ResultIsOwn /\ SessionsKept

\* Every call returns, whatever commands hang: no cycle among the semaphore, m.mu
\* and the sessions' mutexes.
CallsSettled == \A k \in Req : pc[k] \in {"idle", "over"}
EveryCallReturns == []<>CallsSettled

\* session.go:248, "Drain any stale output left by a previous command".
OnlyOwnOutput == \A k \in Req : verdict[k] = "completed" => \A c \in got[k] : c.of = k
==============================================================================
