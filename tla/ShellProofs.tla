----------------------------- MODULE ShellProofs -----------------------------
(***************************************************************************)
(* Proofs about commands and files: that no slot of the background         *)
(* commands, of command_run or of the kernels is lost, doubled or          *)
(* overdrawn; that a verdict is final; that a command_run reports its own  *)
(* command; that an execution on a kernel passes on all its cell printed;  *)
(* that a listing of ports is no staler than it may be; that a file is     *)
(* whole whoever writes it; and that the values of all of them are well    *)
(* formed.                                                                 *)
(***************************************************************************)
EXTENDS MCShell, HandlerProofs, FunctionTheorems, SequenceTheorems, TLAPS

-----------------------------------------------------------------------------
(* Semaphores.                                                             *)

\* n tokens are out, one for each of S.
Counted(n, S) == IsFiniteSet(S) /\ n = Cardinality(S)

\* A token is taken, ...
LEMMA TokenTaken ==
    ASSUME NEW n, NEW S, NEW x, Counted(n, S), x \notin S
    PROVE  Counted(n + 1, S \cup {x}) /\ n \in Nat
BY FS_AddElement, FS_CardinalityType DEF Counted

\* ... and given back by somebody who has one.
LEMMA TokenBack ==
    ASSUME NEW n, NEW S, NEW x, Counted(n, S), x \in S
    PROVE  Counted(n - 1, S \ {x}) /\ n \in Nat /\ n >= 1
<1>1. Counted(n - 1, S \ {x}) /\ n \in Nat
  BY FS_RemoveElement, FS_CardinalityType DEF Counted
<1>2. n # 0
  BY FS_EmptySet DEF Counted
<1> QED
  BY <1>1, <1>2

-----------------------------------------------------------------------------
(* Background commands.                                                    *)

\* Who has a slot: a Start that is past the semaphore and a command whose waiter has
\* not returned.
BgHolders == {c \in Cmd : start[c] \in {"exec", "up"} \/ waiter[c] \in {"wait", "record", "release"}}

\* The life of a command: a process lives only between its start and its reaping,
\* nothing can be found before it is registered, and the waiter's record is final.
BgLife ==
    \A c \in Cmd :
        /\ start[c] # "over" => waiter[c] = "none" /\ c \notin commands
        /\ Alive(c) \/ child[c] # "none" => start[c] = "up" \/ waiter[c] = "wait"
        /\ finished[c] <=> waiter[c] \in {"release", "done"}
        /\ finished[c] => status[c] # "running"

BgInv == BgTypeOK /\ BgLife /\ Counted(sem, BgHolders)

LEMMA BgInitInv == BgInit => BgInv
<1> SUFFICES ASSUME BgInit PROVE BgInv
  OBVIOUS
<1>1. BgTypeOK
  BY BgConstants DEF BgInit, BgTypeOK
<1>2. BgLife
  BY DEF BgInit, BgLife, Alive
<1>3. BgHolders = {}
  BY DEF BgInit, BgHolders
<1> QED
  BY <1>1, <1>2, <1>3, FS_EmptySet DEF BgInv, Counted, BgInit

\* A signal only ends things.
LEMMA KillOnlyEnds ==
    ASSUME BgTypeOK, NEW c \in Cmd, NEW sig, Kill(c, sig)
    PROVE  /\ leader' \in [Cmd -> {"none", "runs", "stubborn", "dead"}]
           /\ child' \in [Cmd -> {"none", "group", "escaped"}]
           /\ exit' \in [Cmd -> {"none", "zero", "error"}]
           /\ \A d \in Cmd : Alive(d)' => Alive(d)
           /\ \A d \in Cmd : child'[d] # "none" => child[d] # "none"
<1>1. leader \in [Cmd -> {"none", "runs", "stubborn", "dead"}] /\ exit \in [Cmd -> {"none", "zero", "error"}]
      /\ child \in [Cmd -> {"none", "group", "escaped"}]
  BY DEF BgTypeOK
<1>2. \E k \in {"none", "group", "escaped"} : child' = [child EXCEPT ![c] = k] /\ (k # "none" => child[c] # "none")
  <2>1. CASE child[c] = "group" /\ sig = "KILL"
    BY <2>1, <1>1 DEF Kill
  <2>2. CASE child[c] = "group" /\ sig # "KILL"
    BY <2>2, <1>1 DEF Kill
  <2>3. CASE child[c] # "group"
    BY <2>3, <1>1 DEF Kill
  <2> QED
    BY <2>1, <2>2, <2>3
<1>3. PICK k \in {"none", "group", "escaped"} : child' = [child EXCEPT ![c] = k] /\ (k # "none" => child[c] # "none")
  BY <1>2
<1>4. leader' \in [Cmd -> {"none", "runs", "stubborn", "dead"}] /\ exit' \in [Cmd -> {"none", "zero", "error"}]
  BY <1>1 DEF Kill
<1>5. \A d \in Cmd : Alive(d)' => Alive(d)
  BY <1>1 DEF Kill, Alive
<1> QED
  BY <1>1, <1>3, <1>4, <1>5
\* What a step of one command leaves alone: every other command.
LEMMA BgLifeStep ==
    ASSUME BgInv, BgNext
    PROVE  BgTypeOK' /\ BgLife'
<1> USE BgConstants DEF BgInv, BgTypeOK, BgLife, Alive, procVars
<1>0. sem <= MaxConcurrent /\ sem \in Nat /\ Counted(sem, BgHolders)
  OBVIOUS
<1>1. ASSUME NEW c \in Cmd, BgAcquire(c) PROVE BgTypeOK' /\ BgLife'
  BY <1>1 DEF BgAcquire
<1>2. ASSUME NEW c \in Cmd, BgGiveUp(c) PROVE BgTypeOK' /\ BgLife'
  BY <1>2 DEF BgGiveUp
<1>3. ASSUME NEW c \in Cmd, StartFails(c) PROVE BgTypeOK' /\ BgLife'
  <2>1. c \in BgHolders
    BY <1>3 DEF StartFails, BgHolders
  <2>2. sem >= 1
    BY <2>1, <1>0, TokenBack
  <2> QED
    BY <1>3, <2>2 DEF StartFails
<1>4. ASSUME NEW c \in Cmd, StartRuns(c) PROVE BgTypeOK' /\ BgLife'
  BY <1>4 DEF StartRuns
<1>5. ASSUME NEW c \in Cmd, Register(c) PROVE BgTypeOK' /\ BgLife'
  BY <1>5 DEF Register
<1>6. ASSUME NEW c \in Cmd, Fork(c) PROVE BgTypeOK' /\ BgLife'
  BY <1>6 DEF Fork
<1>7. ASSUME NEW c \in Cmd, Exits(c) PROVE BgTypeOK' /\ BgLife'
  BY <1>7 DEF Exits
<1>8. ASSUME NEW c \in Cmd, ChildExits(c) PROVE BgTypeOK' /\ BgLife'
  BY <1>8 DEF ChildExits
<1>9. ASSUME NEW c \in Cmd, Reaped(c) PROVE BgTypeOK' /\ BgLife'
  BY <1>9 DEF Reaped
<1>10. ASSUME NEW c \in Cmd, Record(c) PROVE BgTypeOK' /\ BgLife'
  <2>1. Verdict(c) \in {"completed", "failed", "interrupted"}
    BY DEF Verdict
  <2> QED
    BY <1>10, <2>1 DEF Record
<1>11. ASSUME NEW c \in Cmd, Release(c) PROVE BgTypeOK' /\ BgLife'
  <2>1. c \in BgHolders
    BY <1>11 DEF Release, BgHolders
  <2>2. sem >= 1
    BY <2>1, <1>0, TokenBack
  <2> QED
    BY <1>11, <2>2 DEF Release
<1>12. ASSUME NEW c \in Cmd, Term(c) PROVE BgTypeOK' /\ BgLife'
  BY <1>12, KillOnlyEnds DEF Term
<1>13. ASSUME NEW c \in Cmd, Grace(c) PROVE BgTypeOK' /\ BgLife'
  BY <1>13 DEF Grace, GraceOver
<1>14. ASSUME NEW c \in Cmd, GraceCheck(c) PROVE BgTypeOK' /\ BgLife'
  BY <1>14 DEF GraceCheck
<1>15. ASSUME NEW c \in Cmd, GraceKill(c) PROVE BgTypeOK' /\ BgLife'
  BY <1>15, KillOnlyEnds DEF GraceKill
<1>16. ASSUME NEW c \in Cmd, Interrupt(c) PROVE BgTypeOK' /\ BgLife'
  BY <1>16 DEF Interrupt, Mark
<1>17. ASSUME NEW c \in Cmd, Forget(c) PROVE BgTypeOK' /\ BgLife'
  BY <1>17 DEF Forget
<1>18. ASSUME NEW c \in Cmd, ShutdownInterrupt(c) PROVE BgTypeOK' /\ BgLife'
  BY <1>18 DEF ShutdownInterrupt, Mark
<1>19. CASE gcOnce
  BY <1>19 DEF gcOnce
<1>20. CASE ShutdownStop
  BY <1>20 DEF ShutdownStop
<1>21. CASE ShutdownList
  BY <1>21 DEF ShutdownList
<1> QED
  BY <1>1, <1>2, <1>3, <1>4, <1>5, <1>6, <1>7, <1>8, <1>9, <1>10, <1>11, <1>12, <1>13, <1>14,
     <1>15, <1>16, <1>17, <1>18, <1>19, <1>20, <1>21 DEF BgNext, Starting, Waiting, Killing

\* Tokens follow their holders.
LEMMA BgSlotStep ==
    ASSUME BgInv, BgNext
    PROVE  Counted(sem, BgHolders)'
<1>0. Counted(sem, BgHolders) /\ BgLife
  BY DEF BgInv
<1>a. start \in [Cmd -> {"idle", "exec", "up", "over"}]
      /\ waiter \in [Cmd -> {"none", "wait", "record", "release", "done"}]
  BY DEF BgInv, BgTypeOK
<1>b. ASSUME sem' = sem, BgHolders' = BgHolders PROVE Counted(sem, BgHolders)'
  BY <1>0, <1>b
<1>1. ASSUME NEW c \in Cmd, BgAcquire(c) PROVE Counted(sem, BgHolders)'
  <2>1. c \notin BgHolders /\ BgHolders' = BgHolders \cup {c}
    BY <1>1, <1>0, <1>a DEF BgAcquire, BgHolders, BgLife
  <2>2. Counted(sem + 1, BgHolders \cup {c})
    BY <2>1, <1>0, TokenTaken
  <2>3. sem' = sem + 1
    BY <1>1 DEF BgAcquire
  <2> QED
    BY <2>1, <2>2, <2>3
<1>2. ASSUME NEW c \in Cmd, StartFails(c) \/ Release(c) PROVE Counted(sem, BgHolders)'
  <2>1. c \in BgHolders /\ BgHolders' = BgHolders \ {c}
    BY <1>2, <1>0, <1>a DEF StartFails, Release, BgHolders, BgLife
  <2>2. Counted(sem - 1, BgHolders \ {c})
    BY <2>1, <1>0, TokenBack
  <2>3. sem' = sem - 1
    BY <1>2 DEF StartFails, Release
  <2> QED
    BY <2>1, <2>2, <2>3
<1>3. ASSUME NEW c \in Cmd, BgGiveUp(c) \/ StartRuns(c) \/ Register(c) \/ Reaped(c) \/ Record(c)
      PROVE sem' = sem /\ BgHolders' = BgHolders
  BY <1>3, <1>a, <1>0 DEF BgGiveUp, StartRuns, Register, Reaped, Record, BgHolders, BgLife
<1>4. ASSUME NEW c \in Cmd, Killing(c) \/ Fork(c) \/ Exits(c) \/ ChildExits(c) \/ Interrupt(c) \/ Forget(c) \/ ShutdownInterrupt(c)
      PROVE sem' = sem /\ BgHolders' = BgHolders
  BY <1>4 DEF Killing, Term, Grace, GraceCheck, GraceKill, Fork, Exits, ChildExits, Interrupt, Forget,
              ShutdownInterrupt, BgHolders
<1>5. ASSUME gcOnce \/ ShutdownStop \/ ShutdownList PROVE sem' = sem /\ BgHolders' = BgHolders
  BY <1>5 DEF gcOnce, ShutdownStop, ShutdownList, BgHolders
<1> QED
  BY <1>b, <1>1, <1>2, <1>3, <1>4, <1>5 DEF BgNext, Starting, Waiting

LEMMA BgStep == BgInv /\ [BgNext]_bgVars => BgInv'
<1>1. ASSUME BgInv, BgNext PROVE BgInv'
  BY <1>1, BgLifeStep, BgSlotStep DEF BgInv
<1>2. ASSUME BgInv, UNCHANGED bgVars PROVE BgInv'
  BY <1>2 DEF bgVars, BgInv, BgTypeOK, BgLife, Alive, BgHolders
<1> QED
  BY <1>1, <1>2

\* Who holds a slot bounds who runs.
LEMMA BgSlotsKept == BgInv => SlotsKept
<1> SUFFICES ASSUME BgInv PROVE SlotsKept
  OBVIOUS
<1> DEFINE Running == {c \in Cmd : Alive(c) \/ child[c] # "none"}
<1>1. IsFiniteSet(BgHolders) /\ sem = Cardinality(BgHolders) /\ sem \in 0..MaxConcurrent
  BY DEF BgInv, BgTypeOK, Counted
<1>2. SlotsExact
  BY <1>1 DEF SlotsExact, BgHolders
<1>3. Running \in SUBSET BgHolders
  BY DEF BgInv, BgLife, BgHolders
<1>4. InFlightCapped
  <2>1. Cardinality(Running) <= sem /\ Cardinality(Running) \in Nat
    <3> HIDE DEF Running
    <3>1. IsFiniteSet(Running) /\ Cardinality(Running) <= sem
      BY <1>1, <1>3, FS_Subset
    <3> QED
      BY <3>1, FS_CardinalityType
  <2>2. Cardinality(Running) <= MaxConcurrent
    <3> HIDE DEF Running
    <3> QED
      BY <2>1, <1>1, BgConstants
  <2> QED
    BY <2>2 DEF InFlightCapped
<1> QED
  BY <1>2, <1>4 DEF SlotsKept

LEMMA BgVerdicts ==
    ASSUME BgInv, BgNext
    PROVE  \A c \in Cmd : finished[c] => status'[c] = status[c] /\ finished'[c] = finished[c]
<1>a. BgLife /\ status \in [Cmd -> {"running", "completed", "failed", "interrupted"}] /\ finished \in [Cmd -> BOOLEAN]
  BY DEF BgInv, BgTypeOK
<1> SUFFICES ASSUME NEW d \in Cmd, finished[d] PROVE status'[d] = status[d] /\ finished'[d] = finished[d]
  OBVIOUS
<1>1. ASSUME NEW c \in Cmd, Record(c) PROVE status'[d] = status[d] /\ finished'[d] = finished[d]
  <2>1. c # d
    BY <1>1, <1>a DEF Record, BgLife
  <2> QED
    BY <2>1, <1>1, <1>a DEF Record
<1>2. ASSUME NEW c \in Cmd, Interrupt(c) \/ ShutdownInterrupt(c) PROVE status'[d] = status[d] /\ finished'[d] = finished[d]
  BY <1>2, <1>a DEF Interrupt, ShutdownInterrupt, Mark, BgLife
<1>3. ASSUME NEW c \in Cmd, BgAcquire(c) \/ BgGiveUp(c) \/ Starting(c) \/ Reaped(c) \/ Release(c) \/ Killing(c)
                            \/ Fork(c) \/ Exits(c) \/ ChildExits(c) \/ Forget(c)
      PROVE status'[d] = status[d] /\ finished'[d] = finished[d]
  BY <1>3 DEF BgAcquire, BgGiveUp, Starting, StartFails, StartRuns, Register, Reaped, Release, Killing, Term,
              Grace, GraceCheck, GraceKill, Fork, Exits, ChildExits, Forget
<1>4. ASSUME gcOnce \/ ShutdownStop \/ ShutdownList PROVE status'[d] = status[d] /\ finished'[d] = finished[d]
  BY <1>4 DEF gcOnce, ShutdownStop, ShutdownList
<1> QED
  BY <1>1, <1>2, <1>3, <1>4 DEF BgNext, Waiting
-----------------------------------------------------------------------------
(* Kernels.                                                                *)

KernHolders == {k \in Kern : HoldsSlot(k)}

\* The types, one membership at a time.
KernTypes ==
    /\ context \in Kern \cup {NoKern} /\ kcap \in 1..MaxKernels /\ kslots \in 0..kcap
    /\ closing \in BOOLEAN
    /\ kpc \in [Kern -> {"idle", "reserve", "start", "boot", "insert", "undo", "live", "freed", "refused"}]
    /\ kproc \in [Kern -> {"none", "runs", "dead"}]
    /\ kclosed \in [Kern -> BOOLEAN] /\ kdone \in [Kern -> BOOLEAN]
    /\ kfile \in [Kern -> BOOLEAN] /\ ksock \in [Kern -> BOOLEAN]
    /\ konce \in [Kern -> {"new", "runs", "done"}] /\ kwaiter \in [Kern -> {"nobody", "loop", "kill"}]
    /\ call \in [Caller -> {"out", "enter", "grace", "once", "kill"}]
    /\ on \in [Caller -> Kern \cup {NoKern}] /\ todo \in [Caller -> SUBSET Kern]

LEMMA KernTypesSame == KernTypeOK <=> KernTypes
BY DEF KernTypeOK, KernTypes

\* The life of a kernel: it has no process before it is started, and whoever marked it
\* closed or done knew that it is dead or being killed.
KernelLife ==
    \A k \in Kern :
        /\ kpc[k] \in {"idle", "reserve", "start"} => kproc[k] = "none"
        /\ kpc[k] \in {"idle", "reserve", "start", "boot", "insert"} => konce[k] = "new"
        /\ kpc[k] \in {"freed", "refused"} => kproc[k] # "runs"
        /\ kdone[k] \/ konce[k] = "done" => kproc[k] = "dead"
        /\ kclosed[k] /\ konce[k] = "new" => kproc[k] = "dead"
        /\ closing => kproc[k] # "runs"

\* Who may be at a kernel: its own Spawn when it tears it down, everybody else only
\* once it has been registered.  A Spawn that is done with its own kernel left it dead.
CallersKnow ==
    /\ \A c \in Caller : /\ call[c] # "out" => on[c] \in Kern
                         /\ call[c] # "out" /\ on[c] # c => kpc[on[c]] \in {"live", "freed"}
                         /\ \A k \in todo[c] : kpc[k] \in {"live", "freed"}
    /\ \A k \in Kern : /\ todo[k] = {}
                       /\ kpc[k] # "undo" => call[k] = "out"
                       /\ call[k] # "out" => on[k] = k
                       /\ call[k] \in {"enter", "grace", "once"} => konce[k] = "new"
                       /\ call[k] = "kill" => konce[k] = "runs"
                       /\ kpc[k] = "undo" /\ call[k] = "out" => kproc[k] # "runs"

\* What the map holds is live, and a live kernel that runs is what it holds.
MapHoldsLive ==
    /\ context # NoKern => kpc[context] = "live"
    /\ \A k \in Kern : kpc[k] = "live" /\ kproc[k] = "runs" => context = k

KernInv == KernTypes /\ KernelLife /\ CallersKnow /\ MapHoldsLive /\ Counted(kslots, KernHolders)

LEMMA OwnCaller == ASSUME NEW k \in Kern PROVE k \in Caller
BY DEF Caller

LEMMA KernInitInv == KernInit => KernInv
<1> SUFFICES ASSUME KernInit PROVE KernInv
  OBVIOUS
<1>1. KernTypes
  <2>1. kcap \in 1..MaxKernels /\ kslots \in 0..kcap
    BY KernConstants DEF KernInit
  <2>2. /\ kpc \in [Kern -> {"idle", "reserve", "start", "boot", "insert", "undo", "live", "freed", "refused"}]
        /\ kproc \in [Kern -> {"none", "runs", "dead"}]
        /\ konce \in [Kern -> {"new", "runs", "done"}] /\ kwaiter \in [Kern -> {"nobody", "loop", "kill"}]
        /\ call \in [Caller -> {"out", "enter", "grace", "once", "kill"}]
    BY DEF KernInit
  <2>3. /\ kclosed \in [Kern -> BOOLEAN] /\ kdone \in [Kern -> BOOLEAN]
        /\ kfile \in [Kern -> BOOLEAN] /\ ksock \in [Kern -> BOOLEAN]
        /\ on \in [Caller -> Kern \cup {NoKern}] /\ todo \in [Caller -> SUBSET Kern]
        /\ context \in Kern \cup {NoKern} /\ closing \in BOOLEAN
    BY DEF KernInit
  <2> QED
    BY <2>1, <2>2, <2>3 DEF KernTypes
<1>2. KernelLife /\ CallersKnow /\ MapHoldsLive
  BY OwnCaller DEF KernInit, KernelLife, CallersKnow, MapHoldsLive
<1>3. KernHolders = {}
  BY DEF KernInit, KernHolders, HoldsSlot
<1> QED
  BY <1>1, <1>2, <1>3, FS_EmptySet DEF KernInv, Counted, KernInit

\* The steps that give no slot back and take none.
KernQuiet(k) == SpawnCheck(k) \/ StartKernel(k) \/ Ready(k) \/ NotReady(k) \/ InsertKernel(k) \/ KernelExits(k) \/ Waited(k)

LEMMA KernSlotStep ==
    ASSUME KernInv, KernNext
    PROVE  Counted(kslots, KernHolders)' /\ kslots' \in 0..kcap' /\ kcap' \in 1..MaxKernels
<1>0. /\ Counted(kslots, KernHolders) /\ kslots \in 0..kcap /\ kcap \in 1..MaxKernels
      /\ kpc \in [Kern -> {"idle", "reserve", "start", "boot", "insert", "undo", "live", "freed", "refused"}]
      /\ MaxKernels \in Nat
  BY KernConstants DEF KernInv, KernTypes
<1>b. ASSUME kslots' = kslots, kcap' = kcap, KernHolders' = KernHolders
      PROVE  Counted(kslots, KernHolders)' /\ kslots' \in 0..kcap' /\ kcap' \in 1..MaxKernels
  BY <1>0, <1>b
<1>c. ASSUME NEW k \in KernHolders, kslots' = kslots - 1, kcap' = kcap, KernHolders' = KernHolders \ {k}
      PROVE  Counted(kslots, KernHolders)' /\ kslots' \in 0..kcap' /\ kcap' \in 1..MaxKernels
  <2>1. Counted(kslots - 1, KernHolders \ {k}) /\ kslots >= 1 /\ kslots \in Nat
    BY <1>0, TokenBack
  <2>2. Counted(kslots, KernHolders)'
    BY <2>1, <1>c
  <2>3. kslots' \in 0..kcap' /\ kcap' \in 1..MaxKernels
    BY <2>1, <1>0, <1>c
  <2> QED
    BY <2>2, <2>3
<1>1. ASSUME NEW k \in Kern, Reserve(k)
      PROVE  Counted(kslots, KernHolders)' /\ kslots' \in 0..kcap' /\ kcap' \in 1..MaxKernels
  <2>1. CASE kslots < kcap
    <3>1. k \notin KernHolders /\ KernHolders' = KernHolders \cup {k}
      BY <2>1, <1>1, <1>0 DEF Reserve, KernHolders, HoldsSlot, GoTo
    <3>2. Counted(kslots + 1, KernHolders \cup {k})
      BY <3>1, <1>0, TokenTaken
    <3>3. kslots' = kslots + 1 /\ kcap' = kcap
      BY <2>1, <1>1 DEF Reserve
    <3>4. kslots' \in 0..kcap' /\ kcap' \in 1..MaxKernels
      BY <3>3, <2>1, <1>0
    <3> QED
      BY <3>1, <3>2, <3>3, <3>4
  <2>2. CASE ~(kslots < kcap)
    BY <2>2, <1>1, <1>0, <1>b DEF Reserve, KernHolders, HoldsSlot, GoTo
  <2> QED
    BY <2>1, <2>2
<1>2. ASSUME NEW k \in Kern, KernelFails(k) \/ Undone(k) \/ ReleaseKernel(k)
      PROVE  k \in KernHolders /\ kslots' = kslots - 1 /\ kcap' = kcap /\ KernHolders' = KernHolders \ {k}
  BY <1>2, <1>0 DEF KernelFails, Undone, ReleaseKernel, KernHolders, HoldsSlot, GoTo
<1>3. ASSUME NEW k \in Kern, SpawnCheck(k) \/ StartKernel(k) \/ Ready(k) \/ NotReady(k) \/ InsertKernel(k)
      PROVE  kslots' = kslots /\ kcap' = kcap /\ KernHolders' = KernHolders
  BY <1>3, <1>0 DEF SpawnCheck, StartKernel, Ready, NotReady, InsertKernel, ShutOwn, KernHolders, HoldsSlot, GoTo,
                    kmgrVars
<1>4. ASSUME NEW k \in Kern, KernelExits(k) \/ Waited(k)
      PROVE  kslots' = kslots /\ kcap' = kcap /\ KernHolders' = KernHolders
  BY <1>4 DEF KernelExits, Waited, WaitLoopEnds, KillWaits, KernHolders, HoldsSlot, kmgrVars
<1>5. ASSUME NEW c \in Caller, ShutdownStep(c)
      PROVE  kslots' = kslots /\ kcap' = kcap /\ KernHolders' = KernHolders
  BY <1>5 DEF ShutdownStep, Shutdown, GraceEnds, KillStarts, KillEnds, NextKernel, KernHolders, HoldsSlot, kmgrVars
<1>6. ASSUME StopContext \/ CloseCancel \/ CloseTake
      PROVE  kslots' = kslots /\ kcap' = kcap /\ KernHolders' = KernHolders
  BY SMTT(30), <1>6 DEF StopContext, CloseCancel, CloseTake, KernHolders, HoldsSlot, kmgrVars
<1> QED
  BY <1>b, <1>c, <1>1, <1>2, <1>3, <1>4, <1>5, <1>6 DEF KernNext, SpawnStep
\* Spawn's steps.
LEMMA SpawnLife ==
    ASSUME KernInv, NEW k \in Kern, SpawnCheck(k) \/ SpawnStep(k), kslots' \in 0..kcap', kcap' \in 1..MaxKernels
    PROVE  KernTypes' /\ KernelLife' /\ CallersKnow' /\ MapHoldsLive'
<1> USE KernConstants DEF KernInv, KernTypes, KernelLife, CallersKnow, MapHoldsLive, GoTo, kmgrVars, kernVars, callVarsK
<1>0. k \in Caller /\ k # NoKern
  BY OwnCaller
<1>1. CASE SpawnCheck(k)
  BY <1>1, <1>0 DEF SpawnCheck
<1>2. CASE Reserve(k)
  BY <1>2, <1>0 DEF Reserve
<1>3. CASE KernelFails(k)
  BY <1>3, <1>0 DEF KernelFails
<1>4. CASE StartKernel(k)
  BY <1>4, <1>0 DEF StartKernel
<1>5. CASE Ready(k)
  BY <1>5, <1>0 DEF Ready
<1>6. CASE NotReady(k)
  BY <1>6, <1>0 DEF NotReady, ShutOwn
<1>7. CASE InsertKernel(k) /\ context = NoKern
  BY <1>7, <1>0 DEF InsertKernel
<1>8. CASE InsertKernel(k) /\ context # NoKern
  <2>1. KernTypes'
    BY SMTT(30), <1>8, <1>0 DEF InsertKernel, ShutOwn
  <2>2. KernelLife' /\ MapHoldsLive'
    BY <1>8, <1>0 DEF InsertKernel, ShutOwn
  <2>3. CallersKnow'
    <3>1. /\ kpc[k] = "insert" /\ kpc' = [kpc EXCEPT ![k] = "undo"] /\ call' = [call EXCEPT ![k] = "enter"]
          /\ on' = [on EXCEPT ![k] = k] /\ todo' = todo /\ konce' = konce /\ kproc' = kproc
      BY <1>8 DEF InsertKernel, ShutOwn
    <3>2. \A d \in Kern : /\ todo'[d] = {} /\ (kpc'[d] # "undo" => call'[d] = "out")
                          /\ (call'[d] # "out" => on'[d] = d)
                          /\ (call'[d] \in {"enter", "grace", "once"} => konce'[d] = "new")
                          /\ (call'[d] = "kill" => konce'[d] = "runs")
                          /\ (kpc'[d] = "undo" /\ call'[d] = "out" => kproc'[d] # "runs")
      BY <3>1, <1>0, OwnCaller
    <3>3. \A c \in Caller : /\ (call'[c] # "out" => on'[c] \in Kern)
                            /\ (call'[c] # "out" /\ on'[c] # c => kpc'[on'[c]] \in {"live", "freed"})
                            /\ \A d \in todo'[c] : kpc'[d] \in {"live", "freed"}
      BY <3>1, <1>0
    <3> QED
      BY <3>2, <3>3
  <2> QED
    BY <2>1, <2>2, <2>3
<1>9. CASE Undone(k)
  BY <1>9, <1>0 DEF Undone
<1>10. CASE ReleaseKernel(k)
  BY SMTT(30), <1>10, <1>0 DEF ReleaseKernel
<1> QED
  BY <1>1, <1>2, <1>3, <1>4, <1>5, <1>6, <1>7, <1>8, <1>9, <1>10 DEF SpawnStep

\* The process, who waits for it, and who shuts it down.
LEMMA ShutdownLife ==
    ASSUME KernInv, kslots' \in 0..kcap', kcap' \in 1..MaxKernels,
           \/ \E k \in Kern : KernelExits(k) \/ Waited(k)
           \/ \E c \in Caller : ShutdownStep(c)
           \/ StopContext \/ CloseCancel \/ CloseTake
    PROVE  KernTypes' /\ KernelLife' /\ CallersKnow' /\ MapHoldsLive'
<1> USE KernConstants DEF KernInv, KernTypes, KernelLife, CallersKnow, MapHoldsLive, kmgrVars, kernVars, callVarsK
<1>0. \A k \in Kern : k \in Caller /\ k # NoKern /\ k # "stop" /\ k # "close"
  BY OwnCaller
<1>a. "stop" \in Caller /\ "close" \in Caller
  BY DEF Caller
<1>b. \A c \in Caller : c \notin Kern => c \in {"stop", "close"}
  BY DEF Caller
<1>1. ASSUME NEW k \in Kern, KernelExits(k) PROVE KernTypes' /\ KernelLife' /\ CallersKnow' /\ MapHoldsLive'
  BY <1>1, <1>0 DEF KernelExits
<1>2. ASSUME NEW k \in Kern, WaitLoopEnds(k) PROVE KernTypes' /\ KernelLife' /\ CallersKnow' /\ MapHoldsLive'
  BY <1>2, <1>0 DEF WaitLoopEnds
<1>3. ASSUME NEW k \in Kern, KillWaits(k) PROVE KernTypes' /\ KernelLife' /\ CallersKnow' /\ MapHoldsLive'
  BY <1>3, <1>0 DEF KillWaits
<1>4. ASSUME NEW c \in Caller, Shutdown(c) PROVE KernTypes' /\ KernelLife' /\ CallersKnow' /\ MapHoldsLive'
  BY <1>4, <1>0 DEF Shutdown, At
<1>5. ASSUME NEW c \in Caller, GraceEnds(c) PROVE KernTypes' /\ KernelLife' /\ CallersKnow' /\ MapHoldsLive'
  BY <1>5, <1>0 DEF GraceEnds, At
<1>6. ASSUME NEW c \in Caller, KillStarts(c) PROVE KernTypes' /\ KernelLife' /\ CallersKnow' /\ MapHoldsLive'
  <2>1. KernTypes' /\ MapHoldsLive'
    <3>0. on[c] \in Kern
      BY <1>6 DEF KillStarts
    <3>1. /\ konce' \in [Kern -> {"new", "runs", "done"}] /\ kclosed' \in [Kern -> BOOLEAN]
          /\ call' \in [Caller -> {"out", "enter", "grace", "once", "kill"}]
          /\ on' \in [Caller -> Kern \cup {NoKern}]
      <4>1. \E l \in {"out", "kill"} : At(c, l)
        BY <1>6 DEF KillStarts
      <4>2. PICK l \in {"out", "kill"} : At(c, l)
        BY <4>1
      <4>3. call' = [call EXCEPT ![c] = l] /\ (on' = on \/ on' = [on EXCEPT ![c] = NoKern])
        BY <4>2 DEF At
      <4>4. (konce' = [konce EXCEPT ![on[c]] = "runs"] \/ konce' = konce)
            /\ (kclosed' = [kclosed EXCEPT ![on[c]] = TRUE] \/ kclosed' = kclosed)
        BY <1>6 DEF KillStarts
      <4>5. call' \in [Caller -> {"out", "enter", "grace", "once", "kill"}]
        BY <4>3
      <4>6. on' \in [Caller -> Kern \cup {NoKern}]
        BY <4>3
      <4>7. konce' \in [Kern -> {"new", "runs", "done"}]
        BY <4>4
      <4>8. kclosed' \in [Kern -> BOOLEAN]
        <5>1. kclosed \in [Kern -> BOOLEAN]
          OBVIOUS
        <5> HIDE DEF KernInv, KernTypes, KernelLife, CallersKnow, MapHoldsLive
        <5>2. CASE kclosed' = kclosed
          BY <5>1, <5>2
        <5>3. CASE kclosed' = [kclosed EXCEPT ![on[c]] = TRUE]
          BY <5>1, <5>3
        <5> QED
          BY <4>4, <5>2, <5>3
      <4> QED
        BY <4>5, <4>6, <4>7, <4>8
    <3>2. UNCHANGED <<context, kcap, kslots, closing, kpc, kproc, kdone, kwaiter, kfile, ksock, todo>>
      BY <1>6 DEF KillStarts
    <3> QED
      BY <3>1, <3>2
  <2>2. on[c] \in Kern /\ (c \in Kern => on[c] = c)
    BY <1>6 DEF KillStarts
  <2>3. KernelLife'
    BY SMTT(30), <1>6, <1>0, <2>2 DEF KillStarts, At
  <2>4. ASSUME NEW k \in Kern, k # c, call[k] # "out" PROVE on[c] # k
    BY <2>2, <2>4, <1>6, <1>0 DEF KillStarts
  <2>5. CallersKnow'
    BY SMTT(30), <1>6, <1>0, <2>2, <2>4 DEF KillStarts, At
  <2> QED
    BY <2>1, <2>3, <2>5
<1>7. ASSUME NEW c \in Caller, KillEnds(c) PROVE KernTypes' /\ KernelLife' /\ CallersKnow' /\ MapHoldsLive'
  BY <1>7, <1>0 DEF KillEnds, At
<1>8. ASSUME NEW c \in Caller, NextKernel(c) PROVE KernTypes' /\ KernelLife' /\ CallersKnow' /\ MapHoldsLive'
  BY <1>8, <1>0 DEF NextKernel
<1>9. CASE StopContext
  BY <1>9, <1>0, <1>a DEF StopContext, Idling
<1>10. CASE CloseCancel
  BY <1>10, <1>0 DEF CloseCancel
<1>11. CASE CloseTake
  BY <1>11, <1>0, <1>a DEF CloseTake, Idling
<1> QED
  BY <1>1, <1>2, <1>3, <1>4, <1>5, <1>6, <1>7, <1>8, <1>9, <1>10, <1>11 DEF ShutdownStep, Waited

LEMMA KernStep == KernInv /\ [KernNext]_kernelsVars => KernInv'
<1>1. ASSUME KernInv, KernNext PROVE KernInv'
  BY <1>1, KernSlotStep, SpawnLife, ShutdownLife DEF KernInv, KernNext
<1>2. ASSUME KernInv, UNCHANGED kernelsVars PROVE KernInv'
  BY <1>2 DEF kernelsVars, kmgrVars, kernVars, callVarsK, KernInv, KernTypes, KernelLife, CallersKnow, MapHoldsLive,
              KernHolders, HoldsSlot
<1> QED
  BY <1>1, <1>2

LEMMA KernAccounted == KernInv => KernelsAccounted
<1> SUFFICES ASSUME KernInv PROVE KernelsAccounted
  OBVIOUS
<1>1. kslots = Cardinality({k \in Kern : HoldsSlot(k)})
  BY DEF KernInv, Counted, KernHolders
<1>2. \A k \in Kern : kproc[k] = "runs" => HoldsSlot(k)
  BY DEF KernInv, KernTypes, KernelLife, HoldsSlot
<1> QED
  BY <1>1, <1>2 DEF KernelsAccounted, KernInv, MapHoldsLive
-----------------------------------------------------------------------------
(* command_run.                                                            *)

\* A call that is past the semaphore has its token until it returns.
SessHolders == {k \in Req : pc[k] \in {"get", "new", "insert", "lock", "write", "wait", "ret"}}

MapTypes == sessions \in Sess \cup {None} /\ width \in 1..SemCap /\ tokens \in 0..width /\ mmu \in BOOLEAN /\ sweeps \in 0..MaxSweeps
BashTypes ==
    /\ sbash \in [Sess -> {"none", "runs", "dead"}]
    /\ fd \in [Sess -> BOOLEAN] /\ ended \in [Sess -> BOOLEAN] /\ printed \in [Sess -> BOOLEAN] /\ clipped \in SUBSET Sess
    /\ stdin \in [Sess -> Seq(Req)] /\ chan \in [Sess -> Seq(Chunk)]
    /\ \A s \in Sess : Len(chan[s]) <= ChanCap
CallTypes ==
    /\ smu \in [Sess -> Req \cup {"sweep", None}] /\ closeq \in SUBSET Sess
    /\ pc \in [Req -> {"idle", "sem", "get", "new", "insert", "lock", "write", "wait", "ret", "over"}]
    /\ at \in [Req -> Sess \cup {None}] /\ got \in [Req -> SUBSET Chunk]
    /\ verdict \in [Req -> {"none", "completed", "hard_timeout", "terminated"}]

SessTypes == MapTypes /\ BashTypes /\ CallTypes

\* A call at work has a session, and holds its mutex from the moment it writes on: what
\* closes a session needs that mutex.
CallSteps ==
    \A k \in Req :
        /\ pc[k] \in {"insert", "lock", "write", "wait"} => at[k] \in Sess
        /\ pc[k] \in {"write", "wait"} => smu[at[k]] = k
        /\ pc[k] = "wait" => fd[at[k]]
        /\ verdict[k] # "none" => pc[k] = "ret"
        /\ verdict[k] = "completed" => at[k] \in Sess

SweepHasSession == mmu => sessions # None

\* A call that has given its command to session s.
Submitted(k, s) == pc[k] \in {"wait", "ret", "over"} /\ (pc[k] \in {"wait", "ret"} => at[k] = s)

Occur(k, q) == \E i \in 1..Len(q) : q[i] = k
OutOf(k) == [of |-> k, kind |-> "out"]
MarkOf(k) == [of |-> k, kind |-> "mark"]

\* Every command is in one session's input, once; its marker comes out after it left.
Delimited ==
    \A s \in Sess :
        /\ \A i, j \in 1..Len(stdin[s]) : stdin[s][i] = stdin[s][j] => i = j
        /\ \A i \in 1..Len(stdin[s]) : Submitted(stdin[s][i], s)
        /\ \A i \in 1..Len(chan[s]) : /\ Submitted(chan[s][i].of, s)
                                      /\ chan[s][i].kind = "mark" => ~Occur(chan[s][i].of, stdin[s])
        /\ printed[s] => stdin[s] # <<>>

\* The command of k has not printed yet, or its output is in the channel before its marker.
NotPrinted(k, s) ==
    /\ \A j \in 1..Len(chan[s]) : chan[s][j].of # k
    /\ Occur(k, stdin[s]) /\ (printed[s] => stdin[s][1] # k)
Pending(k, s) ==
    \E i \in 1..Len(chan[s]) : chan[s][i] = OutOf(k) /\ \A j \in 1..i : chan[s][j] # MarkOf(k)

\* The output of the command under way is in order until the call has it or the channel
\* has lost something.
OutputComes ==
    \A k \in Req : pc[k] = "wait" =>
        at[k] \in clipped \/ OutOf(k) \in got[k] \/ NotPrinted(k, at[k]) \/ Pending(k, at[k])

SessInv ==
    /\ SessTypes /\ Counted(tokens, SessHolders)
    /\ CallSteps /\ SweepHasSession /\ SessionReachable
    /\ Delimited /\ OutputComes /\ ResultIsOwn

LEMMA SessTypesRight == SessTypes => SessTypeOK
<1> SUFFICES ASSUME SessTypes PROVE SessTypeOK
  OBVIOUS
<1>1. {fd, ended, printed} \subseteq [Sess -> BOOLEAN] /\ clipped \subseteq Sess /\ closeq \subseteq Sess
  BY DEF SessTypes, BashTypes, CallTypes
<1>2. \A s \in Sess : stdin[s] \in Seq(Req) /\ chan[s] \in Seq(Chunk) /\ Len(chan[s]) <= ChanCap
  BY DEF SessTypes, BashTypes
<1> QED
  BY <1>1, <1>2 DEF SessTypes, SessTypeOK, MapTypes, BashTypes, CallTypes

LEMMA SessInitInv == SessInit => SessInv
<1> SUFFICES ASSUME SessInit PROVE SessInv
  OBVIOUS
<1>1. MapTypes
  <2>1. width \in 1..SemCap /\ tokens \in 0..width /\ sweeps \in 0..MaxSweeps
    BY SessConstants DEF SessInit
  <2> QED
    BY <2>1 DEF SessInit, MapTypes
<1>2. BashTypes
  <2>0. <<>> \in Seq(Req) /\ <<>> \in Seq(Chunk) /\ Len(<<>>) = 0 /\ ChanCap \in Nat
    BY SessConstants
  <2>1. stdin \in [Sess -> Seq(Req)] /\ chan \in [Sess -> Seq(Chunk)]
    BY <2>0 DEF SessInit
  <2>2. \A s \in Sess : Len(chan[s]) <= ChanCap
    BY <2>0 DEF SessInit
  <2> QED
    BY <2>1, <2>2 DEF SessInit, BashTypes
<1>3. CallTypes
  BY DEF SessInit, CallTypes
<1>4. CallSteps /\ SweepHasSession /\ SessionReachable /\ OutputComes /\ ResultIsOwn
  BY DEF SessInit, CallSteps, SweepHasSession, SessionReachable, OutputComes, ResultIsOwn, CompletedIsOwn, OutputIsWhole
<1>5. Delimited
  BY DEF SessInit, Delimited
<1>6. SessHolders = {}
  BY DEF SessInit, SessHolders
<1> QED
  BY <1>1, <1>2, <1>3, <1>4, <1>5, <1>6, FS_EmptySet DEF SessInv, SessTypes, Counted, SessInit
\* Tokens follow the calls.
LEMMA SessSlotStep ==
    ASSUME SessInv, SessNext
    PROVE  Counted(tokens, SessHolders)' /\ MapTypes'
<1>0. /\ Counted(tokens, SessHolders) /\ MapTypes
      /\ pc \in [Req -> {"idle", "sem", "get", "new", "insert", "lock", "write", "wait", "ret", "over"}]
      /\ \A k \in Req : pc[k] = "insert" => at[k] \in Sess
  BY DEF SessInv, SessTypes, CallTypes, CallSteps
<1>a. tokens \in Nat /\ width \in Nat /\ SemCap \in Nat /\ MaxSweeps \in Nat /\ sweeps \in Nat
  BY <1>0, SessConstants DEF MapTypes
<1>b. ASSUME tokens' = tokens, SessHolders' = SessHolders PROVE Counted(tokens, SessHolders)'
  BY <1>0, <1>b
<1>1. ASSUME NEW k \in Req, AcquireSem(k) PROVE Counted(tokens, SessHolders)' /\ MapTypes'
  <2>1. k \notin SessHolders /\ SessHolders' = SessHolders \cup {k}
    BY <1>1, <1>0 DEF AcquireSem, SessHolders, To
  <2>2. Counted(tokens + 1, SessHolders \cup {k})
    BY <2>1, <1>0, TokenTaken
  <2>3. tokens' = tokens + 1 /\ tokens < width /\ UNCHANGED <<sessions, width, mmu, sweeps>>
    BY <1>1 DEF AcquireSem
  <2>4. tokens' \in 0..width
    BY <2>3, <1>a
  <2> QED
    BY <2>1, <2>2, <2>3, <2>4, <1>0 DEF MapTypes
<1>2. ASSUME NEW k \in Req, ReturnToken(k) PROVE Counted(tokens, SessHolders)' /\ MapTypes'
  <2>1. k \in SessHolders /\ SessHolders' = SessHolders \ {k}
    BY <1>2, <1>0 DEF ReturnToken, SessHolders, To
  <2>2. Counted(tokens - 1, SessHolders \ {k}) /\ tokens >= 1
    BY <2>1, <1>0, TokenBack
  <2>3. tokens' = tokens - 1 /\ UNCHANGED <<sessions, width, mmu, sweeps>>
    BY <1>2 DEF ReturnToken
  <2>4. tokens' \in 0..width
    BY <2>2, <2>3, <1>0, <1>a DEF MapTypes
  <2> QED
    BY <2>1, <2>2, <2>3, <2>4, <1>0 DEF MapTypes
<1>3. ASSUME NEW k \in Req, Arrive(k) \/ GetSession(k) \/ newSession(k) \/ Lock(k) \/ Submit(k)
      PROVE  SessHolders' = SessHolders /\ UNCHANGED mapVars
  BY <1>3, <1>0 DEF Arrive, GetSession, newSession, Lock, Submit, To, SessHolders
<1>4. ASSUME NEW k \in Req, SubmitFails(k) \/ Collect(k) \/ Deadline(k) \/ Terminated(k)
      PROVE  SessHolders' = SessHolders /\ UNCHANGED mapVars
  BY <1>4, <1>0 DEF SubmitFails, Collect, Deadline, Terminated, Finish, To, SessHolders
<1>5. ASSUME NEW s \in Sess, Prints(s) \/ Marks(s) \/ Dies(s) \/ ReadLoopEnds(s) \/ CloseSession(s)
      PROVE  SessHolders' = SessHolders /\ UNCHANGED mapVars
  BY <1>5 DEF Prints, Marks, Dies, ReadLoopEnds, CloseSession, callVars, SessHolders
<1>6. ASSUME NEW k \in Req, InsertSession(k) PROVE Counted(tokens, SessHolders)' /\ MapTypes'
  <2>1. tokens' = tokens /\ SessHolders' = SessHolders
    BY <1>6, <1>0 DEF InsertSession, To, SessHolders
  <2>2. sessions' \in Sess \cup {None} /\ UNCHANGED <<width, mmu, sweeps>>
    BY <1>6, <1>0 DEF InsertSession, MapTypes
  <2> QED
    BY <2>1, <2>2, <1>0, <1>b DEF MapTypes
<1>7. ASSUME CloseAllSessions \/ SweepStarts \/ SweepSession PROVE Counted(tokens, SessHolders)' /\ MapTypes'
  <2>1. tokens' = tokens /\ SessHolders' = SessHolders
    BY <1>7 DEF CloseAllSessions, SweepStarts, SweepSession, callVars, SessHolders
  <2>2. sessions' \in Sess \cup {None} /\ width' = width /\ mmu' \in BOOLEAN /\ sweeps' \in 0..MaxSweeps
    <3>1. CASE CloseAllSessions
      BY <3>1, <1>0 DEF CloseAllSessions, MapTypes
    <3>2. CASE SweepStarts
      BY <3>2, <1>0, <1>a DEF SweepStarts, MapTypes
    <3>3. CASE SweepSession
      BY <3>3, <1>0 DEF SweepSession, MapTypes
    <3> QED
      BY <3>1, <3>2, <3>3, <1>7
  <2> QED
    BY <2>1, <2>2, <1>0, <1>b DEF MapTypes
<1>8. ASSUME SessHolders' = SessHolders, UNCHANGED mapVars PROVE Counted(tokens, SessHolders)' /\ MapTypes'
  BY <1>8, <1>0, <1>b DEF mapVars, MapTypes
<1> QED
  BY <1>1, <1>2, <1>3, <1>4, <1>5, <1>6, <1>7, <1>8 DEF SessNext, Step
\* What readLoop sends goes behind what is there, or pushes the oldest chunk out.
LEMMA EmitAppends ==
    ASSUME BashTypes, NEW s \in Sess, NEW c \in Chunk, Emit(s, c)
    PROVE  /\ chan' \in [Sess -> Seq(Chunk)] /\ clipped' \in SUBSET Sess /\ clipped \subseteq clipped'
           /\ \A t \in Sess : Len(chan'[t]) <= ChanCap
           /\ \A t \in Sess : t # s => chan'[t] = chan[t]
           /\ chan'[s] = Append(chan[s], c) \/ (s \in clipped' /\ chan'[s] = Append(Tail(chan[s]), c) /\ chan[s] # <<>>)
<1>0. /\ ChanCap \in Nat /\ ChanCap >= 1 /\ chan \in [Sess -> Seq(Chunk)] /\ clipped \in SUBSET Sess
      /\ \A t \in Sess : Len(chan[t]) <= ChanCap
  BY SessConstants DEF BashTypes
<1>1. PICK q \in Seq(Chunk) : q = chan[s]
  BY SMTT(30), <1>0
<1>2. CASE Len(q) = ChanCap
  <2>1. q # <<>> /\ Tail(q) \in Seq(Chunk) /\ Len(Tail(q)) = Len(q) - 1
    BY <1>0, <1>1, <1>2
  <2>a. Append(Tail(q), c) \in Seq(Chunk) /\ Len(Append(Tail(q), c)) = Len(q)
    BY <2>1, AppendProperties
  <2>2. PICK r \in Seq(Chunk) : r = Append(Tail(q), c) /\ Len(r) = Len(q)
    BY <2>a
  <2>3. chan' = [chan EXCEPT ![s] = r] /\ clipped' = clipped \cup {s}
    BY <1>0, <1>1, <1>2, <2>2 DEF Emit
  <2> QED
    BY <2>1, <2>2, <2>3, <1>0, <1>1
<1>3. CASE Len(q) # ChanCap
  <2>a. Append(q, c) \in Seq(Chunk) /\ Len(Append(q, c)) = Len(q) + 1
    BY AppendProperties
  <2>2. PICK r \in Seq(Chunk) : r = Append(q, c) /\ Len(r) = Len(q) + 1
    BY <2>a
  <2>3. chan' = [chan EXCEPT ![s] = r] /\ clipped' = clipped
    BY <1>0, <1>1, <1>3, <2>2 DEF Emit
  <2>4. Len(r) <= ChanCap
    BY <1>0, <1>1, <1>3, <2>2
  <2> QED
    BY <2>2, <2>3, <2>4, <1>0, <1>1
<1> QED
  BY <1>2, <1>3

\* Sessions and calls keep their types.
LEMMA SessTypesStep ==
    ASSUME SessInv, SessNext
    PROVE  SessTypes'
<1>0. MapTypes' /\ MapTypes /\ BashTypes /\ CallTypes /\ CallSteps /\ SweepHasSession
  BY SessSlotStep DEF SessInv, SessTypes
<1> SUFFICES BashTypes' /\ CallTypes'
  BY <1>0 DEF SessTypes
<1>e. <<>> \in Seq(Chunk) /\ Len(<<>>) = 0 /\ ChanCap \in Nat
  BY SessConstants
<1>1. ASSUME NEW k \in Req, Arrive(k) \/ AcquireSem(k) \/ Lock(k) \/ ReturnToken(k) PROVE BashTypes' /\ CallTypes'
  <2>1. BashTypes'
    BY <1>1, <1>0 DEF Arrive, AcquireSem, Lock, ReturnToken, sessVars, BashTypes
  <2>2. CASE Arrive(k)
    BY <2>2, <2>1, <1>0 DEF Arrive, To, CallTypes
  <2>3. CASE AcquireSem(k)
    BY <2>3, <2>1, <1>0 DEF AcquireSem, To, CallTypes
  <2>4. CASE Lock(k)
    BY <2>4, <2>1, <1>0 DEF Lock, To, CallTypes
  <2>5. CASE ReturnToken(k)
    BY <2>5, <2>1, <1>0 DEF ReturnToken, To, CallTypes
  <2> QED
    BY <1>1, <2>2, <2>3, <2>4, <2>5
<1>2. ASSUME NEW k \in Req, GetSession(k) \/ newSession(k) \/ InsertSession(k) PROVE BashTypes' /\ CallTypes'
  <2>1. CASE GetSession(k)
    BY ZenonT(40), <2>1, <1>0 DEF GetSession, To, sessVars, BashTypes, CallTypes, MapTypes
  <2>2. CASE InsertSession(k)
    <3>1. BashTypes'
      BY <2>2, <1>0 DEF InsertSession, sessVars, BashTypes
    <3>2. at[k] \in Sess
      BY <2>2, <1>0 DEF InsertSession, CallSteps
    <3>3. at' \in [Req -> Sess \cup {None}] /\ closeq' \in SUBSET Sess
      <4>1. CASE sessions = None
        BY <4>1, <2>2, <1>0 DEF InsertSession, CallTypes
      <4>2. CASE sessions # None
        BY <4>2, <3>2, <2>2, <1>0 DEF InsertSession, CallTypes, MapTypes
      <4> QED
        BY <4>1, <4>2
    <3>4. pc' \in [Req -> {"idle", "sem", "get", "new", "insert", "lock", "write", "wait", "ret", "over"}]
      BY <2>2, <1>0 DEF InsertSession, To, CallTypes
    <3> QED
      BY <3>1, <3>3, <3>4, <2>2, <1>0 DEF InsertSession, CallTypes
  <2>3. CASE newSession(k)
    <3>1. /\ UNCHANGED <<ended, stdin, printed, chan, clipped, smu, closeq, got>>
          /\ pc' = [pc EXCEPT ![k] = "insert"] \/ pc' = [pc EXCEPT ![k] = "ret"]
          /\ verdict' = verdict \/ verdict' = [verdict EXCEPT ![k] = "terminated"]
          /\ \/ \E s \in Sess : sbash' = [sbash EXCEPT ![s] = "runs"] /\ fd' = [fd EXCEPT ![s] = TRUE] /\ at' = [at EXCEPT ![k] = s]
             \/ UNCHANGED <<sbash, fd, at>>
      BY <2>3 DEF newSession, To
    <3>2. BashTypes'
      BY <3>1, <1>0 DEF BashTypes
    <3>3. pc' \in [Req -> {"idle", "sem", "get", "new", "insert", "lock", "write", "wait", "ret", "over"}]
          /\ verdict' \in [Req -> {"none", "completed", "hard_timeout", "terminated"}]
      BY <3>1, <1>0 DEF CallTypes
    <3>4. at' \in [Req -> Sess \cup {None}]
      BY <3>1, <1>0 DEF CallTypes
    <3> QED
      BY <3>1, <3>2, <3>3, <3>4, <1>0 DEF CallTypes
  <2> QED
    BY <1>2, <2>1, <2>2, <2>3
<1>3. ASSUME NEW k \in Req, SubmitFails(k) \/ Deadline(k) \/ Terminated(k) PROVE BashTypes' /\ CallTypes'
  <2>1. BashTypes'
    BY <1>3, <1>0 DEF SubmitFails, Deadline, Terminated, sessVars, BashTypes
  <2>2. CallTypes'
    BY <1>3, <1>0 DEF SubmitFails, Deadline, Terminated, Finish, To, CallTypes
  <2> QED
    BY <2>1, <2>2
<1>4. ASSUME NEW k \in Req, Submit(k) PROVE BashTypes' /\ CallTypes'
  <2>1. at[k] \in Sess
    BY <1>4, <1>0 DEF Submit, CallSteps
  <2>2. stdin' \in [Sess -> Seq(Req)]
    <3>a. Append(stdin[at[k]], k) \in Seq(Req)
      BY <2>1, <1>0, AppendProperties DEF BashTypes
    <3>1. PICK r \in Seq(Req) : r = Append(stdin[at[k]], k)
      BY <3>a
    <3>2. stdin' = [stdin EXCEPT ![at[k]] = r]
      BY <3>1, <2>1, <1>0, <1>4 DEF Submit, BashTypes
    <3> QED
      BY <3>1, <3>2, <2>1, <1>0 DEF BashTypes
  <2>3. chan' \in [Sess -> Seq(Chunk)] /\ \A s \in Sess : Len(chan'[s]) <= ChanCap
    BY <1>4, <1>0, <1>e, <2>1 DEF Submit, BashTypes
  <2>4. BashTypes'
    BY <2>2, <2>3, <1>4, <1>0 DEF Submit, BashTypes
  <2> QED
    BY <2>4, <1>4, <1>0 DEF Submit, To, CallTypes
<1>5. ASSUME NEW k \in Req, Collect(k) PROVE BashTypes' /\ CallTypes'
  <2>1. at[k] \in Sess /\ chan[at[k]] # <<>>
    BY <1>5, <1>0 DEF Collect, CallSteps
  <2>2. PICK q \in Seq(Chunk) : q = chan[at[k]] /\ Len(q) <= ChanCap
    BY <2>1, <1>0 DEF BashTypes
  <2>3. Head(q) \in Chunk /\ Tail(q) \in Seq(Chunk) /\ Len(Tail(q)) <= ChanCap
    BY <2>1, <2>2, <1>e, HeadTailProperties
  <2>4. chan' = [chan EXCEPT ![at[k]] = Tail(q)]
    BY <2>1, <2>2, <1>5, <1>0 DEF Collect, BashTypes
  <2>5. chan' \in [Sess -> Seq(Chunk)] /\ \A s \in Sess : Len(chan'[s]) <= ChanCap
    BY <2>1, <2>3, <2>4, <1>0 DEF BashTypes
  <2>6. BashTypes'
    BY <2>5, <1>5, <1>0 DEF Collect, BashTypes
  <2>7. got' = got \/ got' = [got EXCEPT ![k] = @ \cup {Head(q)}]
    BY <1>5, <2>2 DEF Collect
  <2>8. got' \in [Req -> SUBSET Chunk]
    BY <2>3, <2>7, <1>0 DEF CallTypes
  <2>9. /\ pc' \in [Req -> {"idle", "sem", "get", "new", "insert", "lock", "write", "wait", "ret", "over"}]
        /\ smu' \in [Sess -> Req \cup {"sweep", None}]
        /\ verdict' \in [Req -> {"none", "completed", "hard_timeout", "terminated"}]
    BY <1>5, <1>0 DEF Collect, Finish, To, CallTypes
  <2> QED
    BY <2>6, <2>8, <2>9, <1>5, <1>0 DEF Collect, CallTypes
<1>6. ASSUME NEW s \in Sess, Prints(s) \/ Marks(s) PROVE BashTypes' /\ CallTypes'
  <2>1. stdin[s] \in Seq(Req) /\ stdin[s] # <<>>
    BY <1>6, <1>0 DEF Prints, Marks, BashTypes
  <2>2. Head(stdin[s]) \in Req /\ Tail(stdin[s]) \in Seq(Req)
    BY <2>1, HeadTailProperties
  <2>3. \E c \in Chunk : Emit(s, c)
    BY <2>2, <1>6 DEF Prints, Marks, Chunk
  <2>4. /\ chan' \in [Sess -> Seq(Chunk)] /\ clipped' \in SUBSET Sess
        /\ \A t \in Sess : Len(chan'[t]) <= ChanCap
    BY <2>3, <1>0, EmitAppends
  <2>5. stdin' \in [Sess -> Seq(Req)] /\ printed' \in [Sess -> BOOLEAN]
    <3>1. stdin' = stdin \/ stdin' = [stdin EXCEPT ![s] = Tail(@)]
      BY <1>6 DEF Prints, Marks
    <3>2. stdin' \in [Sess -> Seq(Req)]
      BY <3>1, <2>2, <1>0 DEF BashTypes
    <3>3. printed' \in [Sess -> BOOLEAN]
      BY <1>6, <1>0 DEF Prints, Marks, BashTypes
    <3> QED
      BY <3>2, <3>3
  <2>6. UNCHANGED <<sbash, fd, ended, smu, closeq, pc, at, got, verdict>>
    BY <1>6 DEF Prints, Marks, callVars
  <2> QED
    BY <2>4, <2>5, <2>6, <1>0 DEF BashTypes, CallTypes
<1>7. ASSUME NEW s \in Sess, Dies(s) \/ ReadLoopEnds(s) \/ CloseSession(s) PROVE BashTypes' /\ CallTypes'
  BY <1>7, <1>0 DEF Dies, ReadLoopEnds, CloseSession, callVars, BashTypes, CallTypes
<1>8. ASSUME CloseAllSessions \/ SweepStarts \/ SweepSession PROVE BashTypes' /\ CallTypes'
  BY <1>8, <1>0 DEF CloseAllSessions, SweepStarts, SweepSession, sessVars, callVars, BashTypes, CallTypes, MapTypes,
                    SweepHasSession
<1> QED
  BY <1>1, <1>2, <1>3, <1>4, <1>5, <1>6, <1>7, <1>8 DEF SessNext, Step
\* What is under a session's mutex stays under it, and no bash is orphaned.
LEMMA SessCallStep ==
    ASSUME SessInv, SessNext
    PROVE  CallSteps' /\ SweepHasSession' /\ SessionReachable'
<1>0. /\ sessions \in Sess \cup {None}
      /\ sbash \in [Sess -> {"none", "runs", "dead"}] /\ fd \in [Sess -> BOOLEAN]
      /\ smu \in [Sess -> Req \cup {"sweep", None}] /\ closeq \in SUBSET Sess
      /\ pc \in [Req -> {"idle", "sem", "get", "new", "insert", "lock", "write", "wait", "ret", "over"}]
      /\ at \in [Req -> Sess \cup {None}]
      /\ verdict \in [Req -> {"none", "completed", "hard_timeout", "terminated"}]
      /\ None \notin Req /\ None \notin Sess
      /\ CallSteps /\ SweepHasSession /\ SessionReachable
  BY SessConstants DEF SessInv, SessTypes, MapTypes, BashTypes, CallTypes
<1> USE DEF CallSteps, SweepHasSession, SessionReachable, To
<1>1. ASSUME NEW k \in Req, Arrive(k) PROVE CallSteps' /\ SweepHasSession' /\ SessionReachable'
  BY <1>1, <1>0 DEF Arrive, mapVars, sessVars
<1>2. ASSUME NEW k \in Req, AcquireSem(k) PROVE CallSteps' /\ SweepHasSession' /\ SessionReachable'
  BY <1>2, <1>0 DEF AcquireSem, sessVars
<1>3. ASSUME NEW k \in Req, GetSession(k) PROVE CallSteps' /\ SweepHasSession' /\ SessionReachable'
  BY <1>3, <1>0 DEF GetSession, mapVars, sessVars
<1>4. ASSUME NEW k \in Req, newSession(k) PROVE CallSteps' /\ SweepHasSession' /\ SessionReachable'
  <2>1. CASE pc' = [pc EXCEPT ![k] = "ret"] /\ verdict' = [verdict EXCEPT ![k] = "terminated"] /\ UNCHANGED <<sbash, fd, at>>
    BY <2>1, <1>4, <1>0 DEF newSession, mapVars
  <2>2. CASE \E s \in Sess : /\ sbash[s] = "none" /\ sbash' = [sbash EXCEPT ![s] = "runs"]
                             /\ fd' = [fd EXCEPT ![s] = TRUE] /\ at' = [at EXCEPT ![k] = s]
                             /\ pc' = [pc EXCEPT ![k] = "insert"] /\ verdict' = verdict
    BY <2>2, <1>4, <1>0 DEF newSession, mapVars
  <2> QED
    BY <2>1, <2>2, <1>4 DEF newSession
<1>5. ASSUME NEW k \in Req, InsertSession(k) PROVE CallSteps' /\ SweepHasSession' /\ SessionReachable'
  <2>1. CASE sessions = None
    BY <2>1, <1>5, <1>0 DEF InsertSession, sessVars
  <2>2. CASE sessions # None
    BY <2>2, <1>5, <1>0 DEF InsertSession, sessVars
  <2> QED
    BY <2>1, <2>2
<1>6. ASSUME NEW k \in Req, Lock(k) PROVE CallSteps' /\ SweepHasSession' /\ SessionReachable'
  BY <1>6, <1>0 DEF Lock, mapVars, sessVars
<1>7. ASSUME NEW k \in Req, Submit(k) PROVE CallSteps' /\ SweepHasSession' /\ SessionReachable'
  BY <1>7, <1>0 DEF Submit, mapVars
<1>8. ASSUME NEW k \in Req, NEW v \in {"completed", "hard_timeout", "terminated"}, Finish(k, v), pc[k] \in {"write", "wait"},
             UNCHANGED <<mapVars, sbash, fd, closeq, at>>
      PROVE  CallSteps' /\ SweepHasSession' /\ SessionReachable'
  <2>1. at[k] \in Sess /\ smu[at[k]] = k
    BY <1>8, <1>0
  <2>2. pc' = [pc EXCEPT ![k] = "ret"] /\ verdict' = [verdict EXCEPT ![k] = v] /\ smu' = [smu EXCEPT ![at[k]] = None]
    BY <1>8 DEF Finish
  <2>3. CallSteps'
    BY <2>1, <2>2, <1>8, <1>0
  <2> QED
    BY <2>2, <2>3, <1>8, <1>0 DEF mapVars
<1>9. ASSUME NEW k \in Req, SubmitFails(k) \/ Deadline(k) \/ Terminated(k)
      PROVE  CallSteps' /\ SweepHasSession' /\ SessionReachable'
  BY <1>8, <1>9 DEF SubmitFails, Deadline, Terminated, sessVars
<1>10. ASSUME NEW k \in Req, Collect(k) PROVE CallSteps' /\ SweepHasSession' /\ SessionReachable'
  <2>1. UNCHANGED <<mapVars, sbash, fd, closeq, at>> /\ pc[k] = "wait"
    BY <1>10 DEF Collect
  <2>2. (\E v \in {"completed", "terminated"} : Finish(k, v)) \/ UNCHANGED <<verdict, pc, smu>>
    BY <1>10 DEF Collect
  <2>3. CASE UNCHANGED <<verdict, pc, smu>>
    BY <2>1, <2>3, <1>0 DEF mapVars
  <2> QED
    BY <2>1, <2>2, <2>3, <1>8
<1>11. ASSUME NEW k \in Req, ReturnToken(k) PROVE CallSteps' /\ SweepHasSession' /\ SessionReachable'
  BY <1>11, <1>0 DEF ReturnToken, sessVars
<1>12. ASSUME NEW s \in Sess, Prints(s) \/ Marks(s) PROVE CallSteps' /\ SweepHasSession' /\ SessionReachable'
  BY <1>12, <1>0 DEF Prints, Marks, callVars, mapVars
<1>13. ASSUME NEW s \in Sess, Dies(s) PROVE CallSteps' /\ SweepHasSession' /\ SessionReachable'
  BY <1>13, <1>0 DEF Dies, callVars, mapVars
<1>14. ASSUME NEW s \in Sess, ReadLoopEnds(s) PROVE CallSteps' /\ SweepHasSession' /\ SessionReachable'
  BY <1>14, <1>0 DEF ReadLoopEnds, callVars, mapVars
<1>15. ASSUME NEW s \in Sess, CloseSession(s) PROVE CallSteps' /\ SweepHasSession' /\ SessionReachable'
  BY <1>15, <1>0 DEF CloseSession, callVars, mapVars
<1>16. CASE CloseAllSessions
  BY <1>16, <1>0 DEF CloseAllSessions, callVars, sessVars
<1>17. CASE SweepStarts
  BY <1>17, <1>0 DEF SweepStarts, callVars, sessVars
<1>18. CASE SweepSession
  BY <1>18, <1>0 DEF SweepSession, callVars, sessVars
<1> QED
  BY <1>1, <1>2, <1>3, <1>4, <1>5, <1>6, <1>7, <1>9, <1>10, <1>11, <1>12, <1>13, <1>14,
     <1>15, <1>16, <1>17, <1>18 DEF SessNext, Step
\* Calls that submitted stay submitted, wherever the step takes them.
StaySubmitted ==
    \A k \in Req : pc[k] \in {"wait", "ret", "over"} =>
        /\ pc'[k] \in {"wait", "ret", "over"}
        /\ pc'[k] \in {"wait", "ret"} => pc[k] \in {"wait", "ret"} /\ at'[k] = at[k]

LEMMA SubmittedStays ==
    ASSUME StaySubmitted, NEW k \in Req, NEW s, Submitted(k, s)
    PROVE  Submitted(k, s)'
BY DEF StaySubmitted, Submitted

LEMMA CallsStay ==
    ASSUME SessInv, SessNext
    PROVE  StaySubmitted
<1>0. /\ pc \in [Req -> {"idle", "sem", "get", "new", "insert", "lock", "write", "wait", "ret", "over"}]
      /\ at \in [Req -> Sess \cup {None}]
  BY DEF SessInv, SessTypes, CallTypes
<1>1. ASSUME NEW k \in Req, Arrive(k) \/ AcquireSem(k) \/ GetSession(k) \/ newSession(k) \/ InsertSession(k)
      PROVE  StaySubmitted
  BY <1>1, <1>0 DEF Arrive, AcquireSem, GetSession, newSession, InsertSession, To, StaySubmitted
<1>2. ASSUME NEW k \in Req, Lock(k) \/ Submit(k) \/ SubmitFails(k) \/ Collect(k) \/ Deadline(k) \/ Terminated(k) \/ ReturnToken(k)
      PROVE  StaySubmitted
  BY <1>2, <1>0 DEF Lock, Submit, SubmitFails, Collect, Deadline, Terminated, ReturnToken, Finish, To, StaySubmitted
<1>3. ASSUME NEW s \in Sess, Prints(s) \/ Marks(s) \/ Dies(s) \/ ReadLoopEnds(s) \/ CloseSession(s)
      PROVE  StaySubmitted
  BY <1>3 DEF Prints, Marks, Dies, ReadLoopEnds, CloseSession, callVars, StaySubmitted
<1>4. ASSUME CloseAllSessions \/ SweepStarts \/ SweepSession PROVE StaySubmitted
  BY <1>4 DEF CloseAllSessions, SweepStarts, SweepSession, callVars, StaySubmitted
<1> QED
  BY <1>1, <1>2, <1>3, <1>4 DEF SessNext, Step

\* One session's input and output, however they are changed: what Delimited says of it.
Orderly(q, c, p) ==
    /\ \A i, j \in 1..Len(q) : q[i] = q[j] => i = j
    /\ \A i \in 1..Len(c) : c[i].kind = "mark" => ~Occur(c[i].of, q)
    /\ p => q # <<>>

Belong(q, c, s) == (\A i \in 1..Len(q) : Submitted(q[i], s)) /\ \A i \in 1..Len(c) : Submitted(c[i].of, s)

LEMMA DelimitedParts == Delimited <=> \A s \in Sess : Orderly(stdin[s], chan[s], printed[s]) /\ Belong(stdin[s], chan[s], s)
BY DEF Delimited, Orderly, Belong

LEMMA BelongStays ==
    ASSUME StaySubmitted, NEW s, NEW q \in Seq(Req), NEW c \in Seq(Chunk), Belong(q, c, s)
    PROVE  Belong(q, c, s)'
<1>1. \A i \in 1..Len(q) : q[i] \in Req
  BY ElementOfSeq
<1>2. ASSUME NEW i \in 1..Len(c) PROVE c[i].of \in Req
  <2>1. c[i] \in Chunk
    BY ElementOfSeq
  <2> QED
    BY <2>1 DEF Chunk
<1>3. \A i \in 1..Len(q) : Submitted(q[i], s)'
  BY <1>1, SubmittedStays DEF Belong
<1>4. \A i \in 1..Len(c) : Submitted(c[i].of, s)'
  BY <1>2, SubmittedStays DEF Belong
<1> QED
  BY <1>3, <1>4 DEF Belong

\* A session's input and output after a step: in order, and of calls that have submitted.
LEMMA DelimitedAgain ==
    ASSUME NEW s \in Sess, NEW q \in Seq(Req), NEW c \in Seq(Chunk),
           stdin'[s] = q, chan'[s] = c, Orderly(q, c, printed'[s]), Belong(q, c, s)'
    PROVE  Orderly(stdin[s], chan[s], printed[s])' /\ Belong(stdin[s], chan[s], s)'
<1>2. Belong(stdin[s], chan[s], s)'
  BY DEF Belong
<1>3. Orderly(stdin[s], chan[s], printed[s])'
  BY DEF Orderly, Occur
<1> QED
  BY <1>2, <1>3

\* What a step may do to a session's input and output.
LEMMA OrderlySteps ==
    ASSUME NEW q \in Seq(Req), NEW c \in Seq(Chunk), NEW p \in BOOLEAN, Orderly(q, c, p)
    PROVE  /\ \A k \in Req : ~Occur(k, q) => Orderly(Append(q, k), <<>>, p)
           /\ c # <<>> => Orderly(q, Tail(c), p)
           /\ \A k \in Req : q # <<>> => Orderly(q, Append(c, OutOf(k)), TRUE)
           /\ q # <<>> => Orderly(Tail(q), Append(c, MarkOf(Head(q))), FALSE)
<1>1. ASSUME NEW k \in Req, ~Occur(k, q) PROVE Orderly(Append(q, k), <<>>, p)
  <2>a. /\ Append(q, k) \in Seq(Req) /\ Append(q, k) # <<>> /\ Len(Append(q, k)) = Len(q) + 1
        /\ Append(q, k)[Len(q) + 1] = k
        /\ \A i \in 1..Len(q) : Append(q, k)[i] = q[i]
    BY AppendProperties
  <2>1. PICK r \in Seq(Req) : r = Append(q, k) /\ r # <<>> /\ Len(r) = Len(q) + 1 /\ r[Len(q) + 1] = k
                              /\ \A i \in 1..Len(q) : r[i] = q[i]
    BY <2>a
  <2>2. \A i, j \in 1..Len(r) : r[i] = r[j] => i = j
    BY <2>1, <1>1 DEF Orderly, Occur
  <2> QED
    BY <2>1, <2>2 DEF Orderly
<1>2. ASSUME c # <<>> PROVE Orderly(q, Tail(c), p)
  <2>1. Tail(c) \in Seq(Chunk) /\ Len(Tail(c)) = Len(c) - 1 /\ \A i \in 1..Len(Tail(c)) : Tail(c)[i] = c[i + 1]
    BY <1>2, HeadTailProperties
  <2>2. \A i \in 1..Len(Tail(c)) : i + 1 \in 1..Len(c)
    BY <2>1
  <2> QED
    BY <2>1, <2>2 DEF Orderly
<1>3. ASSUME NEW k \in Req, q # <<>> PROVE Orderly(q, Append(c, OutOf(k)), TRUE)
  <2>1. OutOf(k) \in Chunk /\ OutOf(k).kind = "out"
    BY DEF OutOf, Chunk
  <2>a. /\ Append(c, OutOf(k)) \in Seq(Chunk) /\ Append(c, OutOf(k)) # <<>> /\ Len(Append(c, OutOf(k))) = Len(c) + 1
        /\ Append(c, OutOf(k))[Len(c) + 1] = OutOf(k)
        /\ \A i \in 1..Len(c) : Append(c, OutOf(k))[i] = c[i]
    BY <2>1, AppendProperties
  <2>2. PICK r \in Seq(Chunk) : r = Append(c, OutOf(k)) /\ Len(r) = Len(c) + 1 /\ r[Len(c) + 1] = OutOf(k)
                                /\ \A i \in 1..Len(c) : r[i] = c[i]
    BY <2>a
  <2>3. \A i \in 1..Len(r) : r[i].kind = "mark" => ~Occur(r[i].of, q)
    BY <2>1, <2>2 DEF Orderly
  <2> QED
    BY <2>2, <2>3, <1>3 DEF Orderly
<1>4. ASSUME q # <<>> PROVE Orderly(Tail(q), Append(c, MarkOf(Head(q))), FALSE)
  <2>1. /\ Head(q) \in Req /\ Head(q) = q[1] /\ Len(q) >= 1 /\ Len(Tail(q)) = Len(q) - 1
        /\ \A i \in 1..Len(Tail(q)) : Tail(q)[i] = q[i + 1] /\ i + 1 \in 1..Len(q)
    BY <1>4, HeadTailProperties, EmptySeq
  <2>2. MarkOf(Head(q)) \in Chunk /\ MarkOf(Head(q)).of = q[1]
    BY <2>1 DEF MarkOf, Chunk
  <2>a. /\ Append(c, MarkOf(Head(q))) \in Seq(Chunk) /\ Append(c, MarkOf(Head(q))) # <<>> /\ Len(Append(c, MarkOf(Head(q)))) = Len(c) + 1
        /\ Append(c, MarkOf(Head(q)))[Len(c) + 1] = MarkOf(Head(q))
        /\ \A i \in 1..Len(c) : Append(c, MarkOf(Head(q)))[i] = c[i]
    BY <2>2, AppendProperties
  <2>3. PICK r \in Seq(Chunk) : r = Append(c, MarkOf(Head(q))) /\ Len(r) = Len(c) + 1 /\ r[Len(c) + 1] = MarkOf(Head(q))
                                /\ \A i \in 1..Len(c) : r[i] = c[i]
    BY <2>a
  <2>4. \A k : Occur(k, Tail(q)) => Occur(k, q)
    BY <2>1 DEF Occur
  <2>5. ~Occur(q[1], Tail(q))
    BY <2>1 DEF Occur, Orderly
  <2>6. \A i \in 1..Len(r) : r[i].kind = "mark" => ~Occur(r[i].of, Tail(q))
    BY <2>2, <2>3, <2>4, <2>5 DEF Orderly
  <2>7. \A i, j \in 1..Len(Tail(q)) : Tail(q)[i] = Tail(q)[j] => i = j
    BY SMTT(30), <2>1 DEF Orderly
  <2> QED
    BY <2>3, <2>6, <2>7 DEF Orderly
<1> QED
  BY <1>1, <1>2, <1>3, <1>4
LEMMA BelongSteps ==
    ASSUME NEW q \in Seq(Req), NEW c \in Seq(Chunk), NEW s, Belong(q, c, s)
    PROVE  /\ c # <<>> => Belong(q, Tail(c), s)
           /\ q # <<>> => Belong(q, Append(c, OutOf(Head(q))), s) /\ Belong(Tail(q), Append(c, MarkOf(Head(q))), s)
<1>1. ASSUME c # <<>> PROVE Belong(q, Tail(c), s)
  <2>1. \A i \in 1..Len(Tail(c)) : Tail(c)[i] = c[i + 1] /\ i + 1 \in 1..Len(c)
    BY <1>1, HeadTailProperties
  <2> QED
    BY <2>1 DEF Belong
<1>2. ASSUME q # <<>> PROVE Belong(q, Append(c, OutOf(Head(q))), s) /\ Belong(Tail(q), Append(c, MarkOf(Head(q))), s)
  <2>1. /\ Head(q) \in Req /\ Head(q) = q[1] /\ 1 \in 1..Len(q)
        /\ \A i \in 1..Len(Tail(q)) : Tail(q)[i] = q[i + 1] /\ i + 1 \in 1..Len(q)
    BY <1>2, HeadTailProperties, EmptySeq
  <2>2. Submitted(Head(q), s)
    BY <2>1 DEF Belong
  <2>3. ASSUME NEW e \in Chunk, e.of = Head(q) PROVE \A i \in 1..Len(Append(c, e)) : Submitted(Append(c, e)[i].of, s)
    <3>1. /\ Len(Append(c, e)) = Len(c) + 1 /\ Append(c, e)[Len(c) + 1] = e
          /\ \A i \in 1..Len(c) : Append(c, e)[i] = c[i]
      BY AppendProperties
    <3>2. \A i \in 1..(Len(c) + 1) : i = Len(c) + 1 \/ i \in 1..Len(c)
      OBVIOUS
    <3> QED
      BY <3>1, <3>2, <2>2, <2>3 DEF Belong
  <2>4. OutOf(Head(q)) \in Chunk /\ OutOf(Head(q)).of = Head(q) /\ MarkOf(Head(q)) \in Chunk /\ MarkOf(Head(q)).of = Head(q)
    BY <2>1 DEF OutOf, MarkOf, Chunk
  <2>5. \A i \in 1..Len(Tail(q)) : Submitted(Tail(q)[i], s)
    BY <2>1 DEF Belong
  <2> QED
    BY <2>3, <2>4, <2>5 DEF Belong
<1> QED
  BY <1>1, <1>2

\* No command is in two sessions, none is done before it is over.
LEMMA DelimitedStep ==
    ASSUME SessInv, SessNext
    PROVE  Delimited'
<1>0. BashTypes /\ CallTypes /\ CallSteps /\ StaySubmitted
  BY CallsStay DEF SessInv, SessTypes
<1>a. ASSUME NEW s \in Sess
      PROVE  /\ stdin[s] \in Seq(Req) /\ chan[s] \in Seq(Chunk) /\ printed[s] \in BOOLEAN
             /\ Orderly(stdin[s], chan[s], printed[s]) /\ Belong(stdin[s], chan[s], s)
  BY <1>0, DelimitedParts DEF SessInv, BashTypes
<1>b. <<>> \in Seq(Chunk)
  OBVIOUS
<1> DEFINE Fine(s) == Orderly(stdin[s], chan[s], printed[s])' /\ Belong(stdin[s], chan[s], s)'
<1>c. ASSUME NEW s \in Sess, stdin'[s] = stdin[s], chan'[s] = chan[s], printed'[s] = printed[s] PROVE Fine(s)
  <2>1. Belong(stdin[s], chan[s], s) /\ Orderly(stdin[s], chan[s], printed[s]) /\ stdin[s] \in Seq(Req) /\ chan[s] \in Seq(Chunk)
    BY <1>a
  <2>2. PICK q \in Seq(Req), c \in Seq(Chunk) : q = stdin[s] /\ c = chan[s]
    BY <2>1
  <2>3. Belong(q, c, s)'
    BY <2>1, <2>2, <1>0, BelongStays
  <2> QED
    BY <2>1, <2>2, <2>3, <1>c, DelimitedAgain
<1>d. ASSUME \A s \in Sess : Fine(s) PROVE Delimited'
  BY <1>d DEF Delimited, Orderly, Belong
<1> HIDE DEF Fine
<1>1. ASSUME UNCHANGED <<stdin, chan, printed>> PROVE Delimited'
  BY <1>1, <1>c, <1>d
<1>2. ASSUME NEW k \in Req, Submit(k) PROVE Delimited'
  <2>1. at[k] \in Sess /\ pc[k] = "write"
    BY <1>2, <1>0 DEF Submit, CallSteps
  <2>2. PICK q \in Seq(Req) : q = stdin[at[k]]
    BY <2>1, <1>a
  <2>3. ~Occur(k, q)
    BY <2>1, <2>2, <1>a DEF Occur, Belong, Submitted
  <2>4. /\ stdin' = [stdin EXCEPT ![at[k]] = Append(q, k)] /\ chan' = [chan EXCEPT ![at[k]] = <<>>] /\ printed' = printed
        /\ pc' = [pc EXCEPT ![k] = "wait"] /\ at' = at
    BY <2>1, <2>2, <1>2, <1>0 DEF Submit, To, BashTypes
  <2>5. /\ Append(q, k) \in Seq(Req) /\ Len(Append(q, k)) = Len(q) + 1 /\ Append(q, k)[Len(q) + 1] = k
        /\ \A i \in 1..Len(q) : Append(q, k)[i] = q[i]
    BY AppendProperties
  <2>6. Orderly(Append(q, k), <<>>, printed[at[k]])
    BY <2>1, <2>2, <2>3, <1>a, OrderlySteps
  <2>7. Belong(Append(q, k), <<>>, at[k])'
    <3>1. Submitted(k, at[k])'
      BY <2>1, <2>4, <1>0 DEF Submitted, CallTypes
    <3>2. Belong(q, <<>>, at[k])
      BY <2>1, <2>2, <1>a DEF Belong
    <3>3. Belong(q, <<>>, at[k])'
      BY <3>2, <1>b, <1>0, BelongStays, <2>4
    <3>4. \A i \in 1..(Len(q) + 1) : i = Len(q) + 1 \/ i \in 1..Len(q)
      OBVIOUS
    <3> QED
      BY <3>1, <3>3, <3>4, <2>4, <2>5 DEF Belong
  <2>8. Fine(at[k])
    <3>1. stdin'[at[k]] = Append(q, k) /\ chan'[at[k]] = <<>> /\ printed'[at[k]] = printed[at[k]]
      BY <2>1, <2>4, <1>0 DEF BashTypes
    <3>2. Orderly(Append(q, k), <<>>, printed'[at[k]])
      BY <3>1, <2>6
    <3>3. Belong(Append(q, k), <<>>, at[k])'
      BY <2>7
    <3> QED
      BY <3>1, <3>2, <3>3, <2>1, <2>4, <2>5, <1>b, DelimitedAgain DEF Fine
  <2>9. ASSUME NEW s \in Sess, s # at[k] PROVE Fine(s)
    BY <2>4, <2>9, <1>0, <1>c DEF BashTypes
  <2> QED
    BY <2>8, <2>9, <1>d
<1>3. ASSUME NEW k \in Req, Collect(k) PROVE Delimited'
  <2>1. at[k] \in Sess /\ chan[at[k]] # <<>>
    BY <1>3, <1>0 DEF Collect, CallSteps
  <2>2. PICK t \in Sess : t = at[k]
    BY <2>1
  <2>3. chan' = [chan EXCEPT ![t] = Tail(chan[t])] /\ stdin' = stdin /\ printed' = printed
    BY <2>2, <1>3 DEF Collect
  <2>4. PICK q \in Seq(Req), c \in Seq(Chunk) : q = stdin[t] /\ c = Tail(chan[t])
    BY <2>1, <2>2, <1>a, HeadTailProperties
  <2>5. Orderly(q, c, printed[t]) /\ Belong(q, c, t)
    BY <2>1, <2>2, <2>4, <1>a, OrderlySteps, BelongSteps
  <2>6. Belong(q, c, t)'
    BY <2>5, <1>0, BelongStays
  <2>7. stdin'[t] = q /\ chan'[t] = c /\ printed'[t] = printed[t]
    BY <2>3, <2>4, <1>0 DEF BashTypes
  <2>8. Fine(t)
    BY <2>5, <2>6, <2>7, DelimitedAgain DEF Fine
  <2>9. ASSUME NEW s \in Sess, s # t PROVE Fine(s)
    BY <2>3, <2>9, <1>0, <1>c DEF BashTypes
  <2> QED
    BY <2>8, <2>9, <1>d
<1>4. ASSUME NEW t \in Sess, Prints(t) \/ Marks(t) PROVE Delimited'
  <2>1. PICK q \in Seq(Req), c0 \in Seq(Chunk) : q = stdin[t] /\ c0 = chan[t] /\ q # <<>>
    BY <1>4, <1>a DEF Prints, Marks
  <2>2. Orderly(q, c0, printed[t]) /\ Belong(q, c0, t) /\ printed[t] \in BOOLEAN
    BY <2>1, <1>a
  <2>3. Head(q) \in Req /\ Tail(q) \in Seq(Req) /\ OutOf(Head(q)) \in Chunk /\ MarkOf(Head(q)) \in Chunk
    BY <2>1, HeadTailProperties DEF OutOf, MarkOf, Chunk
  <2>4. ASSUME NEW e \in Chunk, Emit(t, e)
        PROVE  \E c \in Seq(Chunk) : /\ Orderly(q, c, printed[t]) /\ Belong(q, c, t)
                                     /\ chan'[t] = Append(c, e) /\ \A s \in Sess : s # t => chan'[s] = chan[s]
    <3>1. (c0 # <<>> /\ chan'[t] = Append(Tail(c0), e)) \/ chan'[t] = Append(c0, e)
      BY <2>4, <2>1, <1>0, EmitAppends
    <3>2. \A s \in Sess : s # t => chan'[s] = chan[s]
      BY <2>4, <1>0, EmitAppends
    <3>3. c0 # <<>> => Orderly(q, Tail(c0), printed[t]) /\ Belong(q, Tail(c0), t) /\ Tail(c0) \in Seq(Chunk)
      BY <2>2, OrderlySteps, BelongSteps, HeadTailProperties
    <3> QED
      BY <3>1, <3>2, <3>3, <2>2
  <2>5. ASSUME NEW q2 \in Seq(Req), NEW c2 \in Seq(Chunk), stdin'[t] = q2, chan'[t] = c2, Orderly(q2, c2, printed'[t]), Belong(q2, c2, t)
        PROVE  Fine(t)
    <3>1. Belong(q2, c2, t)'
      BY <2>5, <1>0, BelongStays
    <3> QED
      BY <3>1, <2>5, DelimitedAgain DEF Fine
  <2>6. CASE Prints(t)
    <3>1. Emit(t, OutOf(Head(q))) /\ printed' = [printed EXCEPT ![t] = TRUE] /\ stdin' = stdin
      BY <2>6, <2>1 DEF Prints, OutOf
    <3>2. PICK c \in Seq(Chunk) : /\ Orderly(q, c, printed[t]) /\ Belong(q, c, t) /\ chan'[t] = Append(c, OutOf(Head(q)))
                                  /\ \A s \in Sess : s # t => chan'[s] = chan[s]
      BY <3>1, <2>3, <2>4
    <3>3. Orderly(q, Append(c, OutOf(Head(q))), TRUE) /\ Belong(q, Append(c, OutOf(Head(q))), t)
      BY <3>2, <2>1, <2>2, <2>3, OrderlySteps, BelongSteps
    <3>4. Append(c, OutOf(Head(q))) \in Seq(Chunk)
      BY <2>3, AppendProperties
    <3>5. printed'[t] = TRUE /\ stdin'[t] = q
      BY <3>1, <2>1, <1>0 DEF BashTypes
    <3>6. Fine(t)
      BY <3>2, <3>3, <3>4, <3>5, <2>5
    <3>7. ASSUME NEW s \in Sess, s # t PROVE Fine(s)
      BY <3>1, <3>2, <3>7, <1>0, <1>c DEF BashTypes
    <3> QED
      BY <3>6, <3>7, <1>d
  <2>7. CASE Marks(t)
    <3>1. Emit(t, MarkOf(Head(q))) /\ printed' = [printed EXCEPT ![t] = FALSE] /\ stdin' = [stdin EXCEPT ![t] = Tail(q)]
      BY <2>7, <2>1 DEF Marks, MarkOf
    <3>2. PICK c \in Seq(Chunk) : /\ Orderly(q, c, printed[t]) /\ Belong(q, c, t) /\ chan'[t] = Append(c, MarkOf(Head(q)))
                                  /\ \A s \in Sess : s # t => chan'[s] = chan[s]
      BY <3>1, <2>3, <2>4
    <3>3. Orderly(Tail(q), Append(c, MarkOf(Head(q))), FALSE) /\ Belong(Tail(q), Append(c, MarkOf(Head(q))), t)
      BY <3>2, <2>1, <2>2, OrderlySteps, BelongSteps
    <3>4. Append(c, MarkOf(Head(q))) \in Seq(Chunk)
      BY <2>3, AppendProperties
    <3>5. printed'[t] = FALSE /\ stdin'[t] = Tail(q)
      BY <3>1, <1>0 DEF BashTypes
    <3>6. Fine(t)
      BY <3>2, <3>3, <3>4, <3>5, <2>3, <2>5
    <3>7. ASSUME NEW s \in Sess, s # t PROVE Fine(s)
      BY <3>1, <3>2, <3>7, <1>0, <1>c DEF BashTypes
    <3> QED
      BY <3>6, <3>7, <1>d
  <2> QED
    BY <1>4, <2>6, <2>7
<1>5. ASSUME NEW k \in Req, Arrive(k) \/ AcquireSem(k) \/ GetSession(k) \/ newSession(k) \/ InsertSession(k) \/ Lock(k)
      PROVE  UNCHANGED <<stdin, chan, printed>>
  BY <1>5 DEF Arrive, AcquireSem, GetSession, newSession, InsertSession, Lock, sessVars
<1>6. ASSUME NEW k \in Req, SubmitFails(k) \/ Deadline(k) \/ Terminated(k) \/ ReturnToken(k)
      PROVE  UNCHANGED <<stdin, chan, printed>>
  BY <1>6 DEF SubmitFails, Deadline, Terminated, ReturnToken, sessVars
<1>7. ASSUME NEW s \in Sess, Dies(s) \/ ReadLoopEnds(s) \/ CloseSession(s) PROVE UNCHANGED <<stdin, chan, printed>>
  BY <1>7 DEF Dies, ReadLoopEnds, CloseSession
<1>8. ASSUME CloseAllSessions \/ SweepStarts \/ SweepSession PROVE UNCHANGED <<stdin, chan, printed>>
  BY <1>8 DEF CloseAllSessions, SweepStarts, SweepSession, sessVars
<1> QED
  BY <1>1, <1>2, <1>3, <1>4, <1>5, <1>6, <1>7, <1>8 DEF SessNext, Step
\* The same of a session's input q, channel c and flag p.
ComesIn(k, q, c, p) ==
    \/ /\ \A j \in 1..Len(c) : c[j].of # k
       /\ Occur(k, q) /\ (p => q[1] # k)
    \/ \E i \in 1..Len(c) : c[i] = OutOf(k) /\ \A j \in 1..i : c[j] # MarkOf(k)

LEMMA ComesInSession ==
    ASSUME NEW k, NEW s
    PROVE  ComesIn(k, stdin[s], chan[s], printed[s]) <=> NotPrinted(k, s) \/ Pending(k, s)
BY DEF ComesIn, NotPrinted, Pending

LEMMA OutputSteps ==
    ASSUME NEW k \in Req, NEW q \in Seq(Req), NEW c \in Seq(Chunk), NEW p \in BOOLEAN, Orderly(q, c, p)
    PROVE  /\ ~Occur(k, q) => ComesIn(k, Append(q, k), <<>>, p)
           /\ c # <<>> /\ ComesIn(k, q, c, p) => Head(c) = OutOf(k) \/ ComesIn(k, q, Tail(c), p)
           /\ c # <<>> /\ ComesIn(k, q, c, p) => Head(c) # MarkOf(k)
           /\ q # <<>> /\ ~p /\ ComesIn(k, q, c, p) => ComesIn(k, q, Append(c, OutOf(Head(q))), TRUE)
           /\ q # <<>> /\ p /\ ComesIn(k, q, c, p) => ComesIn(k, Tail(q), Append(c, MarkOf(Head(q))), FALSE)
<1>1. ASSUME ~Occur(k, q) PROVE ComesIn(k, Append(q, k), <<>>, p)
  <2>1. /\ Append(q, k) \in Seq(Req) /\ Len(Append(q, k)) = Len(q) + 1 /\ Append(q, k)[Len(q) + 1] = k
        /\ \A i \in 1..Len(q) : Append(q, k)[i] = q[i]
    BY AppendProperties
  <2>2. Len(q) \in Nat
    BY LenProperties
  <2>3. Occur(k, Append(q, k))
    BY <2>1, <2>2 DEF Occur
  <2>4. ASSUME p PROVE Append(q, k)[1] # k
    <3>1. q # <<>>
      BY <2>4 DEF Orderly
    <3>2. 1 \in 1..Len(q)
      BY <3>1, EmptySeq, LenProperties
    <3> QED
      BY <2>1, <3>2, <1>1 DEF Occur
  <2>5. \A j \in 1..Len(<<>>) : <<>>[j].of # k
    OBVIOUS
  <2> QED
    BY <2>3, <2>4, <2>5 DEF ComesIn
<1>2. ASSUME c # <<>>, ComesIn(k, q, c, p)
      PROVE  (Head(c) = OutOf(k) \/ ComesIn(k, q, Tail(c), p)) /\ Head(c) # MarkOf(k)
  <2>1. /\ Head(c) = c[1] /\ Len(c) \in Nat \ {0} /\ Len(Tail(c)) = Len(c) - 1
        /\ \A i \in 1..Len(Tail(c)) : Tail(c)[i] = c[i + 1]
    BY <1>2, HeadTailProperties, EmptySeq, LenProperties
  <2>2. CASE (\A j \in 1..Len(c) : c[j].of # k) /\ Occur(k, q) /\ (p => q[1] # k)
    <3>1. \A j \in 1..Len(Tail(c)) : Tail(c)[j].of # k
      BY <2>1, <2>2
    <3>2. Head(c) # MarkOf(k)
      BY <2>1, <2>2 DEF MarkOf
    <3> QED
      BY <3>1, <3>2, <2>2 DEF ComesIn
  <2>3. CASE \E i \in 1..Len(c) : c[i] = OutOf(k) /\ \A j \in 1..i : c[j] # MarkOf(k)
    <3>1. PICK i \in 1..Len(c) : c[i] = OutOf(k) /\ \A j \in 1..i : c[j] # MarkOf(k)
      BY <2>3
    <3>2. Head(c) # MarkOf(k)
      BY <2>1, <3>1
    <3>3. CASE i # 1
      <4>1. i - 1 \in 1..Len(Tail(c)) /\ Tail(c)[i - 1] = OutOf(k)
        BY <2>1, <3>1, <3>3
      <4>2. ASSUME NEW j \in 1..(i - 1) PROVE Tail(c)[j] # MarkOf(k)
        BY <2>1, <3>1
      <4>3. ComesIn(k, q, Tail(c), p)
        BY <4>1, <4>2 DEF ComesIn
      <4> QED
        BY <4>3, <3>2
    <3> QED
      BY <2>1, <3>1, <3>2, <3>3
  <2> QED
    BY <1>2, <2>2, <2>3 DEF ComesIn
<1>3. ASSUME NEW e \in Chunk, \E i \in 1..Len(c) : c[i] = OutOf(k) /\ \A j \in 1..i : c[j] # MarkOf(k)
      PROVE  \E i \in 1..Len(Append(c, e)) : Append(c, e)[i] = OutOf(k) /\ \A j \in 1..i : Append(c, e)[j] # MarkOf(k)
  <2>1. Len(Append(c, e)) = Len(c) + 1 /\ \A i \in 1..Len(c) : Append(c, e)[i] = c[i]
    BY AppendProperties
  <2>2. PICK i \in 1..Len(c) : c[i] = OutOf(k) /\ \A j \in 1..i : c[j] # MarkOf(k)
    BY <1>3
  <2>3. i \in 1..Len(Append(c, e)) /\ \A j \in 1..i : j \in 1..Len(c)
    BY <2>1
  <2> QED
    BY <2>1, <2>2, <2>3
<1>4. ASSUME q # <<>>, ~p, ComesIn(k, q, c, p) PROVE ComesIn(k, q, Append(c, OutOf(Head(q))), TRUE)
  <2>1. Head(q) \in Req /\ Head(q) = q[1] /\ OutOf(Head(q)) \in Chunk /\ OutOf(Head(q)).of = Head(q)
    BY <1>4, HeadTailProperties DEF OutOf, Chunk
  <2>2. /\ Len(Append(c, OutOf(Head(q)))) = Len(c) + 1 /\ Append(c, OutOf(Head(q)))[Len(c) + 1] = OutOf(Head(q))
        /\ \A i \in 1..Len(c) : Append(c, OutOf(Head(q)))[i] = c[i]
    BY <2>1, AppendProperties
  <2>3. CASE (\A j \in 1..Len(c) : c[j].of # k) /\ Occur(k, q)
    <3>0. Len(c) \in Nat /\ \A i \in 1..(Len(c) + 1) : i = Len(c) + 1 \/ i \in 1..Len(c)
      BY LenProperties
    <3>1. CASE q[1] = k
      <4>1. OutOf(k) # MarkOf(k) /\ MarkOf(k).of = k
        BY DEF OutOf, MarkOf
      <4>2. \A j \in 1..(Len(c) + 1) : Append(c, OutOf(Head(q)))[j] # MarkOf(k)
        BY <4>1, <3>0, <3>1, <2>1, <2>2, <2>3
      <4>3. Len(c) + 1 \in 1..Len(Append(c, OutOf(Head(q))))
        BY <3>0, <2>2
      <4> QED
        BY <4>2, <4>3, <3>1, <2>1, <2>2 DEF ComesIn
    <3>2. CASE q[1] # k
      <4>1. \A j \in 1..(Len(c) + 1) : Append(c, OutOf(Head(q)))[j].of # k
        BY <3>0, <3>2, <2>1, <2>2, <2>3
      <4> QED
        BY <4>1, <3>2, <2>2, <2>3 DEF ComesIn
    <3> QED
      BY <3>1, <3>2
  <2>4. CASE \E i \in 1..Len(c) : c[i] = OutOf(k) /\ \A j \in 1..i : c[j] # MarkOf(k)
    BY <2>1, <2>4, <1>3 DEF ComesIn
  <2> QED
    BY <1>4, <2>3, <2>4 DEF ComesIn
<1>5. ASSUME q # <<>>, p, ComesIn(k, q, c, p) PROVE ComesIn(k, Tail(q), Append(c, MarkOf(Head(q))), FALSE)
  <2>1. /\ Head(q) \in Req /\ Head(q) = q[1] /\ MarkOf(Head(q)) \in Chunk /\ MarkOf(Head(q)).of = Head(q)
        /\ Len(q) \in Nat \ {0} /\ Len(Tail(q)) = Len(q) - 1 /\ \A i \in 1..Len(Tail(q)) : Tail(q)[i] = q[i + 1]
    BY <1>5, HeadTailProperties, EmptySeq, LenProperties DEF MarkOf, Chunk
  <2>2. /\ Len(Append(c, MarkOf(Head(q)))) = Len(c) + 1 /\ Append(c, MarkOf(Head(q)))[Len(c) + 1] = MarkOf(Head(q))
        /\ \A i \in 1..Len(c) : Append(c, MarkOf(Head(q)))[i] = c[i]
    BY <2>1, AppendProperties
  <2>3. CASE (\A j \in 1..Len(c) : c[j].of # k) /\ Occur(k, q) /\ q[1] # k
    <3>0. Len(c) \in Nat /\ \A i \in 1..(Len(c) + 1) : i = Len(c) + 1 \/ i \in 1..Len(c)
      BY LenProperties
    <3>1. \A j \in 1..(Len(c) + 1) : Append(c, MarkOf(Head(q)))[j].of # k
      BY <3>0, <2>1, <2>2, <2>3
    <3>2. PICK i \in 1..Len(q) : q[i] = k
      BY <2>3 DEF Occur
    <3>3. i - 1 \in 1..Len(Tail(q)) /\ Tail(q)[i - 1] = k
      BY <3>2, <2>1, <2>3
    <3>4. Occur(k, Tail(q))
      BY <3>3 DEF Occur
    <3> QED
      BY <3>1, <3>4, <2>2 DEF ComesIn
  <2>4. CASE \E i \in 1..Len(c) : c[i] = OutOf(k) /\ \A j \in 1..i : c[j] # MarkOf(k)
    BY <2>1, <2>4, <1>3 DEF ComesIn
  <2> QED
    BY <1>5, <2>3, <2>4 DEF ComesIn
<1> QED
  BY <1>1, <1>2, <1>4, <1>5
\* What the call under way can count on, whoever else moves.
Coming(k) == at[k] \in clipped \/ OutOf(k) \in got[k] \/ ComesIn(k, stdin[at[k]], chan[at[k]], printed[at[k]])

LEMMA ComingSame == OutputComes <=> \A k \in Req : pc[k] = "wait" => Coming(k)
BY ComesInSession DEF OutputComes, Coming

LEMMA OutputStep ==
    ASSUME SessInv, SessNext
    PROVE  OutputComes'
<1>0. /\ BashTypes /\ CallTypes /\ CallSteps /\ None \notin Req
      /\ \A k \in Req : pc[k] = "wait" => Coming(k)
  BY ComingSame, SessConstants DEF SessInv, SessTypes
<1>1. ASSUME NEW s \in Sess
      PROVE  /\ stdin[s] \in Seq(Req) /\ chan[s] \in Seq(Chunk) /\ printed[s] \in BOOLEAN
             /\ Orderly(stdin[s], chan[s], printed[s]) /\ Belong(stdin[s], chan[s], s)
  BY <1>0, DelimitedParts DEF SessInv, BashTypes
<1>2. ASSUME \A k \in Req : pc'[k] = "wait" => Coming(k)' PROVE OutputComes'
  BY <1>2, ComesInSession DEF OutputComes, Coming, NotPrinted, Pending, ComesIn, Occur
<1> SUFFICES ASSUME NEW k \in Req, pc'[k] = "wait" PROVE Coming(k)'
  BY <1>2
<1>3. pc[k] = "wait" => at[k] \in Sess /\ smu[at[k]] = k /\ Coming(k)
  BY <1>0 DEF CallSteps
<1>a. ASSUME pc[k] = "wait", at'[k] = at[k], stdin'[at[k]] = stdin[at[k]], chan'[at[k]] = chan[at[k]],
             printed'[at[k]] = printed[at[k]], clipped \subseteq clipped', got'[k] = got[k]
      PROVE  Coming(k)'
  BY <1>a, <1>3 DEF Coming
<1>4. ASSUME Submit(k) PROVE Coming(k)'
  <2>1. at[k] \in Sess /\ pc[k] = "write"
    BY <1>4, <1>0 DEF Submit, CallSteps
  <2>2. PICK q \in Seq(Req), c \in Seq(Chunk), p \in BOOLEAN : q = stdin[at[k]] /\ c = chan[at[k]] /\ p = printed[at[k]]
    BY <2>1, <1>1
  <2>3. ~Occur(k, q) /\ Orderly(q, c, p)
    BY <2>1, <2>2, <1>1 DEF Occur, Belong, Submitted
  <2>4. ComesIn(k, Append(q, k), <<>>, p)
    BY <2>2, <2>3, OutputSteps
  <2>5. at' = at /\ stdin'[at[k]] = Append(q, k) /\ chan'[at[k]] = <<>> /\ printed'[at[k]] = p
    BY <2>1, <2>2, <1>4, <1>0 DEF Submit, BashTypes
  <2> QED
    BY <2>4, <2>5 DEF Coming
<1>5. ASSUME NEW h \in Req, h # k, Submit(h) PROVE Coming(k)'
  <2>1. pc[k] = "wait" /\ at[h] # at[k]
    BY <1>5, <1>0, <1>3 DEF Submit, To, CallSteps, CallTypes
  <2>2. at' = at /\ stdin'[at[k]] = stdin[at[k]] /\ chan'[at[k]] = chan[at[k]] /\ printed' = printed /\ clipped' = clipped /\ got' = got
    BY <2>1, <1>5, <1>3, <1>0 DEF Submit, BashTypes
  <2> QED
    BY <2>1, <2>2, <1>a
<1>6. ASSUME Collect(k) PROVE Coming(k)'
  <2>1. pc[k] = "wait" /\ at[k] \in Sess /\ chan[at[k]] # <<>>
    BY <1>6, <1>3 DEF Collect
  <2>2. PICK q \in Seq(Req), c \in Seq(Chunk), p \in BOOLEAN : q = stdin[at[k]] /\ c = chan[at[k]] /\ p = printed[at[k]]
    BY <2>1, <1>1
  <2>3. Orderly(q, c, p) /\ c # <<>>
    BY <2>1, <2>2, <1>1
  <2>4. pc' = pc \/ pc' = [pc EXCEPT ![k] = "ret"]
    BY <1>6 DEF Collect, Finish, To
  <2>5. ~OwnMarker(k, Head(c)) /\ got' = [got EXCEPT ![k] = @ \cup {Head(c)}]
    <3>1. ~OwnMarker(k, Head(c))
      <4>1. SUFFICES ASSUME OwnMarker(k, Head(c)) PROVE FALSE
        OBVIOUS
      <4>2. \E v \in {"completed", "terminated"} : Finish(k, v)
        BY <4>1, <1>6, <2>2 DEF Collect
      <4>3. pc' = [pc EXCEPT ![k] = "ret"]
        BY <4>2 DEF Finish, To
      <4> QED
        BY <4>3, <1>0 DEF CallTypes
    <3> QED
      BY <3>1, <1>6, <2>2 DEF Collect
  <2>6. /\ at' = at /\ stdin' = stdin /\ printed' = printed /\ clipped' = clipped
        /\ chan'[at[k]] = Tail(c) /\ got'[k] = got[k] \cup {Head(c)}
    BY <2>1, <2>2, <2>5, <1>6, <1>0 DEF Collect, BashTypes, CallTypes
  <2>7. ComesIn(k, q, c, p) => Head(c) = OutOf(k) \/ ComesIn(k, q, Tail(c), p)
    BY <2>3, OutputSteps
  <2>8. at[k] \in clipped \/ OutOf(k) \in got[k] \/ ComesIn(k, q, c, p)
    BY <2>1, <2>2, <1>3 DEF Coming
  <2>9. at'[k] \in clipped' \/ OutOf(k) \in got'[k] \/ ComesIn(k, stdin'[at'[k]], chan'[at'[k]], printed'[at'[k]])
    BY <2>2, <2>6, <2>7, <2>8
  <2> QED
    BY <2>9 DEF Coming, ComesIn, Occur
<1>7. ASSUME NEW h \in Req, h # k, Collect(h) PROVE Coming(k)'
  <2>1. pc[k] = "wait" /\ at[h] # at[k] /\ got'[k] = got[k]
    <3>1. pc'[k] = pc[k] /\ got'[k] = got[k]
      BY <1>7, <1>0 DEF Collect, Finish, To, CallTypes
    <3>2. smu[at[h]] = h
      BY <1>7, <1>0 DEF Collect, CallSteps
    <3> QED
      BY <3>1, <3>2, <1>7, <1>3
  <2>2. at' = at /\ stdin' = stdin /\ chan'[at[k]] = chan[at[k]] /\ printed' = printed /\ clipped' = clipped
    BY <2>1, <1>7, <1>3, <1>0 DEF Collect, BashTypes
  <2> QED
    BY <2>1, <2>2, <1>a
<1>8. ASSUME NEW t \in Sess, Prints(t) \/ Marks(t) PROVE Coming(k)'
  <2>0. pc[k] = "wait" /\ at' = at /\ got' = got /\ at[k] \in Sess
    BY <1>8, <1>3 DEF Prints, Marks, callVars
  <2>1. PICK q \in Seq(Req), c \in Seq(Chunk), p \in BOOLEAN : q = stdin[t] /\ c = chan[t] /\ p = printed[t] /\ q # <<>>
    BY <1>8, <1>1 DEF Prints, Marks
  <2>2. Head(q) \in Req /\ OutOf(Head(q)) \in Chunk /\ MarkOf(Head(q)) \in Chunk /\ Orderly(q, c, p)
    BY <2>1, <1>1, HeadTailProperties DEF OutOf, MarkOf, Chunk
  <2>3. ASSUME NEW e \in Chunk, Emit(t, e)
        PROVE  /\ clipped \subseteq clipped' /\ \A s \in Sess : s # t => chan'[s] = chan[s]
               /\ t \in clipped' \/ chan'[t] = Append(c, e)
    BY <2>1, <2>3, <1>0, EmitAppends
  <2>4. CASE Prints(t)
    <3>1. Emit(t, OutOf(Head(q))) /\ ~p /\ printed' = [printed EXCEPT ![t] = TRUE] /\ stdin' = stdin
      BY <2>4, <2>1 DEF Prints, OutOf
    <3>2. /\ clipped \subseteq clipped' /\ \A s \in Sess : s # t => chan'[s] = chan[s]
          /\ t \in clipped' \/ chan'[t] = Append(c, OutOf(Head(q)))
      BY <3>1, <2>2, <2>3
    <3>3. CASE at[k] # t
      BY <3>1, <3>2, <3>3, <2>0, <1>a, <1>0 DEF BashTypes
    <3>4. CASE at[k] = t
      <4>1. at[k] \in clipped \/ OutOf(k) \in got[k] \/ ComesIn(k, q, c, p)
        BY <3>4, <2>0, <2>1, <1>3 DEF Coming
      <4>2. ComesIn(k, q, c, p) => ComesIn(k, q, Append(c, OutOf(Head(q))), TRUE)
        BY <3>1, <2>1, <2>2, OutputSteps
      <4>3. printed'[t] = TRUE /\ stdin'[t] = q
        BY <3>1, <2>1, <1>0 DEF BashTypes
      <4>4. at'[k] \in clipped' \/ OutOf(k) \in got'[k] \/ ComesIn(k, stdin'[at'[k]], chan'[at'[k]], printed'[at'[k]])
        BY <4>1, <4>2, <4>3, <3>2, <3>4, <2>0
      <4> QED
        BY <4>4 DEF Coming, ComesIn, Occur
    <3> QED
      BY <3>3, <3>4
  <2>5. CASE Marks(t)
    <3>1. Emit(t, MarkOf(Head(q))) /\ p /\ printed' = [printed EXCEPT ![t] = FALSE] /\ stdin' = [stdin EXCEPT ![t] = Tail(q)]
      BY <2>5, <2>1 DEF Marks, MarkOf
    <3>2. /\ clipped \subseteq clipped' /\ \A s \in Sess : s # t => chan'[s] = chan[s]
          /\ t \in clipped' \/ chan'[t] = Append(c, MarkOf(Head(q)))
      BY <3>1, <2>2, <2>3
    <3>3. CASE at[k] # t
      BY <3>1, <3>2, <3>3, <2>0, <1>a, <1>0 DEF BashTypes
    <3>4. CASE at[k] = t
      <4>1. at[k] \in clipped \/ OutOf(k) \in got[k] \/ ComesIn(k, q, c, p)
        BY <3>4, <2>0, <2>1, <1>3 DEF Coming
      <4>2. ComesIn(k, q, c, p) => ComesIn(k, Tail(q), Append(c, MarkOf(Head(q))), FALSE)
        BY <3>1, <2>1, <2>2, OutputSteps
      <4>3. printed'[t] = FALSE /\ stdin'[t] = Tail(q)
        BY <3>1, <2>1, <1>0 DEF BashTypes
      <4>4. at'[k] \in clipped' \/ OutOf(k) \in got'[k] \/ ComesIn(k, stdin'[at'[k]], chan'[at'[k]], printed'[at'[k]])
        BY <4>1, <4>2, <4>3, <3>2, <3>4, <2>0
      <4> QED
        BY <4>4 DEF Coming, ComesIn, Occur
    <3> QED
      BY <3>3, <3>4
  <2> QED
    BY <1>8, <2>4, <2>5
<1>b. ASSUME UNCHANGED <<stdin, chan, printed, clipped>>, pc[k] = "wait", at'[k] = at[k], got'[k] = got[k] PROVE Coming(k)'
  BY <1>a, <1>b
<1>9. ASSUME NEW h \in Req, Arrive(h) \/ AcquireSem(h) \/ GetSession(h) \/ newSession(h) \/ InsertSession(h) \/ Lock(h)
      PROVE  Coming(k)'
  <2>1. UNCHANGED <<stdin, chan, printed, clipped>> /\ got' = got
    BY <1>9 DEF Arrive, AcquireSem, GetSession, newSession, InsertSession, Lock, sessVars
  <2>2. pc[k] = "wait" /\ h # k /\ at'[k] = at[k]
    BY <1>9, <1>0 DEF Arrive, AcquireSem, GetSession, newSession, InsertSession, Lock, To, CallTypes
  <2> QED
    BY <2>1, <2>2, <1>b
<1>10. ASSUME NEW h \in Req, SubmitFails(h) \/ Deadline(h) \/ Terminated(h) \/ ReturnToken(h) PROVE Coming(k)'
  <2>1. UNCHANGED <<stdin, chan, printed, clipped>>
    BY <1>10 DEF SubmitFails, Deadline, Terminated, ReturnToken, sessVars
  <2>2. pc[k] = "wait" /\ h # k /\ at'[k] = at[k] /\ got'[k] = got[k]
    BY <1>10, <1>0 DEF SubmitFails, Deadline, Terminated, ReturnToken, Finish, To, CallTypes
  <2> QED
    BY <2>1, <2>2, <1>b
<1>11. ASSUME NEW s \in Sess, Dies(s) \/ ReadLoopEnds(s) \/ CloseSession(s) PROVE Coming(k)'
  BY <1>11, <1>b DEF Dies, ReadLoopEnds, CloseSession, callVars
<1>12. ASSUME CloseAllSessions \/ SweepStarts \/ SweepSession PROVE Coming(k)'
  BY <1>12, <1>b DEF CloseAllSessions, SweepStarts, SweepSession, sessVars, callVars
<1> QED
  BY <1>4, <1>5, <1>6, <1>7, <1>8, <1>9, <1>10, <1>11, <1>12 DEF SessNext, Step
\* What a completed call reports, at one call.
OwnResult(k) ==
    verdict[k] = "completed" => ~Occur(k, stdin[at[k]]) /\ (OutOf(k) \in got[k] \/ at[k] \in clipped)

LEMMA OwnResults == ResultIsOwn <=> \A k \in Req : OwnResult(k)
BY DEF ResultIsOwn, CompletedIsOwn, OutputIsWhole, OwnResult, Occur, OutOf

\* A marker that comes out is behind its command's output, and its command has left.
LEMMA ResultStep ==
    ASSUME SessInv, SessNext
    PROVE  ResultIsOwn'
<1>0. /\ BashTypes /\ CallTypes /\ CallSteps
      /\ \A k \in Req : pc[k] = "wait" => Coming(k)
      /\ \A k \in Req : OwnResult(k)
  BY ComingSame, OwnResults DEF SessInv, SessTypes
<1>1. ASSUME NEW s \in Sess
      PROVE  /\ stdin[s] \in Seq(Req) /\ chan[s] \in Seq(Chunk) /\ printed[s] \in BOOLEAN
             /\ Orderly(stdin[s], chan[s], printed[s])
  BY <1>0, DelimitedParts DEF SessInv, BashTypes
<1>2. ASSUME \A k \in Req : OwnResult(k)' PROVE ResultIsOwn'
  BY <1>2 DEF ResultIsOwn, CompletedIsOwn, OutputIsWhole, OwnResult, Occur, OutOf
<1> SUFFICES ASSUME NEW k \in Req, verdict'[k] = "completed" PROVE OwnResult(k)'
  BY <1>2 DEF OwnResult
<1>3. verdict[k] = "completed" => pc[k] = "ret" /\ at[k] \in Sess
  BY <1>0 DEF CallSteps
<1>a. ASSUME verdict[k] = "completed", at'[k] = at[k], got'[k] = got[k], clipped \subseteq clipped',
             Occur(k, stdin'[at[k]]) => Occur(k, stdin[at[k]])
      PROVE  OwnResult(k)'
  BY <1>a, <1>0 DEF OwnResult, Occur
<1>4. ASSUME Collect(k) PROVE OwnResult(k)'
  <2>0. pc[k] = "wait" /\ at[k] \in Sess /\ chan[at[k]] # <<>>
    BY <1>4, <1>0 DEF Collect, CallSteps
  <2>1. PICK q \in Seq(Req), c \in Seq(Chunk), p \in BOOLEAN : q = stdin[at[k]] /\ c = chan[at[k]] /\ p = printed[at[k]]
    BY <2>0, <1>1
  <2>2. OwnMarker(k, Head(c)) /\ got' = got
    <3>1. verdict[k] # "completed"
      BY <2>0, <1>3
    <3>2. verdict' # verdict
      BY <3>1
    <3> QED
      BY <3>2, <1>4, <2>1 DEF Collect
  <2>3. c # <<>> /\ Orderly(q, c, p)
    BY <2>0, <2>1, <1>1
  <2>4. Head(c) = c[1] /\ 1 \in 1..Len(c) /\ c[1] \in Chunk
    BY <2>3, HeadTailProperties, EmptySeq, LenProperties, ElementOfSeq
  <2>5. Head(c) = MarkOf(k)
    BY <2>2, <2>4 DEF OwnMarker, MarkOf, Chunk
  <2>6. ~Occur(k, q)
    BY <2>3, <2>4, <2>5 DEF Orderly, MarkOf
  <2>7. OutOf(k) \in got[k] \/ at[k] \in clipped
    <3>1. ~ComesIn(k, q, c, p)
      BY <2>3, <2>5, OutputSteps
    <3> QED
      BY <3>1, <2>0, <2>1, <1>0 DEF Coming
  <2>8. at' = at /\ stdin' = stdin /\ clipped' = clipped
    BY <1>4 DEF Collect
  <2> QED
    BY <2>1, <2>2, <2>6, <2>7, <2>8 DEF OwnResult, Occur
<1>5. ASSUME NEW h \in Req, h # k, Collect(h) PROVE OwnResult(k)'
  <2>1. verdict'[k] = verdict[k] /\ got'[k] = got[k] /\ at' = at /\ stdin' = stdin /\ clipped' = clipped
    BY <1>5, <1>0 DEF Collect, Finish, CallTypes
  <2> QED
    BY <2>1, <1>a
<1>6. ASSUME NEW h \in Req, Submit(h) PROVE OwnResult(k)'
  <2>1. verdict' = verdict /\ got' = got /\ at' = at /\ clipped' = clipped
    BY <1>6 DEF Submit
  <2>2. h # k /\ at[h] \in Sess /\ at[k] \in Sess
    BY <2>1, <1>3, <1>6, <1>0 DEF Submit, CallSteps
  <2>3. PICK q \in Seq(Req) : q = stdin[at[h]]
    BY <2>2, <1>1
  <2>4. stdin' = [stdin EXCEPT ![at[h]] = Append(q, h)]
    BY <2>3, <1>6 DEF Submit
  <2>5. Occur(k, Append(q, h)) => Occur(k, q)
    <3>1. /\ Len(Append(q, h)) = Len(q) + 1 /\ Append(q, h)[Len(q) + 1] = h /\ Len(q) \in Nat
          /\ \A i \in 1..Len(q) : Append(q, h)[i] = q[i]
      BY AppendProperties, LenProperties
    <3>2. \A i \in 1..(Len(q) + 1) : i = Len(q) + 1 \/ i \in 1..Len(q)
      BY <3>1
    <3> QED
      BY <3>1, <3>2, <2>2 DEF Occur
  <2>6. Occur(k, stdin'[at[k]]) => Occur(k, stdin[at[k]])
    <3>1. CASE at[h] = at[k]
      BY <3>1, <2>2, <2>3, <2>4, <2>5, <1>0 DEF BashTypes
    <3>2. CASE at[h] # at[k]
      BY <3>2, <2>2, <2>4, <1>0 DEF BashTypes
    <3> QED
      BY <3>1, <3>2
  <2> QED
    BY <2>1, <2>6, <1>a
<1>7. ASSUME NEW t \in Sess, Prints(t) \/ Marks(t) PROVE OwnResult(k)'
  <2>1. verdict' = verdict /\ got' = got /\ at' = at
    BY <1>7 DEF Prints, Marks, callVars
  <2>2. PICK q \in Seq(Req) : q = stdin[t] /\ q # <<>>
    BY <1>7, <1>1 DEF Prints, Marks
  <2>3. Head(q) \in Req /\ Tail(q) \in Seq(Req) /\ Len(Tail(q)) = Len(q) - 1 /\ \A i \in 1..Len(Tail(q)) : Tail(q)[i] = q[i + 1]
    BY <2>2, HeadTailProperties
  <2>4. clipped \subseteq clipped'
    <3>1. \E e \in Chunk : Emit(t, e)
      BY <1>7, <2>2, <2>3 DEF Prints, Marks, Chunk
    <3> QED
      BY <3>1, <1>0, EmitAppends
  <2>5. Occur(k, Tail(q)) => Occur(k, q)
    <3>1. ASSUME NEW i \in 1..Len(Tail(q)) PROVE i + 1 \in 1..Len(q) /\ Tail(q)[i] = q[i + 1]
      BY <2>3, LenProperties
    <3> QED
      BY <3>1 DEF Occur
  <2>6. stdin' = stdin \/ stdin' = [stdin EXCEPT ![t] = Tail(q)]
    BY <1>7, <2>2 DEF Prints, Marks
  <2>7. Occur(k, stdin'[at[k]]) => Occur(k, stdin[at[k]])
    BY <2>1, <2>2, <2>5, <2>6, <1>3, <1>0 DEF BashTypes
  <2> QED
    BY <2>1, <2>4, <2>7, <1>a
<1>b. ASSUME UNCHANGED <<stdin, clipped>>, verdict[k] = "completed", at'[k] = at[k], got'[k] = got[k] PROVE OwnResult(k)'
  BY <1>a, <1>b
<1>8. ASSUME NEW h \in Req, Arrive(h) \/ AcquireSem(h) \/ GetSession(h) \/ newSession(h) \/ InsertSession(h) \/ Lock(h)
      PROVE  OwnResult(k)'
  <2>1. UNCHANGED <<stdin, clipped>> /\ got' = got
    BY <1>8 DEF Arrive, AcquireSem, GetSession, newSession, InsertSession, Lock, sessVars
  <2>2. verdict[k] = "completed" /\ at'[k] = at[k]
    BY <1>8, <1>3, <1>0 DEF Arrive, AcquireSem, GetSession, newSession, InsertSession, Lock, To, CallTypes
  <2> QED
    BY <2>1, <2>2, <1>b
<1>9. ASSUME NEW h \in Req, SubmitFails(h) \/ Deadline(h) \/ Terminated(h) \/ ReturnToken(h) PROVE OwnResult(k)'
  <2>1. UNCHANGED <<stdin, clipped>>
    BY <1>9 DEF SubmitFails, Deadline, Terminated, ReturnToken, sessVars
  <2>2. verdict[k] = "completed" /\ at'[k] = at[k] /\ got'[k] = got[k]
    BY <1>9, <1>3, <1>0 DEF SubmitFails, Deadline, Terminated, ReturnToken, Finish, To, CallTypes
  <2> QED
    BY <2>1, <2>2, <1>b
<1>10. ASSUME NEW s \in Sess, Dies(s) \/ ReadLoopEnds(s) \/ CloseSession(s) PROVE OwnResult(k)'
  BY <1>10, <1>b DEF Dies, ReadLoopEnds, CloseSession, callVars
<1>11. ASSUME CloseAllSessions \/ SweepStarts \/ SweepSession PROVE OwnResult(k)'
  BY <1>11, <1>b DEF CloseAllSessions, SweepStarts, SweepSession, sessVars, callVars
<1> QED
  BY <1>4, <1>5, <1>6, <1>7, <1>8, <1>9, <1>10, <1>11 DEF SessNext, Step

LEMMA SessStep == SessInv /\ [SessNext]_shellVars => SessInv'
<1>1. ASSUME SessInv, SessNext PROVE SessInv'
  BY <1>1, SessSlotStep, SessTypesStep, SessCallStep, DelimitedStep, OutputStep, ResultStep DEF SessInv
<1>2. ASSUME SessInv, UNCHANGED shellVars PROVE SessInv'
  <2>0. UNCHANGED <<sessions, width, tokens, mmu, sweeps, sbash, fd, ended, stdin, printed, chan, clipped, smu, closeq, pc, at, got, verdict>>
    BY <1>2 DEF shellVars, mapVars, sessVars, callVars
  <2>1. SessTypes' /\ SweepHasSession' /\ CallSteps' /\ SessionReachable'
    BY <2>0, <1>2 DEF SessInv, SessTypes, MapTypes, BashTypes, CallTypes, CallSteps, SweepHasSession, SessionReachable
  <2>2. Counted(tokens, SessHolders)'
    BY <2>0, <1>2 DEF SessInv, SessHolders
  <2>3. Delimited' /\ OutputComes' /\ ResultIsOwn'
    BY <2>0, <1>2 DEF SessInv, Delimited, Submitted, Occur, OutputComes, NotPrinted, Pending, ResultIsOwn,
                      CompletedIsOwn, OutputIsWhole
  <2> QED
    BY <2>1, <2>2, <2>3 DEF SessInv
<1> QED
  BY <1>1, <1>2

LEMMA SessRight == SessInv => SessionsRight
BY DEF SessInv, CallSteps, SessionsRight, SessionsKept, NoCloseMidCommand
-----------------------------------------------------------------------------
(* Executions on a kernel.                                                 *)

ExecTypes ==
    /\ epc \in [Exec -> {"new", "subscribe", "send", "stream", "unsub", "close", "over", "aborted"}]
    /\ idle \in [Exec -> BOOLEAN] /\ answered \in [Exec -> BOOLEAN]
    /\ shut \in [Exec -> BOOLEAN] /\ lost \in [Exec -> BOOLEAN]
    /\ owed \in [Exec -> 0..MaxOut] /\ prints \in 0..MaxOut
    /\ reader \in [Exec -> {"none", "recv", "left", "has", "over"}]
    /\ subs \in SUBSET Exec /\ toClose \in SUBSET Exec
    /\ ch \in [Exec -> Seq(Kind)] /\ \A e \in Exec : Len(ch[e]) <= BufCap
    /\ hand \in [of : Exec, kind : Kind, sub : BOOLEAN] \cup {NoMsg}
    /\ up \in BOOLEAN /\ socks \in BOOLEAN /\ replied \in BOOLEAN
    /\ sweep \in {"no", "run", "over"} /\ panic \in {"none", "runtime"}
    /\ work \in Seq(Exec) /\ shellq \in Seq(Exec) /\ iopub \in Seq([of : Exec, kind : Kind])

IdleOf(e) == [of |-> e, kind |-> "idle"]

\* Nothing of e is on the wire, in the loop's hands, or in the kernel's queue.
NoWire(e) == \A i \in 1..Len(iopub) : iopub[i].of # e
NoHand(e) == hand = NoMsg \/ hand.of # e
NoWork(e) == ~Occur(e, work)

\* Cells are queued once each.
WorkInOrder ==
    /\ \A i, j \in 1..Len(work) : work[i] = work[j] => i = j
    /\ replied => work # <<>>

\* Before its request is sent, an execution has nothing anywhere.
Unsent(e) ==
    epc[e] \in {"new", "subscribe", "send"} =>
        /\ NoWork(e) /\ NoWire(e) /\ NoHand(e) /\ ch[e] = <<>>
        /\ owed[e] = 0 /\ ~idle[e] /\ ~answered[e]

\* The status idle is the last that comes of a cell, wherever it is.
IdleIsLast(e) ==
    /\ \A i, j \in 1..Len(iopub) : i < j /\ iopub[i] = IdleOf(e) => iopub[j].of # e
    /\ Occur(IdleOf(e), iopub) => NoWork(e)
    /\ hand # NoMsg /\ hand.of = e /\ hand.kind = "idle" => NoWire(e) /\ NoWork(e)
    /\ Occur("idle", ch[e]) \/ (idle[e] /\ ~shut[e]) => NoWire(e) /\ NoHand(e) /\ NoWork(e)
    /\ \A i \in 1..Len(ch[e]) : ch[e][i] = "idle" => i = Len(ch[e])
    /\ idle[e] /\ ~shut[e] => ch[e] = <<>>

\* How often m is in q.
Places(q, m) == {i \in 1..Len(q) : q[i] = m}
Times(q, m) == Cardinality(Places(q, m))
InHand(e) == IF hand # NoMsg /\ hand.of = e /\ hand.kind = "out" THEN 1 ELSE 0

\* What is under way of a cell's output.
UnderWay(e) == Times(iopub, OutOf(e)) + InHand(e) + Times(ch[e], "out")

\* A cell owes no more than it has printed, and a stream has no more coming than it owes.
Owes(e) ==
    /\ ~NoWork(e) => owed[e] <= IF work[1] = e THEN prints ELSE 0
    /\ epc[e] = "stream" => UnderWay(e) <= owed[e]

\* The status idle has reached the execution's subscription.
SeesIdle(e) ==
    \/ Occur("idle", ch[e]) \/ idle[e]
    \/ hand # NoMsg /\ hand.of = e /\ hand.kind = "idle" /\ hand.sub

\* Unless its subscription has lost something or was closed under it, a stream owes
\* exactly what is on its way, and once the status idle has come, what is in its channel.
Exact(e) ==
    epc[e] = "stream" /\ ~lost[e] /\ ~shut[e] =>
        /\ SeesIdle(e) => owed[e] = Times(ch[e], "out")
        /\ ~SeesIdle(e) /\ e \in subs /\ socks => owed[e] = UnderWay(e)

\* A message whose subscription was not found has none.
LookedUp == hand # NoMsg /\ ~hand.sub => hand.of \notin subs

ExecInv ==
    /\ ExecTypes /\ WorkInOrder /\ LookedUp /\ OutputWhole
    /\ \A e \in Exec : Unsent(e) /\ IdleIsLast(e) /\ Owes(e) /\ Exact(e)
-----------------------------------------------------------------------------
(* How often something is in a sequence.                                   *)

LEMMA TimesInNat ==
    ASSUME NEW S, NEW q \in Seq(S), NEW m
    PROVE  IsFiniteSet(Places(q, m)) /\ Times(q, m) \in Nat
<1>1. Len(q) \in Nat
  BY LenProperties
<1>2. IsFiniteSet(1..Len(q))
  BY <1>1, FS_Interval
<1>3. Places(q, m) \in SUBSET (1..Len(q))
  BY DEF Places
<1> QED
  BY <1>2, <1>3, FS_Subset, FS_CardinalityType DEF Times

LEMMA TimesNone ==
    ASSUME NEW q, NEW m, \A i \in 1..Len(q) : q[i] # m
    PROVE  Times(q, m) = 0
<1>1. Places(q, m) = {}
  BY DEF Places
<1> QED
  BY <1>1, FS_EmptySet DEF Times

LEMMA TimesSome ==
    ASSUME NEW S, NEW q \in Seq(S), NEW m, NEW i \in 1..Len(q), q[i] = m
    PROVE  Times(q, m) >= 1
<1>1. i \in Places(q, m) /\ IsFiniteSet(Places(q, m)) /\ Times(q, m) \in Nat
  BY TimesInNat DEF Places
<1>2. Times(q, m) # 0
  BY <1>1, FS_EmptySet DEF Times
<1> QED
  BY <1>1, <1>2

LEMMA TimesAppend ==
    ASSUME NEW S, NEW q \in Seq(S), NEW x \in S, NEW m
    PROVE  Times(Append(q, x), m) = Times(q, m) + (IF x = m THEN 1 ELSE 0)
<1>1. /\ Len(Append(q, x)) = Len(q) + 1 /\ Append(q, x)[Len(q) + 1] = x /\ Len(q) \in Nat
      /\ \A i \in 1..Len(q) : Append(q, x)[i] = q[i]
  BY AppendProperties, LenProperties
<1>2. \A i : i \in 1..(Len(q) + 1) <=> i \in 1..Len(q) \/ i = Len(q) + 1
  BY <1>1
<1>3. IsFiniteSet(Places(q, m)) /\ Len(q) + 1 \notin Places(q, m) /\ Times(q, m) \in Nat
  BY <1>1, TimesInNat DEF Places
<1>4. CASE x = m
  <2>1. Places(Append(q, x), m) = Places(q, m) \cup {Len(q) + 1}
    BY <1>1, <1>2, <1>4 DEF Places
  <2> QED
    BY <2>1, <1>3, <1>4, FS_AddElement DEF Times
<1>5. CASE x # m
  <2>1. Places(Append(q, x), m) = Places(q, m)
    BY <1>1, <1>2, <1>5 DEF Places
  <2> QED
    BY <2>1, <1>3, <1>5 DEF Times
<1> QED
  BY <1>4, <1>5

LEMMA TimesTail ==
    ASSUME NEW S, NEW q \in Seq(S), q # <<>>, NEW m
    PROVE  Times(q, m) = Times(Tail(q), m) + (IF Head(q) = m THEN 1 ELSE 0)
<1>1. /\ Len(q) \in Nat /\ Len(q) >= 1 /\ Tail(q) \in Seq(S) /\ Len(Tail(q)) = Len(q) - 1 /\ Head(q) = q[1]
      /\ \A i \in 1..Len(Tail(q)) : Tail(q)[i] = q[i + 1]
  BY HeadTailProperties, LenProperties, EmptySeq
<1> DEFINE Rest == {i \in 2..Len(q) : q[i] = m}
           f == [i \in Places(Tail(q), m) |-> i + 1]
<1>2. \A i \in Places(Tail(q), m) : i \in Nat /\ i >= 1 /\ i + 1 \in Rest
  BY <1>1 DEF Places
<1>3. \A j \in Rest : j - 1 \in Places(Tail(q), m) /\ (j - 1) + 1 = j
  BY <1>1 DEF Places
<1>4. f \in Bijection(Places(Tail(q), m), Rest)
  <2>1. f \in [Places(Tail(q), m) -> Rest]
    BY <1>2
  <2>2. \A a, b \in Places(Tail(q), m) : f[a] = f[b] => a = b
    BY <1>2
  <2>3. \A j \in Rest : \E i \in Places(Tail(q), m) : f[i] = j
    BY <1>3
  <2> HIDE DEF f, Rest
  <2> QED
    BY <2>1, <2>2, <2>3, Fun_IsBij
<1>5. IsFiniteSet(Rest) /\ Cardinality(Rest) = Times(Tail(q), m) /\ Times(Tail(q), m) \in Nat
  <2>1. IsFiniteSet(Places(Tail(q), m)) /\ Times(Tail(q), m) \in Nat
    BY <1>1, TimesInNat
  <2>2. ExistsBijection(Places(Tail(q), m), Rest)
    BY <1>4 DEF ExistsBijection
  <2> HIDE DEF Rest
  <2> QED
    BY <2>1, <2>2, FS_Bijection DEF Times
<1>6. 1 \notin Rest
  OBVIOUS
<1>7. CASE Head(q) = m
  <2>1. Places(q, m) = Rest \cup {1}
    BY <1>1, <1>7 DEF Places
  <2> HIDE DEF Rest
  <2> QED
    BY ZenonT(40), <2>1, <1>5, <1>6, <1>7, FS_AddElement DEF Times
<1>8. CASE Head(q) # m
  <2>1. Places(q, m) = Rest
    BY <1>1, <1>8 DEF Places
  <2> QED
    BY <2>1, <1>5, <1>8 DEF Times
<1> QED
  BY <1>7, <1>8

LEMMA TimesEmpty == ASSUME NEW m PROVE Times(<<>>, m) = 0
BY TimesNone
-----------------------------------------------------------------------------
(* Executions on a kernel: the steps.                                      *)

LEMMA ExecTypesRight == ExecTypes => ExecTypeOK
<1> SUFFICES ASSUME ExecTypes PROVE ExecTypeOK
  OBVIOUS
<1>1. {idle, answered, shut, lost} \subseteq [Exec -> BOOLEAN]
  BY DEF ExecTypes
<1>2. {up, socks, replied} \subseteq BOOLEAN /\ {work, shellq} \subseteq Seq(Exec) /\ subs \subseteq Exec /\ toClose \subseteq Exec
  BY DEF ExecTypes
<1>3. \A e \in Exec : ch[e] \in Seq(Kind) /\ Len(ch[e]) <= BufCap
  BY DEF ExecTypes
<1> QED
  BY <1>1, <1>2, <1>3 DEF ExecTypes, ExecTypeOK

LEMMA ExecNumbers == MaxOut \in Nat /\ BufCap \in Nat \ {0} /\ WireCap \in Nat \ {0} /\ Execs \in Nat \ {0}
BY ExecConstants

LEMMA ExecInitInv == ExecInit => ExecInv
<1> SUFFICES ASSUME ExecInit PROVE ExecInv
  OBVIOUS
<1>0. Len(<<>>) = 0 /\ \A S : <<>> \in Seq(S)
  OBVIOUS
<1>1. ExecTypes
  <2>1. ch \in [Exec -> Seq(Kind)] /\ \A e \in Exec : Len(ch[e]) <= BufCap
    BY <1>0, ExecNumbers DEF ExecInit
  <2>2. owed \in [Exec -> 0..MaxOut] /\ prints \in 0..MaxOut
    BY ExecNumbers DEF ExecInit
  <2>3. work \in Seq(Exec) /\ shellq \in Seq(Exec) /\ iopub \in Seq([of : Exec, kind : Kind])
    BY <1>0 DEF ExecInit
  <2>4. /\ idle \in [Exec -> BOOLEAN] /\ answered \in [Exec -> BOOLEAN]
        /\ shut \in [Exec -> BOOLEAN] /\ lost \in [Exec -> BOOLEAN]
        /\ up \in BOOLEAN /\ socks \in BOOLEAN /\ replied \in BOOLEAN
    BY DEF ExecInit
  <2> QED
    BY <2>1, <2>2, <2>3, <2>4 DEF ExecInit, ExecTypes
<1>2. WorkInOrder /\ LookedUp /\ OutputWhole
  BY <1>0 DEF ExecInit, WorkInOrder, LookedUp, OutputWhole
<1>3. ASSUME NEW e \in Exec PROVE Unsent(e) /\ IdleIsLast(e) /\ Owes(e) /\ Exact(e)
  BY <1>0 DEF ExecInit, Unsent, IdleIsLast, Owes, Exact, NoWork, NoWire, NoHand, Occur
<1> QED
  BY <1>1, <1>2, <1>3 DEF ExecInv

\* What counts of an execution.
LEMMA UnderWayNumbers ==
    ASSUME ExecTypes, NEW e \in Exec
    PROVE  /\ Times(iopub, OutOf(e)) \in Nat /\ Times(ch[e], "out") \in Nat /\ InHand(e) \in Nat
           /\ owed[e] \in Nat /\ owed[e] <= MaxOut
<1>1. Times(iopub, OutOf(e)) \in Nat
  BY TimesInNat DEF ExecTypes
<1>2. Times(ch[e], "out") \in Nat
  BY TimesInNat DEF ExecTypes
<1>3. InHand(e) \in Nat
  BY DEF InHand
<1> QED
  BY <1>1, <1>2, <1>3, ExecNumbers DEF ExecTypes

\* A stream that takes an output owes one; a cell that prints one more owes less than it may.
LEMMA OwedStays ==
    ASSUME ExecInv, ExecNext
    PROVE  owed' \in [Exec -> 0..MaxOut] /\ prints' \in 0..MaxOut
<1>0. ExecTypes /\ owed \in [Exec -> 0..MaxOut] /\ prints \in 0..MaxOut /\ MaxOut \in Nat
  BY ExecNumbers DEF ExecInv, ExecTypes
<1>1. ASSUME NEW e \in Exec, TakeIOPub(e) PROVE owed' \in [Exec -> 0..MaxOut] /\ prints' = prints
  <2>1. epc[e] = "stream" /\ prints' = prints
    BY <1>1 DEF TakeIOPub, cellVars
  <2>2. CASE ch[e] # <<>> /\ Head(ch[e]) # "idle" /\ owed' = [owed EXCEPT ![e] = @ - 1]
    <3>1. PICK c \in Seq(Kind) : c = ch[e] /\ c # <<>>
      BY <2>2, <1>0 DEF ExecTypes
    <3>2. c[1] = "out" /\ 1 \in 1..Len(c)
      BY <3>1, <2>2, EmptySeq, LenProperties, HeadTailProperties DEF Kind
    <3>3. Times(ch[e], "out") >= 1
      BY <3>1, <3>2, TimesSome
    <3>4. UnderWay(e) <= owed[e]
      BY <2>1 DEF ExecInv, Owes
    <3>5. owed[e] >= 1
      BY <3>3, <3>4, <1>0, UnderWayNumbers DEF UnderWay
    <3> QED
      BY <3>5, <2>1, <2>2, <1>0
  <2>3. CASE owed' = owed
    BY <2>1, <2>3, <1>0
  <2> QED
    BY <2>1, <2>2, <2>3, <1>1 DEF TakeIOPub
<1>2. ASSUME CellPrints PROVE owed' \in [Exec -> 0..MaxOut] /\ prints' \in 0..MaxOut
  <2>1. PICK q \in Seq(Exec) : q = work /\ q # <<>>
    BY <1>2, <1>0 DEF CellPrints, ExecTypes
  <2>2. Head(q) = q[1] /\ Head(q) \in Exec /\ 1 \in 1..Len(q)
    BY <2>1, HeadTailProperties, EmptySeq, LenProperties
  <2>3. owed[Head(q)] <= prints
    BY <2>1, <2>2 DEF ExecInv, Owes, NoWork, Occur
  <2>4. prints < MaxOut /\ prints' = prints + 1
    BY <1>2 DEF CellPrints
  <2>5. owed' = [owed EXCEPT ![Head(q)] = @ + 1] \/ owed' = owed
    BY <1>2, <2>1 DEF CellPrints
  <2>6. PICK n \in Nat : n = owed[Head(q)] /\ n + 1 \in 0..MaxOut
    BY <2>2, <2>3, <2>4, <1>0
  <2> QED
    BY SMTT(30), <2>2, <2>4, <2>5, <2>6, <1>0
<1>3. ASSUME NEW e \in Exec, Forgets(e) PROVE owed' \in [Exec -> 0..MaxOut]
  BY <1>3, <1>0 DEF Forgets
<1>4. ASSUME NEW e \in Exec, UnsubClose(e) \/ ContextEnds(e) PROVE owed' \in [Exec -> 0..MaxOut] /\ prints' = prints
  BY <1>3, <1>4 DEF UnsubClose, ContextEnds, cellVars
<1>5. ASSUME NEW e \in Exec, Execute(e) \/ Subscribe(e) \/ Send(e) \/ ReadFails(e) \/ TakeReply(e) \/ StreamEnds(e)
                             \/ Unsub(e) \/ RecvShell(e)
      PROVE  owed' = owed /\ prints' = prints
  BY <1>5 DEF Execute, Subscribe, Send, ReadFails, TakeReply, StreamEnds, Unsub, RecvShell, streamVars, cellVars
<1>6. ASSUME Routing \/ CellReplies PROVE owed' = owed /\ prints' = prints
  BY <1>6 DEF Routing, Dispatch, DispatchSend, CloseAllTakes, CloseAllCloses, CellReplies, streamVars, cellVars
<1>7. ASSUME KillKernel \/ CellIdle \/ ProcessEnds PROVE owed' = owed /\ prints' = 0
  BY <1>7 DEF KillKernel, CellIdle, ProcessEnds, Gone, streamVars
<1> QED
  BY <1>0, <1>1, <1>2, <1>4, <1>5, <1>6, <1>7 DEF ExecNext, ExecStep
\* The types but for owed and prints.
ExecPlain ==
    /\ epc \in [Exec -> {"new", "subscribe", "send", "stream", "unsub", "close", "over", "aborted"}]
    /\ idle \in [Exec -> BOOLEAN] /\ answered \in [Exec -> BOOLEAN]
    /\ shut \in [Exec -> BOOLEAN] /\ lost \in [Exec -> BOOLEAN]
    /\ reader \in [Exec -> {"none", "recv", "left", "has", "over"}]
    /\ subs \in SUBSET Exec /\ toClose \in SUBSET Exec
    /\ hand \in [of : Exec, kind : Kind, sub : BOOLEAN] \cup {NoMsg}
    /\ up \in BOOLEAN /\ socks \in BOOLEAN /\ replied \in BOOLEAN
    /\ sweep \in {"no", "run", "over"} /\ panic \in {"none", "runtime"}
ExecQueues ==
    /\ ch \in [Exec -> Seq(Kind)] /\ \A e \in Exec : Len(ch[e]) <= BufCap
    /\ work \in Seq(Exec) /\ shellq \in Seq(Exec) /\ iopub \in Seq([of : Exec, kind : Kind])

LEMMA ExecTypesParts == ExecTypes <=> ExecPlain /\ ExecQueues /\ owed \in [Exec -> 0..MaxOut] /\ prints \in 0..MaxOut
BY DEF ExecTypes, ExecPlain, ExecQueues

LEMMA ExecPlainStep ==
    ASSUME ExecInv, ExecNext
    PROVE  ExecPlain'
<1>0. ExecPlain /\ iopub \in Seq([of : Exec, kind : Kind])
  BY DEF ExecInv, ExecTypes, ExecPlain
<1> USE DEF ExecPlain, Goes
<1>1. ASSUME NEW e \in Exec, Execute(e) PROVE ExecPlain'
  BY <1>0, <1>1 DEF Execute, streamVars, chanVars, endVars, cellVars
<1>2. ASSUME NEW e \in Exec, Subscribe(e) PROVE ExecPlain'
  BY <1>0, <1>2 DEF Subscribe, streamVars, endVars, cellVars
<1>3. ASSUME NEW e \in Exec, Send(e) PROVE ExecPlain'
  BY <1>0, <1>3 DEF Send, streamVars, chanVars, endVars
<1>4. ASSUME NEW e \in Exec, ReadFails(e) PROVE ExecPlain'
  BY <1>0, <1>4 DEF ReadFails, streamVars, chanVars, endVars, cellVars
<1>5. ASSUME NEW e \in Exec, RecvShell(e) PROVE ExecPlain'
  BY <1>0, <1>5 DEF RecvShell, streamVars, chanVars, endVars
<1>6. ASSUME NEW e \in Exec, TakeIOPub(e) PROVE ExecPlain'
  <2>1. idle' = idle \/ idle' = [idle EXCEPT ![e] = TRUE]
    BY <1>6 DEF TakeIOPub
  <2>2. idle' \in [Exec -> BOOLEAN]
    BY <2>1, <1>0
  <2> QED
    BY <2>2, <1>0, <1>6 DEF TakeIOPub, endVars, cellVars
<1>7. ASSUME NEW e \in Exec, TakeReply(e) PROVE ExecPlain'
  BY <1>0, <1>7 DEF TakeReply, chanVars, endVars, cellVars
<1>8. ASSUME NEW e \in Exec, StreamEnds(e) PROVE ExecPlain'
  BY <1>0, <1>8 DEF StreamEnds, streamVars, chanVars, endVars, cellVars
<1>9. ASSUME NEW e \in Exec, Unsub(e) PROVE ExecPlain'
  BY <1>0, <1>9 DEF Unsub, streamVars, endVars, cellVars
<1>10. ASSUME NEW e \in Exec, UnsubClose(e) PROVE ExecPlain'
  BY <1>0, <1>10 DEF UnsubClose, Forgets, endVars, cellVars
<1>11. ASSUME NEW e \in Exec, ContextEnds(e) PROVE ExecPlain'
  BY <1>0, <1>11 DEF ContextEnds, Forgets, endVars, cellVars
<1>12. ASSUME Dispatch PROVE ExecPlain'
  <2>1. Head(iopub) \in [of : Exec, kind : Kind]
    BY <1>0, <1>12, HeadTailProperties DEF Dispatch
  <2>2. hand' \in [of : Exec, kind : Kind, sub : BOOLEAN]
    BY <2>1, <1>12 DEF Dispatch
  <2> QED
    BY <2>2, <1>0, <1>12 DEF Dispatch, streamVars, chanVars, endVars
<1>13. ASSUME DispatchSend PROVE ExecPlain'
  <2>1. hand \in [of : Exec, kind : Kind, sub : BOOLEAN] /\ hand' = NoMsg
    BY <1>0, <1>13 DEF DispatchSend
  <2>2. lost' = lost \/ lost' = [lost EXCEPT ![hand.of] = TRUE]
    BY <1>13 DEF DispatchSend
  <2>3. panic' = panic \/ panic' = "runtime"
    BY <1>13 DEF DispatchSend
  <2>4. lost' \in [Exec -> BOOLEAN]
    BY <2>2, <1>0
  <2> QED
    BY <2>1, <2>3, <2>4, <1>0, <1>13 DEF DispatchSend, streamVars, endVars, cellVars
<1>14. ASSUME CloseAllTakes \/ CellReplies PROVE ExecPlain'
  BY <1>0, <1>14 DEF CloseAllTakes, CellReplies, streamVars, chanVars, endVars, cellVars
<1>15. ASSUME CloseAllCloses PROVE ExecPlain'
  <2>1. shut' = shut \/ \E e \in Exec : shut' = [shut EXCEPT ![e] = TRUE]
    BY <1>0, <1>15 DEF CloseAllCloses
  <2>2. shut' \in [Exec -> BOOLEAN]
    BY <2>1, <1>0
  <2>3. toClose' \in SUBSET Exec /\ sweep' \in {"no", "run", "over"} /\ panic' \in {"none", "runtime"}
    BY <1>0, <1>15 DEF CloseAllCloses
  <2> QED
    BY <2>2, <2>3, <1>0, <1>15 DEF CloseAllCloses, streamVars, cellVars
<1>16. ASSUME KillKernel \/ ProcessEnds PROVE ExecPlain'
  BY <1>0, <1>16 DEF KillKernel, ProcessEnds, Gone, streamVars, chanVars, endVars
<1>17. ASSUME CellPrints \/ CellIdle PROVE ExecPlain'
  BY <1>0, <1>17 DEF CellPrints, CellIdle, Publish, streamVars, chanVars, endVars
<1> QED
  BY <1>1, <1>2, <1>3, <1>4, <1>5, <1>6, <1>7, <1>8, <1>9, <1>10, <1>11, <1>12, <1>13, <1>14,
     <1>15, <1>16, <1>17 DEF ExecNext, ExecStep, Routing

\* What a step does to a subscription's channel.
ChanChange ==
    \/ ch' = ch
    \/ \E e \in Exec : ch' = [ch EXCEPT ![e] = <<>>]
    \/ \E e \in Exec : ch[e] # <<>> /\ ch' = [ch EXCEPT ![e] = Tail(@)]
    \/ \E e \in Exec, m \in Kind : Len(ch[e]) < BufCap /\ ch' = [ch EXCEPT ![e] = Append(@, m)]

LEMMA ExecQueuesStep ==
    ASSUME ExecInv, ExecNext
    PROVE  ExecQueues'
<1>0. ExecPlain /\ ExecQueues /\ WorkInOrder /\ (\A S : <<>> \in Seq(S)) /\ Len(<<>>) = 0 /\ BufCap \in Nat
  BY ExecTypesParts, ExecNumbers DEF ExecInv
<1>1. ASSUME ChanChange PROVE ch' \in [Exec -> Seq(Kind)] /\ \A e \in Exec : Len(ch'[e]) <= BufCap
  <2>0. ch \in [Exec -> Seq(Kind)] /\ \A e \in Exec : Len(ch[e]) <= BufCap
    BY <1>0 DEF ExecQueues
  <2>1. ASSUME NEW e \in Exec, NEW c \in Seq(Kind), Len(c) <= BufCap, ch' = [ch EXCEPT ![e] = c]
        PROVE  ch' \in [Exec -> Seq(Kind)] /\ \A d \in Exec : Len(ch'[d]) <= BufCap
    BY <2>0, <2>1
  <2>2. ASSUME NEW e \in Exec, ch[e] # <<>> PROVE Tail(ch[e]) \in Seq(Kind) /\ Len(Tail(ch[e])) <= BufCap
    BY <2>0, <2>2, <1>0, HeadTailProperties, LenProperties
  <2>3. ASSUME NEW e \in Exec, NEW m \in Kind, Len(ch[e]) < BufCap
        PROVE  Append(ch[e], m) \in Seq(Kind) /\ Len(Append(ch[e], m)) <= BufCap
    BY <2>0, <2>3, <1>0, AppendProperties, LenProperties
  <2>4. CASE ch' = ch
    BY <2>0, <2>4
  <2>5. ASSUME NEW e \in Exec, ch' = [ch EXCEPT ![e] = <<>>]
        PROVE  ch' \in [Exec -> Seq(Kind)] /\ \A d \in Exec : Len(ch'[d]) <= BufCap
    <3>1. <<>> \in Seq(Kind) /\ Len(<<>>) <= BufCap
      BY <1>0
    <3> QED
      BY <2>1, <2>5, <3>1
  <2>6. ASSUME NEW e \in Exec, ch[e] # <<>>, ch' = [ch EXCEPT ![e] = Tail(@)]
        PROVE  ch' \in [Exec -> Seq(Kind)] /\ \A d \in Exec : Len(ch'[d]) <= BufCap
    <3>1. Tail(ch[e]) \in Seq(Kind) /\ Len(Tail(ch[e])) <= BufCap
      BY <2>2, <2>6
    <3>2. ch' = [ch EXCEPT ![e] = Tail(ch[e])]
      BY <2>6
    <3> QED
      BY <2>1, <3>1, <3>2
  <2>7. ASSUME NEW e \in Exec, NEW m \in Kind, Len(ch[e]) < BufCap, ch' = [ch EXCEPT ![e] = Append(@, m)]
        PROVE  ch' \in [Exec -> Seq(Kind)] /\ \A d \in Exec : Len(ch'[d]) <= BufCap
    <3>1. Append(ch[e], m) \in Seq(Kind) /\ Len(Append(ch[e], m)) <= BufCap
      BY <2>3, <2>7
    <3>2. ch' = [ch EXCEPT ![e] = Append(ch[e], m)]
      BY <2>7
    <3> QED
      BY <2>1, <3>1, <3>2
  <2> QED
    BY <2>4, <2>5, <2>6, <2>7, <1>1 DEF ChanChange
<1>2. ChanChange
  <2>1. ASSUME NEW e \in Exec, ContextEnds(e) \/ UnsubClose(e) \/ TakeIOPub(e) PROVE ChanChange
    BY <2>1 DEF ContextEnds, UnsubClose, TakeIOPub, ChanChange
  <2>2. ASSUME DispatchSend PROVE ChanChange
    <3>1. hand \in [of : Exec, kind : Kind, sub : BOOLEAN]
      BY <1>0, <2>2 DEF DispatchSend, ExecPlain
    <3>2. hand.of \in Exec /\ hand.kind \in Kind
      BY <3>1
    <3> QED
      BY <3>2, <2>2 DEF DispatchSend, ChanChange
  <2>3. ASSUME NEW e \in Exec, Execute(e) \/ Subscribe(e) \/ Send(e) \/ ReadFails(e) \/ TakeReply(e) \/ StreamEnds(e)
                               \/ Unsub(e) \/ RecvShell(e)
        PROVE  ch' = ch
    BY <2>3 DEF Execute, Subscribe, Send, ReadFails, TakeReply, StreamEnds, Unsub, RecvShell, chanVars
  <2>4. ASSUME Dispatch \/ CloseAllTakes \/ CloseAllCloses \/ KillKernel \/ CellPrints \/ CellReplies \/ CellIdle \/ ProcessEnds
        PROVE  ch' = ch
    BY <2>4 DEF Dispatch, CloseAllTakes, CloseAllCloses, KillKernel, CellPrints, CellReplies, CellIdle, ProcessEnds, chanVars
  <2> QED
    BY <2>1, <2>2, <2>3, <2>4 DEF ExecNext, ExecStep, Routing, ChanChange
<1>a. work \in Seq(Exec) /\ shellq \in Seq(Exec) /\ iopub \in Seq([of : Exec, kind : Kind])
  BY <1>0 DEF ExecQueues
<1>b. work # <<>> => Head(work) \in Exec /\ Tail(work) \in Seq(Exec)
  BY <1>a, HeadTailProperties
<1>c. \A e \in Exec : Append(work, e) \in Seq(Exec) /\ Append(shellq, e) \in Seq(Exec)
  BY <1>a, AppendProperties
<1>3. work' \in Seq(Exec) /\ shellq' \in Seq(Exec) /\ iopub' \in Seq([of : Exec, kind : Kind])
  <2>1. ASSUME NEW e \in Exec, Send(e) PROVE work' \in Seq(Exec) /\ shellq' \in Seq(Exec) /\ iopub' \in Seq([of : Exec, kind : Kind])
    BY <2>1, <1>a, <1>c DEF Send
  <2>2. ASSUME NEW e \in Exec, RecvShell(e) PROVE work' \in Seq(Exec) /\ shellq' \in Seq(Exec) /\ iopub' \in Seq([of : Exec, kind : Kind])
    BY <2>2, <1>a, HeadTailProperties DEF RecvShell
  <2>3. ASSUME NEW e \in Exec, Execute(e) \/ Subscribe(e) \/ ReadFails(e) \/ TakeReply(e) \/ StreamEnds(e) \/ Unsub(e)
                               \/ TakeIOPub(e) \/ UnsubClose(e) \/ ContextEnds(e)
        PROVE  UNCHANGED <<work, shellq, iopub>>
    BY <2>3 DEF Execute, Subscribe, ReadFails, TakeReply, StreamEnds, Unsub, TakeIOPub, UnsubClose, ContextEnds, cellVars
  <2>4. ASSUME Dispatch PROVE work' \in Seq(Exec) /\ shellq' \in Seq(Exec) /\ iopub' \in Seq([of : Exec, kind : Kind])
    BY <2>4, <1>a, HeadTailProperties DEF Dispatch
  <2>5. ASSUME DispatchSend \/ CloseAllTakes \/ CloseAllCloses PROVE UNCHANGED <<work, shellq, iopub>>
    BY <2>5 DEF DispatchSend, CloseAllTakes, CloseAllCloses, cellVars
  <2>6. ASSUME KillKernel \/ ProcessEnds PROVE work' \in Seq(Exec) /\ shellq' \in Seq(Exec) /\ iopub' \in Seq([of : Exec, kind : Kind])
    BY <2>6, <1>a, <1>0 DEF KillKernel, ProcessEnds, Gone
  <2>7. ASSUME work # <<>>, NEW m \in Kind, Publish(m) PROVE iopub' \in Seq([of : Exec, kind : Kind])
    <3>1. [of |-> Head(work), kind |-> m] \in [of : Exec, kind : Kind]
      BY <2>7, <1>b
    <3> QED
      BY <3>1, <2>7, <1>a, AppendProperties DEF Publish
  <2>8. ASSUME CellPrints PROVE work' \in Seq(Exec) /\ shellq' \in Seq(Exec) /\ iopub' \in Seq([of : Exec, kind : Kind])
    BY <2>8, <2>7, <1>a DEF CellPrints, Kind
  <2>9. ASSUME CellIdle PROVE work' \in Seq(Exec) /\ shellq' \in Seq(Exec) /\ iopub' \in Seq([of : Exec, kind : Kind])
    <3>1. work # <<>>
      BY <2>9, <1>0 DEF CellIdle, WorkInOrder
    <3> QED
      BY <3>1, <2>9, <2>7, <1>a, <1>b DEF CellIdle, Kind
  <2>10. ASSUME CellReplies PROVE work' \in Seq(Exec) /\ shellq' \in Seq(Exec) /\ iopub' \in Seq([of : Exec, kind : Kind])
    BY <2>10, <1>a, <1>b, <1>c DEF CellReplies
  <2> QED
    BY <2>1, <2>2, <2>3, <2>4, <2>5, <2>6, <2>8, <2>9, <2>10, <1>a DEF ExecNext, ExecStep, Routing
<1> QED
  BY <1>1, <1>2, <1>3 DEF ExecQueues

LEMMA ExecTypesStep ==
    ASSUME ExecInv, ExecNext
    PROVE  ExecTypes'
BY OwedStays, ExecPlainStep, ExecQueuesStep DEF ExecTypes, ExecPlain, ExecQueues
-----------------------------------------------------------------------------
(* Executions on a kernel: the messages of one of them.                    *)

\* A wire r in which of e is no more than in q, and no less of its output.
Alike(e, q, r) ==
    /\ (\A i \in 1..Len(q) : q[i].of # e) => \A i \in 1..Len(r) : r[i].of # e
    /\ (\A i, j \in 1..Len(q) : i < j /\ q[i] = IdleOf(e) => q[j].of # e)
         => \A i, j \in 1..Len(r) : i < j /\ r[i] = IdleOf(e) => r[j].of # e
    /\ Occur(IdleOf(e), r) => Occur(IdleOf(e), q)
    /\ Times(r, OutOf(e)) = Times(q, OutOf(e))

Wire == [of : Exec, kind : Kind]

LEMMA AlikeTail ==
    ASSUME NEW e \in Exec, NEW q \in Seq(Wire), q # <<>>, Head(q).of # e
    PROVE  Alike(e, q, Tail(q))
<1>1. /\ Len(q) \in Nat /\ Len(q) >= 1 /\ Tail(q) \in Seq(Wire) /\ Len(Tail(q)) = Len(q) - 1 /\ Head(q) = q[1]
      /\ \A i \in 1..Len(Tail(q)) : Tail(q)[i] = q[i + 1]
  BY HeadTailProperties, LenProperties, EmptySeq
<1>2. Times(q, OutOf(e)) = Times(Tail(q), OutOf(e)) + (IF Head(q) = OutOf(e) THEN 1 ELSE 0)
  BY TimesTail
<1>a. Head(q) # OutOf(e)
  BY DEF OutOf
<1>b. Times(Tail(q), OutOf(e)) \in Nat
  BY <1>1, TimesInNat
<1>3. Head(q) # OutOf(e) /\ Times(Tail(q), OutOf(e)) \in Nat
  BY <1>a, <1>b
<1>4. Times(Tail(q), OutOf(e)) = Times(q, OutOf(e))
  BY <1>2, <1>3
<1>5. \A i \in 1..Len(Tail(q)) : i + 1 \in 1..Len(q) /\ Tail(q)[i] = q[i + 1]
  BY <1>1
<1>6. \A i, j \in 1..Len(Tail(q)) : i < j => i + 1 < j + 1
  BY <1>1
<1> QED
  BY <1>4, <1>5, <1>6 DEF Alike, Occur

LEMMA AlikeAppend ==
    ASSUME NEW e \in Exec, NEW q \in Seq(Wire), NEW m \in Wire, m.of # e
    PROVE  Alike(e, q, Append(q, m))
<1>1. /\ Len(Append(q, m)) = Len(q) + 1 /\ Append(q, m)[Len(q) + 1] = m /\ Len(q) \in Nat
      /\ \A i \in 1..Len(q) : Append(q, m)[i] = q[i]
  BY AppendProperties, LenProperties
<1>2. Times(Append(q, m), OutOf(e)) = Times(q, OutOf(e)) + (IF m = OutOf(e) THEN 1 ELSE 0)
  BY TimesAppend
<1>3. m # OutOf(e) /\ m # IdleOf(e) /\ Times(q, OutOf(e)) \in Nat
  BY TimesInNat DEF OutOf, IdleOf
<1>4. Times(Append(q, m), OutOf(e)) = Times(q, OutOf(e))
  BY <1>2, <1>3
<1>5. \A i : i \in 1..Len(Append(q, m)) <=> i \in 1..Len(q) \/ i = Len(q) + 1
  BY <1>1
<1>6. \A i \in 1..Len(q) : ~(Len(q) + 1 < i)
  BY <1>1
<1> QED
  BY <1>1, <1>3, <1>4, <1>5, <1>6 DEF Alike, Occur

\* A step that leaves e aside.
Aside(e) ==
    /\ ch'[e] = ch[e] /\ idle'[e] = idle[e] /\ answered'[e] = answered[e] /\ owed'[e] = owed[e]
    /\ shut'[e] = shut[e] /\ lost'[e] = lost[e] /\ epc'[e] = epc[e]
    /\ (e \in subs' => e \in subs) /\ (socks' => socks)
    /\ Occur(e, work') => Occur(e, work) /\ (work[1] = e => work'[1] = e /\ prints' = prints)
    /\ hand' = hand \/ (NoHand(e) /\ (hand' = NoMsg \/ hand'.of # e))
    /\ Alike(e, iopub, iopub')

Good(e) == Unsent(e) /\ IdleIsLast(e) /\ Owes(e) /\ Exact(e)

LEMMA AsideStays ==
    ASSUME ExecTypes, ExecTypes', NEW e \in Exec, Good(e), Aside(e)
    PROVE  Good(e)'
<1>1. NoWork(e) => NoWork(e)'
  BY DEF Aside, NoWork
<1>2. NoWire(e) => NoWire(e)'
  BY DEF Aside, Alike, NoWire
<1>3. (NoHand(e) => NoHand(e)') /\ InHand(e)' = InHand(e)
  BY DEF Aside, NoHand, InHand
<1>4. Unsent(e)'
  BY <1>1, <1>2, <1>3 DEF Good, Aside, Unsent
<1>5. IdleIsLast(e)'
  <2>1. hand' # NoMsg /\ hand'.of = e => hand' = hand
    BY DEF Aside
  <2>2. Occur(IdleOf(e), iopub)' => Occur(IdleOf(e), iopub)
    BY DEF Aside, Alike
  <2>3. (\A i, j \in 1..Len(iopub) : i < j /\ iopub[i] = IdleOf(e) => iopub[j].of # e)'
    BY DEF Aside, Alike, Good, IdleIsLast
  <2> QED
    BY <2>1, <2>2, <2>3, <1>1, <1>2, <1>3 DEF Aside, Good, IdleIsLast
<1>6. UnderWay(e)' = UnderWay(e)
  BY <1>3 DEF Aside, Alike, UnderWay
<1>7. Owes(e)'
  <2>1. ~NoWork(e)' => owed'[e] <= IF work'[1] = e THEN prints' ELSE 0
    <3> SUFFICES ASSUME ~NoWork(e)' PROVE owed'[e] <= IF work'[1] = e THEN prints' ELSE 0
      OBVIOUS
    <3>1. ~NoWork(e) /\ (work[1] = e => work'[1] = e /\ prints' = prints)
      BY <1>1 DEF Aside, NoWork
    <3>2. owed[e] <= IF work[1] = e THEN prints ELSE 0
      BY <3>1 DEF Good, Owes
    <3>3. owed'[e] = owed[e] /\ prints' \in Nat /\ owed[e] \in Nat
      BY ExecNumbers DEF ExecTypes, Aside
    <3> QED
      BY <3>1, <3>2, <3>3
  <2>2. epc'[e] = "stream" => UnderWay(e)' <= owed'[e]
    BY <1>6 DEF Good, Owes, Aside
  <2> QED
    BY <2>1, <2>2 DEF Owes
<1>8. Exact(e)'
  <2>1. SeesIdle(e)' <=> SeesIdle(e)
    BY DEF Aside, NoHand, SeesIdle
  <2> QED
    BY <2>1, <1>6 DEF Good, Exact, Aside
<1> QED
  BY <1>4, <1>5, <1>7, <1>8 DEF Good\* The execution is over, or its handler is on its way out: nothing is expected of it.
Forgotten(e) ==
    /\ epc'[e] \notin {"new", "subscribe", "send", "stream"}
    /\ idle'[e] = FALSE /\ owed'[e] = 0 /\ ch'[e] = <<>>
    /\ UNCHANGED <<iopub, hand, work, prints>>

LEMMA ForgottenStays ==
    ASSUME ExecTypes, ExecTypes', NEW e \in Exec, Good(e), Forgotten(e)
    PROVE  Good(e)'
<1>0. Len(<<>>) = 0
  OBVIOUS
<1>1. Unsent(e)' /\ Exact(e)'
  BY DEF Forgotten, Unsent, Exact
<1>2. IdleIsLast(e)'
  <2>1. NoWire(e)' = NoWire(e) /\ NoHand(e)' = NoHand(e) /\ NoWork(e)' = NoWork(e)
    BY DEF Forgotten, NoWire, NoHand, NoWork
  <2>2. ~Occur("idle", ch[e])' /\ idle'[e] = FALSE /\ ch'[e] = <<>>
    BY <1>0 DEF Forgotten, Occur
  <2>3. iopub' = iopub /\ hand' = hand
    BY DEF Forgotten
  <2>4. \A i \in 1..Len(ch'[e]) : ch'[e][i] = "idle" => i = Len(ch'[e])
    BY <1>0, <2>2
  <2>5. Occur(IdleOf(e), iopub)' = Occur(IdleOf(e), iopub)
    BY <2>3
  <2> QED
    BY <2>1, <2>2, <2>3, <2>4, <2>5 DEF Good, IdleIsLast
<1>3. Owes(e)'
  <2>1. owed'[e] = 0 /\ prints' \in Nat /\ epc'[e] # "stream"
    BY ExecNumbers DEF Forgotten, ExecTypes
  <2> QED
    BY <2>1 DEF Owes
<1> QED
  BY <1>1, <1>2, <1>3 DEF Good

ExecGood == WorkInOrder /\ LookedUp /\ \A e \in Exec : Good(e)

LEMMA ExecParts == ExecInv <=> ExecTypes /\ OutputWhole /\ ExecGood
BY DEF ExecInv, ExecGood, Good

\* A step that moves no message and no cell.
Quiet ==
    /\ UNCHANGED <<iopub, hand, work, prints, ch, idle, owed, lost>>
    /\ (socks' => socks) /\ (replied' => work # <<>>)
    /\ \A e \in Exec :
        /\ epc'[e] = "stream" => epc[e] = "stream"
        /\ shut[e] => shut'[e]
        /\ e \in subs' => e \in subs \/ epc[e] = "subscribe"
        /\ epc'[e] \in {"new", "subscribe", "send"} => epc[e] \in {"new", "subscribe", "send"} /\ answered'[e] = answered[e]

LEMMA QuietStays ==
    ASSUME ExecTypes, ExecGood, Quiet
    PROVE  ExecGood'
<1>1. WorkInOrder'
  BY DEF Quiet, ExecGood, WorkInOrder
<1>2. LookedUp'
  <2> SUFFICES ASSUME hand # NoMsg, ~hand.sub, hand.of \in subs' PROVE FALSE
    BY DEF Quiet, LookedUp
  <2>1. hand.of \in Exec
    BY DEF ExecTypes
  <2>2. hand.of \notin subs
    BY DEF ExecGood, LookedUp
  <2>3. epc[hand.of] = "subscribe"
    BY <2>1, <2>2 DEF Quiet
  <2> QED
    BY <2>1, <2>3 DEF ExecGood, Good, Unsent, NoHand
<1>3. ASSUME NEW e \in Exec PROVE Good(e)'
  <2>0. Good(e) /\ UNCHANGED <<iopub, hand, work, prints, ch, idle, owed, lost>>
    BY DEF ExecGood, Quiet
  <2>1. /\ NoWire(e)' = NoWire(e) /\ NoHand(e)' = NoHand(e) /\ NoWork(e)' = NoWork(e)
        /\ Occur(IdleOf(e), iopub)' = Occur(IdleOf(e), iopub)
        /\ UnderWay(e)' = UnderWay(e) /\ SeesIdle(e)' = SeesIdle(e)
    BY <2>0 DEF NoWire, NoHand, NoWork, UnderWay, InHand, SeesIdle
  <2>2. Unsent(e)'
    BY <2>0, <2>1 DEF Quiet, Good, Unsent
  <2>3. IdleIsLast(e)'
    BY <2>0, <2>1 DEF Quiet, Good, IdleIsLast
  <2>4. Owes(e)'
    BY <2>0, <2>1 DEF Quiet, Good, Owes
  <2>5. Exact(e)'
    BY <2>0, <2>1 DEF Quiet, Good, Exact
  <2> QED
    BY <2>2, <2>3, <2>4, <2>5 DEF Good
<1> QED
  BY <1>1, <1>2, <1>3 DEF ExecGood

LEMMA QuietSteps ==
    ASSUME ExecTypes, ExecGood, ExecNext
    PROVE  \/ Quiet \/ Dispatch \/ DispatchSend \/ KillKernel \/ ProcessEnds \/ CellPrints \/ CellIdle
           \/ \E e \in Exec : (Send(e) /\ socks) \/ TakeIOPub(e) \/ ContextEnds(e) \/ UnsubClose(e)
<1>0. /\ epc \in [Exec -> {"new", "subscribe", "send", "stream", "unsub", "close", "over", "aborted"}]
      /\ answered \in [Exec -> BOOLEAN] /\ shut \in [Exec -> BOOLEAN] /\ subs \in SUBSET Exec
  BY DEF ExecTypes
<1>1. replied => work # <<>>
  BY DEF ExecGood, WorkInOrder
<1> USE DEF Quiet, Goes
<1>2. ASSUME NEW e \in Exec, Execute(e) PROVE Quiet
  BY <1>0, <1>1, <1>2 DEF Execute, streamVars, chanVars, endVars, cellVars
<1>3. ASSUME NEW e \in Exec, Subscribe(e) PROVE Quiet
  BY <1>0, <1>1, <1>3 DEF Subscribe, streamVars, endVars, cellVars
<1>4. ASSUME NEW e \in Exec, Send(e), ~socks PROVE Quiet
  BY <1>0, <1>1, <1>4 DEF Send, streamVars, chanVars, endVars
<1>5. ASSUME NEW e \in Exec, ReadFails(e) PROVE Quiet
  BY <1>0, <1>1, <1>5 DEF ReadFails, streamVars, chanVars, endVars, cellVars
<1>6. ASSUME NEW e \in Exec, RecvShell(e) PROVE Quiet
  BY <1>0, <1>1, <1>6 DEF RecvShell, streamVars, chanVars, endVars
<1>7. ASSUME NEW e \in Exec, TakeReply(e) PROVE Quiet
  BY <1>0, <1>1, <1>7 DEF TakeReply, chanVars, endVars, cellVars
<1>8. ASSUME NEW e \in Exec, StreamEnds(e) PROVE Quiet
  BY <1>0, <1>1, <1>8 DEF StreamEnds, streamVars, chanVars, endVars, cellVars
<1>9. ASSUME NEW e \in Exec, Unsub(e) PROVE Quiet
  BY <1>0, <1>1, <1>9 DEF Unsub, streamVars, endVars, cellVars
<1>10. ASSUME CloseAllTakes \/ CellReplies PROVE Quiet
  BY <1>0, <1>1, <1>10 DEF CloseAllTakes, CellReplies, streamVars, chanVars, endVars, cellVars
<1>11. ASSUME CloseAllCloses PROVE Quiet
  <2>1. shut' = shut \/ \E e \in Exec : shut' = [shut EXCEPT ![e] = TRUE]
    BY <1>11 DEF CloseAllCloses, ExecTypes
  <2>2. \A e \in Exec : shut[e] => shut'[e]
    BY <2>1, <1>0
  <2> QED
    BY <2>2, <1>0, <1>1, <1>11 DEF CloseAllCloses, streamVars, cellVars
<1> QED
  BY <1>2, <1>3, <1>4, <1>5, <1>6, <1>7, <1>8, <1>9, <1>10, <1>11 DEF ExecNext, ExecStep, Routing\* A step of e's own handler leaves the others aside.
LEMMA HandlerAside ==
    ASSUME ExecTypes, ExecTypes', NEW e \in Exec, NEW f \in Exec, f # e,
           (Send(e) /\ socks) \/ TakeIOPub(e) \/ ContextEnds(e) \/ UnsubClose(e)
    PROVE  Aside(f)
<1>0. /\ ch \in [Exec -> Seq(Kind)] /\ idle \in [Exec -> BOOLEAN] /\ answered \in [Exec -> BOOLEAN]
      /\ owed \in [Exec -> 0..MaxOut] /\ shut \in [Exec -> BOOLEAN] /\ lost \in [Exec -> BOOLEAN]
      /\ epc \in [Exec -> {"new", "subscribe", "send", "stream", "unsub", "close", "over", "aborted"}]
  BY DEF ExecTypes
<1>1. Alike(f, iopub, iopub)
  BY DEF Alike
<1>2. CASE Send(e) /\ socks
  <2>1. PICK q \in Seq(Exec) : q = work
    BY DEF ExecTypes
  <2>2. \/ work' = q
        \/ /\ work' = Append(q, e) /\ Len(Append(q, e)) = Len(q) + 1 /\ Append(q, e)[Len(q) + 1] = e /\ Len(q) \in Nat
           /\ \A i \in 1..Len(q) : Append(q, e)[i] = q[i]
    BY <2>1, <1>2, AppendProperties, LenProperties DEF Send
  <2>3. Occur(f, work') => Occur(f, work) /\ (work[1] = f => work'[1] = f)
    <3>1. CASE work' = q
      BY <3>1, <2>1
    <3>2. CASE work' # q
      <4>1. \A i : i \in 1..(Len(q) + 1) <=> i \in 1..Len(q) \/ i = Len(q) + 1
        BY <2>2, <3>2
      <4>2. SUFFICES ASSUME Occur(f, work') PROVE Occur(f, q) /\ (q[1] = f => work'[1] = f)
        BY <2>1
      <4>3. PICK i \in 1..(Len(q) + 1) : work'[i] = f
        BY <2>2, <3>2, <4>2 DEF Occur
      <4>4. i \in 1..Len(q) /\ q[i] = f
        BY <4>1, <4>3, <2>2, <3>2
      <4>5. 1 \in 1..Len(q)
        BY <4>4, <2>2, <3>2
      <4> QED
        BY <4>4, <4>5, <2>2, <3>2 DEF Occur
    <3> QED
      BY <3>1, <3>2
  <2> QED
    BY <2>3, <1>0, <1>1, <1>2 DEF Send, Aside, Goes, streamVars, chanVars, endVars
<1>3. CASE TakeIOPub(e)
  <2>1. ch' = ch \/ ch' = [ch EXCEPT ![e] = Tail(@)]
    BY <1>3 DEF TakeIOPub
  <2>2. (idle' = idle \/ idle' = [idle EXCEPT ![e] = TRUE]) /\ (owed' = owed \/ owed' = [owed EXCEPT ![e] = @ - 1])
    BY <1>3 DEF TakeIOPub
  <2>3. ch'[f] = ch[f] /\ idle'[f] = idle[f] /\ owed'[f] = owed[f]
    BY <2>1, <2>2, <1>0
  <2> QED
    BY <2>3, <1>1, <1>3 DEF TakeIOPub, Aside, endVars, cellVars
<1>4. CASE ContextEnds(e)
  BY <1>0, <1>1, <1>4 DEF ContextEnds, Forgets, Aside, Goes, endVars, cellVars
<1>5. CASE UnsubClose(e)
  BY <1>0, <1>1, <1>5 DEF UnsubClose, Forgets, Aside, Goes, endVars, cellVars
<1> QED
  BY <1>2, <1>3, <1>4, <1>5

LEMMA SendGood ==
    ASSUME ExecTypes, ExecTypes', ExecGood, NEW e \in Exec, Send(e), socks
    PROVE  ExecGood'
<1>0. epc[e] = "send" /\ Good(e) /\ UNCHANGED <<iopub, hand, subs, replied, ch, idle, owed, prints>>
  BY DEF Send, ExecGood, streamVars, chanVars
<1>1. NoWork(e) /\ NoWire(e) /\ NoHand(e) /\ ch[e] = <<>> /\ owed[e] = 0 /\ ~idle[e]
  BY <1>0 DEF Good, Unsent
<1>2. epc'[e] = "stream"
  BY DEF Send, Goes, ExecTypes
<1>3. PICK q \in Seq(Exec) : q = work
  BY DEF ExecTypes
<1>4. \/ work' = q
      \/ /\ work' = Append(q, e) /\ Len(Append(q, e)) = Len(q) + 1 /\ Append(q, e)[Len(q) + 1] = e /\ Len(q) \in Nat
         /\ \A i \in 1..Len(q) : Append(q, e)[i] = q[i]
  BY <1>3, AppendProperties, LenProperties DEF Send
<1>5. WorkInOrder'
  <2>1. CASE work' = q
    BY <2>1, <1>3, <1>0 DEF WorkInOrder, ExecGood
  <2>2. CASE work' # q
    <3>1. \A i \in 1..Len(q) : q[i] # e
      BY <1>1, <1>3 DEF NoWork, Occur
    <3>2. \A i : i \in 1..(Len(q) + 1) <=> i \in 1..Len(q) \/ i = Len(q) + 1
      BY <1>4, <2>2
    <3>3. \A i, j \in 1..Len(q) : q[i] = q[j] => i = j
      BY <1>3 DEF WorkInOrder, ExecGood
    <3>4. work' # <<>>
      BY <1>4, <2>2, EmptySeq, AppendProperties
    <3> QED
      BY <3>1, <3>2, <3>3, <3>4, <1>4, <2>2 DEF WorkInOrder
  <2> QED
    BY <2>1, <2>2
<1>6. LookedUp'
  BY <1>0 DEF LookedUp, ExecGood
<1>7. Good(e)'
  <2>0. Len(<<>>) = 0
    OBVIOUS
  <2>1. NoWire(e)' /\ NoHand(e)' /\ ch'[e] = <<>> /\ owed'[e] = 0 /\ ~idle'[e] /\ ~Occur("idle", ch[e])'
    BY <1>0, <1>1, <2>0 DEF NoWire, NoHand, Occur
  <2>2. ~Occur(IdleOf(e), iopub)' /\ (\A i \in 1..Len(iopub) : iopub[i].of # e)'
    BY <2>1 DEF NoWire, Occur, IdleOf
  <2>3. \A i \in 1..Len(ch'[e]) : ch'[e][i] = "idle" => i = Len(ch'[e])
    BY <2>0, <2>1
  <2>4. Times(iopub', OutOf(e)) = 0 /\ Times(ch'[e], "out") = 0
    <3>1. \A i \in 1..Len(iopub') : iopub'[i] # OutOf(e)
      BY <2>2 DEF OutOf
    <3> QED
      BY <3>1, <2>1, TimesNone, TimesEmpty
  <2>5. InHand(e)' = 0
    BY <2>1 DEF InHand, NoHand
  <2>6. UnderWay(e)' = 0
    BY <2>4, <2>5 DEF UnderWay
  <2>7. prints' \in Nat
    BY ExecNumbers DEF ExecTypes
  <2>8. Unsent(e)'
    BY <1>2 DEF Unsent
  <2>9. IdleIsLast(e)'
    <3>1. (\A i, j \in 1..Len(iopub) : i < j /\ iopub[i] = IdleOf(e) => iopub[j].of # e)'
      BY <2>2
    <3>2. ~(hand' # NoMsg /\ hand'.of = e)
      BY <2>1 DEF NoHand
    <3> QED
      BY <3>1, <3>2, <2>1, <2>2, <2>3 DEF IdleIsLast
  <2>10. Owes(e)'
    BY <2>1, <2>6, <2>7 DEF Owes
  <2>11. Exact(e)'
    BY <2>1, <2>4, <2>6 DEF Exact
  <2> QED
    BY <2>8, <2>9, <2>10, <2>11 DEF Good
<1>8. ASSUME NEW f \in Exec, f # e PROVE Good(f)'
  <2>1. Good(f) /\ Aside(f)
    BY <1>8, HandlerAside DEF ExecGood
  <2> QED
    BY <2>1, AsideStays
<1> QED
  BY <1>5, <1>6, <1>7, <1>8 DEF ExecGood

\* The context ends or the subscription is closed.
LEMMA LeaveGood ==
    ASSUME ExecTypes, ExecTypes', ExecGood, NEW e \in Exec, ContextEnds(e) \/ UnsubClose(e)
    PROVE  ExecGood'
<1>0. /\ epc \in [Exec -> {"new", "subscribe", "send", "stream", "unsub", "close", "over", "aborted"}]
      /\ ch \in [Exec -> Seq(Kind)] /\ idle \in [Exec -> BOOLEAN] /\ owed \in [Exec -> 0..MaxOut]
  BY DEF ExecTypes
<1>1. UNCHANGED <<iopub, hand, work, prints, subs, replied>>
  BY DEF ContextEnds, UnsubClose, cellVars
<1>2. WorkInOrder' /\ LookedUp'
  BY <1>1 DEF ExecGood, WorkInOrder, LookedUp
<1>3. Forgotten(e)
  BY <1>0, <1>1 DEF ContextEnds, UnsubClose, Forgets, Goes, Forgotten
<1>4. Good(e)'
  BY <1>3, ForgottenStays DEF ExecGood
<1>5. ASSUME NEW f \in Exec, f # e PROVE Good(f)'
  <2>1. Good(f) /\ Aside(f)
    BY <1>5, HandlerAside DEF ExecGood
  <2> QED
    BY <2>1, AsideStays
<1> QED
  BY <1>2, <1>4, <1>5 DEF ExecGood\* The handler takes an event from its channel.
LEMMA TakeGood ==
    ASSUME ExecTypes, ExecTypes', ExecGood, NEW e \in Exec, TakeIOPub(e)
    PROVE  ExecGood'
<1>0. /\ ch \in [Exec -> Seq(Kind)] /\ idle \in [Exec -> BOOLEAN] /\ owed \in [Exec -> 0..MaxOut] /\ MaxOut \in Nat
      /\ epc[e] = "stream" /\ Good(e) /\ UNCHANGED <<iopub, hand, work, prints, subs, replied, epc, shut, lost, socks>>
  BY ExecNumbers DEF ExecTypes, ExecGood, TakeIOPub, endVars, cellVars
<1>1. WorkInOrder' /\ LookedUp'
  BY <1>0 DEF ExecGood, WorkInOrder, LookedUp
<1>2. /\ NoWire(e)' = NoWire(e) /\ NoHand(e)' = NoHand(e) /\ NoWork(e)' = NoWork(e) /\ InHand(e)' = InHand(e)
      /\ Occur(IdleOf(e), iopub)' = Occur(IdleOf(e), iopub) /\ Times(iopub, OutOf(e))' = Times(iopub, OutOf(e))
  BY <1>0 DEF NoWire, NoHand, NoWork, InHand
<1>3. PICK c \in Seq(Kind) : c = ch[e]
  BY <1>0
<1>4. Unsent(e)'
  BY <1>0 DEF Unsent
<1>5. ASSUME c # <<>> PROVE Good(e)'
  <2>0. /\ Len(c) \in Nat /\ Len(c) >= 1 /\ Tail(c) \in Seq(Kind) /\ Len(Tail(c)) = Len(c) - 1 /\ Head(c) = c[1] /\ c[1] \in Kind
        /\ \A i \in 1..Len(Tail(c)) : Tail(c)[i] = c[i + 1]
    BY <1>5, HeadTailProperties, LenProperties, EmptySeq
  <2>1. ch' = [ch EXCEPT ![e] = Tail(c)] /\ IF c[1] = "idle" THEN idle' = [idle EXCEPT ![e] = TRUE] /\ owed' = owed
                                            ELSE owed' = [owed EXCEPT ![e] = @ - 1] /\ idle' = idle
    BY <1>3, <1>5, <2>0 DEF TakeIOPub
  <2>2. ch'[e] = Tail(c)
    BY <2>1, <1>0
  <2>3. Times(c, "out") = Times(Tail(c), "out") + (IF Head(c) = "out" THEN 1 ELSE 0)
    BY <1>5, TimesTail
  <2>4. \A i \in 1..Len(c) : c[i] = "idle" => i = Len(c)
    BY <1>0, <1>3 DEF Good, IdleIsLast
  <2>5. /\ Times(iopub, OutOf(e)) \in Nat /\ Times(c, "out") \in Nat /\ InHand(e) \in Nat
        /\ owed[e] \in Nat /\ Times(Tail(c), "out") \in Nat
    BY <1>3, UnderWayNumbers, TimesInNat, <2>0
  <2>6. CASE c[1] = "idle"
    <3>1. Len(c) = 1 /\ Occur("idle", c) /\ Tail(c) = <<>>
      <4>0. 1 \in 1..Len(c)
        BY <2>0
      <4>1. Len(c) = 1
        BY <4>0, <2>4, <2>6
      <4>2. Occur("idle", c)
        BY <4>1, <2>6 DEF Occur
      <4>3. Len(Tail(c)) = 0
        BY <4>1, <2>0
      <4> QED
        BY <4>1, <4>2, <4>3, <2>0, EmptySeq
    <3>2. NoWire(e) /\ NoHand(e) /\ NoWork(e)
      BY <3>1, <1>0, <1>3 DEF Good, IdleIsLast
    <3>3. idle'[e] = TRUE /\ owed'[e] = owed[e] /\ Times(c, "out") = Times(Tail(c), "out")
      BY <2>1, <2>6, <1>0, <2>3, <2>0, <2>5
    <3>4. IdleIsLast(e)'
      <4>1. \A i \in 1..Len(ch'[e]) : ch'[e][i] = "idle" => i = Len(ch'[e])
        BY <2>2, <3>1, <2>0
      <4> QED
        BY <4>1, <3>1, <3>2, <2>2, <1>2, <1>0 DEF IdleIsLast, Good
    <3>5. UnderWay(e)' = UnderWay(e)
      BY <3>3, <2>2, <1>2, <1>3 DEF UnderWay
    <3>6. Owes(e)'
      BY <3>5, <3>3, <3>2, <1>0, <1>2 DEF Owes, Good
    <3>7. Exact(e)'
      <4>1. SeesIdle(e) /\ SeesIdle(e)'
        BY <3>1, <3>3, <1>3 DEF SeesIdle
      <4> QED
        BY <4>1, <3>3, <2>2, <1>0, <1>3 DEF Exact, Good
    <3> QED
      BY <1>4, <3>4, <3>6, <3>7 DEF Good
  <2>7. CASE c[1] # "idle"
    <3>1. c[1] = "out" /\ idle' = idle /\ owed' = [owed EXCEPT ![e] = @ - 1]
      BY <2>0, <2>1, <2>7 DEF Kind
    <3>2. Times(c, "out") = Times(Tail(c), "out") + 1
      BY <3>1, <2>3, <2>0
    <3>3. UnderWay(e)' = UnderWay(e) - 1 /\ UnderWay(e) <= owed[e] /\ UnderWay(e) \in Nat
      BY <3>2, <2>2, <2>5, <1>0, <1>2, <1>3 DEF UnderWay, Good, Owes
    <3>4. owed'[e] = owed[e] - 1
      BY <3>1, <1>0
    <3>5. \A i \in 1..Len(Tail(c)) : i + 1 \in 1..Len(c) /\ Tail(c)[i] = c[i + 1]
      BY <2>0
    <3>6. Occur("idle", Tail(c)) <=> Occur("idle", c)
      <4>1. ASSUME NEW i \in 1..Len(c), c[i] = "idle" PROVE i - 1 \in 1..Len(Tail(c)) /\ Tail(c)[i - 1] = "idle"
        <5>1. i # 1
          BY <4>1, <2>7
        <5>2. i - 1 \in 1..Len(Tail(c)) /\ (i - 1) + 1 = i
          BY <5>1, <2>0
        <5>3. Tail(c)[i - 1] = c[(i - 1) + 1]
          BY <5>2, <2>0
        <5> QED
          BY <5>2, <5>3, <4>1
      <4>2. Occur("idle", c) => Occur("idle", Tail(c))
        BY <4>1 DEF Occur
      <4>3. Occur("idle", Tail(c)) => Occur("idle", c)
        BY <3>5 DEF Occur
      <4> QED
        BY <4>2, <4>3
    <3>7. IdleIsLast(e)'
      <4>1. \A i \in 1..Len(ch'[e]) : ch'[e][i] = "idle" => i = Len(ch'[e])
        <5>1. \A i \in 1..Len(Tail(c)) : Tail(c)[i] = "idle" => i + 1 = Len(c)
          BY <2>4, <3>5
        <5>2. ASSUME NEW i \in 1..Len(Tail(c)), i + 1 = Len(c) PROVE i = Len(Tail(c))
          <6>1. i \in Nat /\ Len(Tail(c)) = Len(c) - 1 /\ Len(c) \in Nat
            BY <2>0
          <6> QED
            BY <6>1, <5>2
        <5> QED
          BY <2>2, <5>1, <5>2
      <4>2. Occur("idle", ch[e])' <=> Occur("idle", ch[e])
        BY <3>6, <2>2, <1>3
      <4>3. ~(idle'[e] /\ ~shut'[e])
        BY <3>1, <1>0, <1>3, <1>5 DEF Good, IdleIsLast
      <4> QED
        BY <4>1, <4>2, <4>3, <3>1, <1>2, <1>0 DEF IdleIsLast, Good
    <3>8. Owes(e)'
      <4>1. prints \in Nat
        BY ExecNumbers DEF ExecTypes
      <4>2. ~NoWork(e) => owed[e] <= IF work[1] = e THEN prints ELSE 0
        BY <1>0 DEF Good, Owes
      <4>3. ~NoWork(e) => owed'[e] <= IF work[1] = e THEN prints ELSE 0
        BY <4>1, <4>2, <3>4, <2>5
      <4>4. UnderWay(e)' <= owed'[e]
        BY <3>3, <3>4, <2>5
      <4> QED
        BY <4>3, <4>4, <1>0, <1>2 DEF Owes
    <3>9. Exact(e)'
      <4>1. SeesIdle(e)' <=> SeesIdle(e)
        BY <3>1, <3>6, <2>2, <1>0, <1>3 DEF SeesIdle
      <4>2. ~lost[e] /\ ~shut[e] /\ SeesIdle(e) => owed'[e] = Times(Tail(c), "out")
        <5>1. ~lost[e] /\ ~shut[e] /\ SeesIdle(e) => owed[e] = Times(c, "out")
          BY <1>0, <1>3 DEF Good, Exact
        <5> QED
          BY <5>1, <3>2, <3>4, <2>5
      <4>3. ~lost[e] /\ ~shut[e] /\ ~SeesIdle(e) /\ e \in subs /\ socks => owed'[e] = UnderWay(e)'
        <5>1. ~lost[e] /\ ~shut[e] /\ ~SeesIdle(e) /\ e \in subs /\ socks => owed[e] = UnderWay(e)
          BY <1>0 DEF Good, Exact
        <5> QED
          BY <5>1, <3>3, <3>4
      <4> QED
        BY <4>1, <4>2, <4>3, <2>2, <1>0 DEF Exact
    <3> QED
      BY <1>4, <3>7, <3>8, <3>9 DEF Good
  <2> QED
    BY <2>6, <2>7
<1>6. ASSUME c = <<>> PROVE Good(e)'
  <2>1. shut[e] /\ owed' = owed /\ ch' = ch /\ shut'[e]
    BY <1>3, <1>6, <1>0 DEF TakeIOPub
  <2>2. Exact(e)'
    BY <2>1 DEF Exact
  <2>3. IdleIsLast(e)'
    BY <2>1, <1>0, <1>2 DEF Good, IdleIsLast
  <2>4. Owes(e)'
    <3>1. UnderWay(e)' = UnderWay(e)
      BY <2>1, <1>2 DEF UnderWay
    <3> QED
      BY <3>1, <2>1, <1>0, <1>2 DEF Good, Owes
  <2> QED
    BY <1>4, <2>2, <2>3, <2>4 DEF Good
<1>7. ASSUME NEW f \in Exec, f # e PROVE Good(f)'
  <2>1. Good(f) /\ Aside(f)
    BY <1>7, HandlerAside DEF ExecGood
  <2> QED
    BY <2>1, AsideStays
<1> QED
  BY <1>1, <1>5, <1>6, <1>7 DEF ExecGood\* What the kernel and the loop leave alone of an execution.
HandlersStay == UNCHANGED <<epc, idle, answered, subs, shut>>

\* The kernel dies: its cells go, and with the sockets what was on the wire.
LEMMA KernelGoneGood ==
    ASSUME ExecTypes, ExecTypes', ExecGood, KillKernel \/ ProcessEnds
    PROVE  ExecGood'
<1>0. /\ HandlersStay /\ UNCHANGED <<owed, ch, lost, hand>> /\ work' = <<>> /\ prints' = 0 /\ replied' = FALSE
      /\ (socks' => socks) /\ (iopub' = iopub \/ (iopub' = <<>> /\ ~socks'))
  BY DEF KillKernel, ProcessEnds, Gone, streamVars, chanVars, endVars, HandlersStay
<1>1. Len(<<>>) = 0
  OBVIOUS
<1>2. WorkInOrder' /\ LookedUp'
  BY <1>0, <1>1 DEF ExecGood, WorkInOrder, LookedUp, HandlersStay
<1>3. ASSUME NEW e \in Exec PROVE Good(e)'
  <2>0. Good(e)
    BY DEF ExecGood
  <2>1. NoWork(e)' /\ (NoWire(e) => NoWire(e)') /\ NoHand(e)' = NoHand(e) /\ InHand(e)' = InHand(e)
    BY <1>0, <1>1 DEF NoWork, NoWire, NoHand, InHand, Occur
  <2>2. SeesIdle(e)' = SeesIdle(e)
    BY <1>0 DEF SeesIdle, HandlersStay
  <2>3. (socks' => UnderWay(e)' = UnderWay(e)) /\ UnderWay(e)' <= UnderWay(e) /\ UnderWay(e)' \in Nat
    <3>1. UnderWay(e) \in Nat /\ Times(iopub, OutOf(e)) \in Nat /\ Times(ch[e], "out") \in Nat /\ InHand(e) \in Nat
      BY UnderWayNumbers DEF UnderWay
    <3>2. CASE iopub' = iopub
      <4>1. UnderWay(e)' = UnderWay(e)
        BY <1>0, <2>1, <3>2 DEF UnderWay
      <4> QED
        BY <3>1, <4>1
    <3>3. CASE iopub' = <<>> /\ ~socks'
      <4>1. Times(iopub', OutOf(e)) = 0
        BY <3>3, TimesEmpty
      <4>2. UnderWay(e)' = 0 + InHand(e) + Times(ch[e], "out")
        BY <4>1, <1>0, <2>1 DEF UnderWay
      <4> QED
        BY <3>1, <3>3, <4>2 DEF UnderWay
    <3> QED
      BY <1>0, <3>2, <3>3
  <2>4. Unsent(e)'
    BY <1>0, <2>0, <2>1 DEF Good, Unsent, HandlersStay
  <2>5. IdleIsLast(e)'
    <3>1. (\A i, j \in 1..Len(iopub) : i < j /\ iopub[i] = IdleOf(e) => iopub[j].of # e)'
      BY <1>0, <1>1, <2>0 DEF Good, IdleIsLast
    <3> QED
      BY <3>1, <1>0, <2>0, <2>1 DEF Good, IdleIsLast, HandlersStay
  <2>6. Owes(e)'
    <3>1. UnderWay(e) \in Nat /\ UnderWay(e)' \in Nat /\ owed[e] \in Nat
      BY UnderWayNumbers, <2>3 DEF UnderWay
    <3>2. epc[e] = "stream" => UnderWay(e)' <= owed[e]
      BY <3>1, <2>0, <2>3 DEF Good, Owes
    <3> QED
      BY <3>2, <1>0, <2>1 DEF Owes, HandlersStay
  <2>7. Exact(e)'
    BY <1>0, <2>0, <2>2, <2>3 DEF Good, Exact, HandlersStay
  <2> QED
    BY <2>4, <2>5, <2>6, <2>7 DEF Good
<1> QED
  BY <1>2, <1>3 DEF ExecGood

\* A cell that waits or runs: nothing of its end is anywhere.
LEMMA Working ==
    ASSUME NEW e \in Exec, Good(e), ~NoWork(e)
    PROVE  /\ epc[e] \notin {"new", "subscribe", "send"}
           /\ \A i \in 1..Len(iopub) : iopub[i] # IdleOf(e)
           /\ ~(hand # NoMsg /\ hand.of = e /\ hand.kind = "idle")
           /\ ~Occur("idle", ch[e]) /\ ~(idle[e] /\ ~shut[e])
BY DEF Good, Unsent, IdleIsLast, Occur

\* The kernel publishes something of its first cell.
LEMMA Published ==
    ASSUME ExecTypes, NEW m \in Kind, work # <<>>, Publish(m)
    PROVE  /\ Head(work) = work[1] /\ work[1] \in Exec /\ 1 \in 1..Len(work) /\ ~NoWork(work[1])
           /\ [of |-> work[1], kind |-> m] \in Wire /\ iopub \in Seq(Wire)
           /\ iopub' = Append(iopub, [of |-> work[1], kind |-> m])
<1>1. PICK q \in Seq(Exec) : q = work
  BY DEF ExecTypes
<1>2. Head(q) = q[1] /\ q[1] \in Exec /\ 1 \in 1..Len(q)
  BY <1>1, HeadTailProperties, EmptySeq, LenProperties
<1>3. [of |-> q[1], kind |-> m] \in Wire
  BY <1>2 DEF Wire
<1>4. iopub \in Seq(Wire)
  BY DEF ExecTypes, Wire
<1> QED
  BY <1>1, <1>2, <1>3, <1>4 DEF Publish, NoWork, Occur

\* A cell prints.
LEMMA PrintGood ==
    ASSUME ExecTypes, ExecTypes', ExecGood, CellPrints
    PROVE  ExecGood'
<1>0. /\ HandlersStay /\ UNCHANGED <<ch, lost, hand, work, replied, socks>> /\ prints' = prints + 1 /\ work # <<>>
      /\ Publish("out")
  BY DEF CellPrints, chanVars, endVars, HandlersStay
<1>a. PICK e \in Exec : e = work[1]
  BY <1>0, Published DEF Kind
<1>1. /\ Head(work) = e /\ e \in Exec /\ ~NoWork(e) /\ OutOf(e) \in Wire /\ iopub \in Seq(Wire)
      /\ iopub' = Append(iopub, OutOf(e))
  BY <1>0, <1>a, Published DEF Kind, OutOf
<1>2. owed \in [Exec -> 0..MaxOut] /\ prints \in Nat /\ MaxOut \in Nat
  BY ExecNumbers DEF ExecTypes
<1>3. owed' = IF epc[e] = "stream" THEN [owed EXCEPT ![e] = @ + 1] ELSE owed
  BY <1>1 DEF CellPrints
<1>4. WorkInOrder' /\ LookedUp'
  BY <1>0 DEF ExecGood, WorkInOrder, LookedUp, HandlersStay
<1>5. ASSUME NEW f \in Exec, f # e PROVE Good(f)'
  <2>1. Alike(f, iopub, iopub')
    <3>1. OutOf(e).of # f
      BY <1>5 DEF OutOf
    <3> QED
      BY <3>1, <1>1, AlikeAppend
  <2>2. owed'[f] = owed[f]
    BY <1>2, <1>3, <1>5
  <2>3. work[1] # f
    BY <1>5, <1>a
  <2>4. Aside(f)
    BY <2>1, <2>2, <2>3, <1>0 DEF Aside, HandlersStay
  <2> QED
    BY <2>4, AsideStays DEF ExecGood
<1>6. Good(e)'
  <2>0. Good(e)
    BY <1>1 DEF ExecGood
  <2>1. /\ epc[e] \notin {"new", "subscribe", "send"} /\ (\A i \in 1..Len(iopub) : iopub[i] # IdleOf(e))
        /\ ~(hand # NoMsg /\ hand.of = e /\ hand.kind = "idle") /\ ~Occur("idle", ch[e]) /\ ~(idle[e] /\ ~shut[e])
    BY <1>1, <2>0, Working
  <2>2. \A i \in 1..Len(iopub') : iopub'[i] # IdleOf(e)
    <3>1. /\ Len(iopub') = Len(iopub) + 1 /\ iopub'[Len(iopub) + 1] = OutOf(e) /\ Len(iopub) \in Nat
          /\ \A i \in 1..Len(iopub) : iopub'[i] = iopub[i]
      BY <1>1, AppendProperties, LenProperties
    <3>2. \A i : i \in 1..(Len(iopub) + 1) <=> i \in 1..Len(iopub) \/ i = Len(iopub) + 1
      BY <3>1
    <3>3. OutOf(e) # IdleOf(e)
      BY DEF OutOf, IdleOf
    <3> QED
      BY <3>1, <3>2, <3>3, <2>1
  <2>3. Unsent(e)'
    BY <1>0, <2>1 DEF Unsent, HandlersStay
  <2>4. IdleIsLast(e)'
    <3>1. /\ ~Occur(IdleOf(e), iopub)'
          /\ (\A i, j \in 1..Len(iopub) : i < j /\ iopub[i] = IdleOf(e) => iopub[j].of # e)'
      BY <2>2 DEF Occur
    <3>2. ~Occur("idle", ch[e])' /\ ~(idle'[e] /\ ~shut'[e]) /\ ~(hand' # NoMsg /\ hand'.of = e /\ hand'.kind = "idle")
      BY <1>0, <2>1 DEF HandlersStay
    <3>3. \A i \in 1..Len(ch'[e]) : ch'[e][i] = "idle" => i = Len(ch'[e])
      BY <1>0, <2>0 DEF Good, IdleIsLast
    <3> QED
      BY <3>1, <3>2, <3>3 DEF IdleIsLast
  <2>5. UnderWay(e)' = UnderWay(e) + 1 /\ UnderWay(e) \in Nat
    <3>1. Times(iopub', OutOf(e)) = Times(iopub, OutOf(e)) + 1
      BY <1>1, TimesAppend
    <3>2. Times(iopub, OutOf(e)) \in Nat /\ Times(ch[e], "out") \in Nat /\ InHand(e) \in Nat
      BY <1>1, UnderWayNumbers
    <3>3. InHand(e)' = InHand(e) /\ ch'[e] = ch[e]
      BY <1>0 DEF InHand
    <3> QED
      BY <3>1, <3>2, <3>3 DEF UnderWay
  <2>6. (epc[e] = "stream" => owed'[e] = owed[e] + 1) /\ (epc[e] # "stream" => owed'[e] = owed[e]) /\ owed[e] \in Nat
    BY <1>1, <1>2, <1>3
  <2>7. Owes(e)'
    <3>1. owed[e] <= prints
      BY <2>0, <1>1, <1>a DEF Good, Owes
    <3>2. owed'[e] <= prints'
      BY <3>1, <2>6, <1>0, <1>2
    <3>3. work'[1] = e
      BY <1>0, <1>a
    <3>4. epc'[e] = "stream" => UnderWay(e)' <= owed'[e]
      BY <2>0, <2>5, <2>6, <1>0 DEF Good, Owes, HandlersStay
    <3> QED
      BY <3>2, <3>3, <3>4 DEF Owes
  <2>8. Exact(e)'
    <3>1. shut[e] \/ (~SeesIdle(e) /\ ~SeesIdle(e)')
      BY <2>1, <1>0 DEF SeesIdle, HandlersStay
    <3> QED
      BY <3>1, <2>0, <2>5, <2>6, <1>0 DEF Good, Exact, HandlersStay
  <2> QED
    BY <2>3, <2>4, <2>7, <2>8 DEF Good
<1> QED
  BY <1>4, <1>5, <1>6 DEF ExecGood\* The kernel is idle again.
LEMMA IdleGood ==
    ASSUME ExecTypes, ExecTypes', ExecGood, CellIdle
    PROVE  ExecGood'
<1>0. /\ HandlersStay /\ UNCHANGED <<owed, ch, lost, hand, socks>> /\ prints' = 0 /\ replied' = FALSE /\ work # <<>>
      /\ Publish("idle") /\ work' = Tail(work)
  BY DEF CellIdle, chanVars, endVars, streamVars, HandlersStay, ExecGood, WorkInOrder
<1>a. PICK e \in Exec : e = work[1]
  BY <1>0, Published DEF Kind
<1>1. /\ Head(work) = e /\ e \in Exec /\ ~NoWork(e) /\ IdleOf(e) \in Wire /\ iopub \in Seq(Wire)
      /\ iopub' = Append(iopub, IdleOf(e))
  BY <1>0, <1>a, Published DEF Kind, IdleOf
<1>2. PICK q \in Seq(Exec) : q = work
  BY DEF ExecTypes
<1>3. /\ Len(q) \in Nat /\ Len(q) >= 1 /\ Len(Tail(q)) = Len(q) - 1 /\ \A i \in 1..Len(Tail(q)) : Tail(q)[i] = q[i + 1]
  BY <1>0, <1>2, HeadTailProperties, LenProperties, EmptySeq
<1>4. \A i \in 1..Len(Tail(q)) : i \in Int /\ i + 1 \in 1..Len(q) /\ i + 1 # 1 /\ Tail(q)[i] = q[i + 1]
  BY <1>3
<1>5. \A i, j \in 1..Len(q) : q[i] = q[j] => i = j
  BY <1>2 DEF ExecGood, WorkInOrder
<1>6. WorkInOrder' /\ LookedUp'
  <2>1. \A i, j \in 1..Len(Tail(q)) : Tail(q)[i] = Tail(q)[j] => i = j
    <3> SUFFICES ASSUME NEW i \in 1..Len(Tail(q)), NEW j \in 1..Len(Tail(q)), Tail(q)[i] = Tail(q)[j] PROVE i = j
      OBVIOUS
    <3>1. i + 1 = j + 1 /\ i \in Int /\ j \in Int
      BY <1>4, <1>5
    <3> QED
      BY <3>1
  <2>2. WorkInOrder'
    BY <2>1, <1>0, <1>2 DEF WorkInOrder
  <2> QED
    BY <2>2, <1>0 DEF ExecGood, LookedUp, HandlersStay
<1>7. \A f \in Exec : Occur(f, work') => Occur(f, work) /\ f # e
  <2> SUFFICES ASSUME NEW i \in 1..Len(Tail(q)) PROVE Occur(Tail(q)[i], q) /\ Tail(q)[i] # q[1]
    BY <1>0, <1>2, <1>a DEF Occur
  <2>1. i + 1 \in 1..Len(q) /\ 1 \in 1..Len(q) /\ i + 1 # 1 /\ Tail(q)[i] = q[i + 1]
    BY <1>3, <1>4
  <2> QED
    BY <2>1, <1>5 DEF Occur
<1>8. ASSUME NEW f \in Exec, f # e PROVE Good(f)'
  <2>1. Alike(f, iopub, iopub')
    <3>1. IdleOf(e).of # f
      BY <1>8 DEF IdleOf
    <3> QED
      BY <3>1, <1>1, AlikeAppend
  <2>2. work[1] # f
    BY <1>8, <1>a
  <2>3. Aside(f)
    BY <2>1, <2>2, <1>0, <1>7 DEF Aside, HandlersStay
  <2> QED
    BY <2>3, AsideStays DEF ExecGood
<1>9. Good(e)'
  <2>0. Good(e)
    BY DEF ExecGood
  <2>1. /\ epc[e] \notin {"new", "subscribe", "send"} /\ (\A i \in 1..Len(iopub) : iopub[i] # IdleOf(e))
        /\ ~(hand # NoMsg /\ hand.of = e /\ hand.kind = "idle") /\ ~Occur("idle", ch[e]) /\ ~(idle[e] /\ ~shut[e])
    BY <1>1, <2>0, Working
  <2>2. NoWork(e)'
    BY <1>7 DEF NoWork
  <2>3. Unsent(e)'
    BY <1>0, <2>1 DEF Unsent, HandlersStay
  <2>4. IdleIsLast(e)'
    <3>1. \A i, j \in 1..Len(iopub') : i < j => iopub'[i] # IdleOf(e)
      <4>1. /\ Len(iopub') = Len(iopub) + 1 /\ Len(iopub) \in Nat
            /\ \A i \in 1..Len(iopub) : iopub'[i] = iopub[i]
        BY <1>1, AppendProperties, LenProperties
      <4>2. \A i, j \in 1..Len(iopub') : i < j => i \in 1..Len(iopub)
        BY <4>1
      <4> QED
        BY <4>1, <4>2, <2>1
    <3>2. ~Occur("idle", ch[e])' /\ ~(idle'[e] /\ ~shut'[e]) /\ ~(hand' # NoMsg /\ hand'.of = e /\ hand'.kind = "idle")
      BY <1>0, <2>1 DEF HandlersStay
    <3>3. \A i \in 1..Len(ch'[e]) : ch'[e][i] = "idle" => i = Len(ch'[e])
      BY <1>0, <2>0 DEF Good, IdleIsLast
    <3> QED
      BY <3>1, <3>2, <3>3, <2>2 DEF IdleIsLast
  <2>5. UnderWay(e)' = UnderWay(e)
    <3>1. Times(iopub', OutOf(e)) = Times(iopub, OutOf(e)) + 0
      <4>1. IdleOf(e) # OutOf(e)
        BY DEF IdleOf, OutOf
      <4> QED
        BY <4>1, <1>1, TimesAppend
    <3>2. Times(iopub, OutOf(e)) \in Nat
      BY UnderWayNumbers
    <3>3. InHand(e)' = InHand(e) /\ ch'[e] = ch[e]
      BY <1>0 DEF InHand
    <3>4. Times(iopub', OutOf(e)) = Times(iopub, OutOf(e))
      BY <3>1, <3>2
    <3> QED
      BY <3>3, <3>4 DEF UnderWay
  <2>6. Owes(e)'
    BY <2>0, <2>2, <2>5, <1>0 DEF Owes, Good, HandlersStay
  <2>7. Exact(e)'
    <3>1. shut[e] \/ (~SeesIdle(e) /\ ~SeesIdle(e)')
      BY <2>1, <1>0 DEF SeesIdle, HandlersStay
    <3> QED
      BY <3>1, <2>0, <2>5, <1>0 DEF Good, Exact, HandlersStay
  <2> QED
    BY <2>3, <2>4, <2>6, <2>7 DEF Good
<1> QED
  BY <1>6, <1>8, <1>9 DEF ExecGood

\* The loop takes a message off the wire.
LEMMA DispatchGood ==
    ASSUME ExecTypes, ExecTypes', ExecGood, Dispatch
    PROVE  ExecGood'
<1>0. /\ HandlersStay /\ UNCHANGED <<owed, ch, lost, work, replied, prints, socks>> /\ hand = NoMsg /\ iopub # <<>>
      /\ iopub' = Tail(iopub) /\ socks
  BY DEF Dispatch, chanVars, endVars, streamVars, HandlersStay
<1>1. PICK q \in Seq(Wire) : q = iopub
  BY DEF ExecTypes, Wire
<1>2. /\ Len(q) \in Nat /\ Len(q) >= 1 /\ Tail(q) \in Seq(Wire) /\ Len(Tail(q)) = Len(q) - 1 /\ Head(q) = q[1] /\ q[1] \in Wire
      /\ \A i \in 1..Len(Tail(q)) : Tail(q)[i] = q[i + 1]
  BY <1>0, <1>1, HeadTailProperties, LenProperties, EmptySeq
<1>3. PICK e \in Exec, m \in Kind : q[1] = [of |-> e, kind |-> m]
  BY <1>2 DEF Wire
<1>4. hand' = [of |-> e, kind |-> m, sub |-> e \in subs] /\ hand' # NoMsg
  <2>1. hand' = [of |-> e, kind |-> m, sub |-> e \in subs]
    BY <1>1, <1>2, <1>3 DEF Dispatch
  <2>2. hand' \in [of : Exec, kind : {"out", "idle"}, sub : BOOLEAN]
    BY <2>1 DEF Kind
  <2> QED
    BY <2>1, <2>2, ExecConstants
<1>5. WorkInOrder' /\ LookedUp'
  BY <1>0, <1>4 DEF ExecGood, WorkInOrder, LookedUp, HandlersStay
<1>6. ASSUME NEW f \in Exec, f # e PROVE Good(f)'
  <2>1. Alike(f, iopub, iopub')
    BY <1>0, <1>1, <1>2, <1>3, <1>6, AlikeTail
  <2>2. Aside(f)
    BY <2>1, <1>0, <1>4, <1>6 DEF Aside, HandlersStay, NoHand
  <2> QED
    BY <2>2, AsideStays DEF ExecGood
<1>7. Good(e)'
  <2>0. Good(e) /\ ~NoWire(e) /\ InHand(e) = 0
    <3>1. 1 \in 1..Len(iopub) /\ iopub[1].of = e
      BY <1>1, <1>2, <1>3
    <3> QED
      BY <3>1, <1>0 DEF ExecGood, NoWire, InHand
  <2>1. ~Occur("idle", ch[e]) /\ ~(idle[e] /\ ~shut[e])
    BY <2>0 DEF Good, IdleIsLast
  <2>2. Unsent(e)'
    BY <2>0, <1>0 DEF Good, Unsent, HandlersStay
  <2>3. \A i \in 1..Len(Tail(q)) : i \in Int /\ i + 1 \in 1..Len(q) /\ 1 < i + 1 /\ Tail(q)[i] = q[i + 1]
    BY <1>2
  <2>4. Times(q, OutOf(e)) = Times(Tail(q), OutOf(e)) + (IF Head(q) = OutOf(e) THEN 1 ELSE 0)
    BY <1>0, <1>1, TimesTail
  <2>5. Times(Tail(q), OutOf(e)) \in Nat /\ Times(ch[e], "out") \in Nat
    BY <1>2, TimesInNat, UnderWayNumbers
  <2>6. UnderWay(e)' = UnderWay(e)
    <3>1. CASE m = "out"
      <4>1. InHand(e)' = 1
        BY <3>1, <1>4 DEF InHand
      <4>2. Times(q, OutOf(e)) = Times(Tail(q), OutOf(e)) + 1
        BY <3>1, <2>4, <1>2, <1>3 DEF OutOf
      <4> QED
        BY <4>1, <4>2, <2>0, <2>5, <1>0, <1>1 DEF UnderWay
    <3>2. CASE m = "idle"
      <4>1. InHand(e)' = 0
        BY <3>2, <1>4 DEF InHand
      <4>2. Times(q, OutOf(e)) = Times(Tail(q), OutOf(e)) + 0
        BY <3>2, <2>4, <1>2, <1>3 DEF OutOf
      <4> QED
        BY <4>1, <4>2, <2>0, <2>5, <1>0, <1>1 DEF UnderWay
    <3> QED
      BY <3>1, <3>2 DEF Kind
  <2>7. m = "idle" => NoWire(e)' /\ NoWork(e)'
    <3> SUFFICES ASSUME m = "idle" PROVE NoWire(e)' /\ NoWork(e)'
      OBVIOUS
    <3>1. 1 \in 1..Len(q) /\ q[1] = IdleOf(e)
      BY <1>2, <1>3 DEF IdleOf
    <3>2. NoWork(e)
      BY <3>1, <2>0, <1>1 DEF Good, IdleIsLast, Occur
    <3>3. \A j \in 1..Len(q) : 1 < j => q[j].of # e
      BY <3>1, <2>0, <1>1 DEF Good, IdleIsLast
    <3>4. \A i \in 1..Len(Tail(q)) : Tail(q)[i].of # e
      BY <3>3, <2>3
    <3> QED
      BY <3>2, <3>4, <1>0, <1>1 DEF NoWork, NoWire
  <2>8. IdleIsLast(e)'
    <3>1. \A i, j \in 1..Len(Tail(q)) : i < j /\ Tail(q)[i] = IdleOf(e) => Tail(q)[j].of # e
      <4>1. \A i, j \in 1..Len(q) : i < j /\ q[i] = IdleOf(e) => q[j].of # e
        BY <2>0, <1>1 DEF Good, IdleIsLast
      <4>2. \A i, j \in 1..Len(Tail(q)) : i < j => i + 1 < j + 1
        BY <2>3
      <4> QED
        BY <4>1, <4>2, <2>3
    <3>2. Occur(IdleOf(e), Tail(q)) => NoWork(e)
      <4>1. Occur(IdleOf(e), Tail(q)) => Occur(IdleOf(e), q)
        BY <2>3 DEF Occur
      <4> QED
        BY <4>1, <2>0, <1>1 DEF Good, IdleIsLast
    <3>3. ~Occur("idle", ch[e])' /\ ~(idle'[e] /\ ~shut'[e])
      BY <2>1, <1>0 DEF HandlersStay
    <3>4. hand'.kind = m /\ hand'.of = e
      BY <1>4
    <3>5. \A i \in 1..Len(ch'[e]) : ch'[e][i] = "idle" => i = Len(ch'[e])
      BY <1>0, <2>0 DEF Good, IdleIsLast
    <3>6. Occur(IdleOf(e), iopub)' => NoWork(e)'
      BY <3>2, <1>0, <1>1 DEF NoWork
    <3>7. (\A i, j \in 1..Len(iopub) : i < j /\ iopub[i] = IdleOf(e) => iopub[j].of # e)'
      BY <3>1, <1>0, <1>1
    <3> QED
      BY <3>3, <3>4, <3>5, <3>6, <3>7, <2>7 DEF IdleIsLast
  <2>9. Owes(e)'
    <3>1. NoWork(e)' = NoWork(e)
      BY <1>0 DEF NoWork
    <3> QED
      BY <3>1, <2>0, <2>6, <1>0 DEF Good, Owes, HandlersStay
  <2>10. Exact(e)'
    <3> SUFFICES ASSUME epc[e] = "stream", ~lost[e], ~shut[e]
                 PROVE  /\ SeesIdle(e)' => owed[e] = Times(ch[e], "out")
                        /\ ~SeesIdle(e)' /\ e \in subs /\ socks => owed[e] = UnderWay(e)
      BY <2>6, <1>0 DEF Exact, HandlersStay
    <3>1. ~SeesIdle(e)
      BY <2>1, <1>0 DEF SeesIdle
    <3>2. e \in subs => owed[e] = UnderWay(e)
      BY <3>1, <2>0, <1>0 DEF Good, Exact
    <3>3. SeesIdle(e)' => m = "idle" /\ e \in subs
      BY <2>1, <1>0, <1>4 DEF SeesIdle, HandlersStay
    <3>4. SeesIdle(e)' => owed[e] = Times(ch[e], "out")
      <4> SUFFICES ASSUME m = "idle", e \in subs PROVE owed[e] = Times(ch[e], "out")
        BY <3>3
      <4>1. \A i \in 1..Len(iopub') : iopub'[i] # OutOf(e)
        BY <2>7 DEF NoWire, OutOf
      <4>2. Times(iopub', OutOf(e)) = 0
        BY <4>1, TimesNone
      <4>3. InHand(e)' = 0
        BY <1>4 DEF InHand
      <4> QED
        BY <4>2, <4>3, <3>2, <2>5, <2>6, <1>0 DEF UnderWay
    <3> QED
      BY <3>2, <3>4
  <2> QED
    BY <2>2, <2>8, <2>9, <2>10 DEF Good
<1> QED
  BY <1>5, <1>6, <1>7 DEF ExecGood\* The loop sends what it holds to its subscription, or drops it.
LEMMA DispatchSendGood ==
    ASSUME ExecTypes, ExecTypes', ExecGood, DispatchSend
    PROVE  ExecGood'
<1>0. /\ HandlersStay /\ UNCHANGED <<owed, work, replied, prints, socks, iopub>> /\ hand # NoMsg /\ hand' = NoMsg
  BY DEF DispatchSend, cellVars, endVars, streamVars, HandlersStay
<1>1. PICK e \in Exec, m \in Kind, b \in BOOLEAN : hand = [of |-> e, kind |-> m, sub |-> b]
  BY <1>0 DEF ExecTypes
<1>2. ch \in [Exec -> Seq(Kind)] /\ lost \in [Exec -> BOOLEAN]
  BY DEF ExecTypes
<1>3. \/ ch' = ch /\ (~b \/ shut[e]) /\ lost' = lost
      \/ ch' = ch /\ lost' = [lost EXCEPT ![e] = TRUE]
      \/ b /\ ~shut[e] /\ lost' = lost /\ ch' = [ch EXCEPT ![e] = Append(ch[e], m)]
  BY <1>1 DEF DispatchSend
<1>4. WorkInOrder' /\ LookedUp'
  BY <1>0 DEF ExecGood, WorkInOrder, LookedUp, HandlersStay
<1>5. ASSUME NEW f \in Exec, f # e PROVE Good(f)'
  <2>1. Alike(f, iopub, iopub')
    BY <1>0 DEF Alike
  <2>2. ch'[f] = ch[f] /\ lost'[f] = lost[f]
    BY <1>2, <1>3, <1>5
  <2>3. NoHand(f)
    BY <1>1, <1>5 DEF NoHand
  <2>4. Aside(f)
    BY <2>1, <2>2, <2>3, <1>0 DEF Aside, HandlersStay
  <2> QED
    BY <2>4, AsideStays DEF ExecGood
<1>6. Good(e)'
  <2>0. Good(e) /\ ~NoHand(e) /\ NoHand(e)' /\ InHand(e)' = 0
    BY <1>0, <1>1 DEF ExecGood, NoHand, InHand
  <2>1. ~Occur("idle", ch[e]) /\ ~(idle[e] /\ ~shut[e])
    BY <2>0 DEF Good, IdleIsLast
  <2>2. Unsent(e)'
    BY <2>0, <1>0 DEF Good, Unsent, HandlersStay
  <2>3. /\ NoWire(e)' = NoWire(e) /\ NoWork(e)' = NoWork(e) /\ Times(iopub, OutOf(e))' = Times(iopub, OutOf(e))
        /\ Occur(IdleOf(e), iopub)' = Occur(IdleOf(e), iopub)
    BY <1>0 DEF NoWire, NoWork
  <2>4. Times(iopub, OutOf(e)) \in Nat /\ Times(ch[e], "out") \in Nat /\ InHand(e) \in Nat
    BY UnderWayNumbers
  <2>5. CASE ch' = ch /\ ((~b \/ shut[e]) \/ lost' = [lost EXCEPT ![e] = TRUE])
    <3>1. IdleIsLast(e)'
      BY <2>0, <2>1, <2>3, <2>5, <1>0 DEF Good, IdleIsLast, HandlersStay
    <3>2. UnderWay(e)' <= UnderWay(e) /\ UnderWay(e)' \in Nat /\ UnderWay(e) \in Nat /\ owed[e] \in Nat
      BY <2>0, <2>3, <2>4, <2>5, UnderWayNumbers DEF UnderWay
    <3>3. Owes(e)'
      <4>1. epc[e] = "stream" => UnderWay(e)' <= owed[e]
        BY <3>2, <2>0 DEF Good, Owes
      <4> QED
        BY <4>1, <2>0, <2>3, <1>0 DEF Good, Owes, HandlersStay
    <3>4. Exact(e)'
      <4>1. CASE shut[e] \/ lost'[e]
        BY <4>1, <1>0 DEF Exact, HandlersStay
      <4>2. CASE ~b /\ ~lost'[e] /\ ~shut[e]
        <5>1. e \notin subs'
          BY <4>2, <1>0, <1>1 DEF ExecGood, LookedUp, HandlersStay
        <5>2. ~SeesIdle(e)'
          BY <2>1, <2>5, <4>2, <1>0 DEF SeesIdle, HandlersStay
        <5> QED
          BY <5>1, <5>2 DEF Exact
      <4>3. lost' = [lost EXCEPT ![e] = TRUE] => lost'[e]
        BY <1>2
      <4> QED
        BY <4>1, <4>2, <4>3, <2>5
    <3> QED
      BY <2>2, <3>1, <3>3, <3>4 DEF Good
  <2>6. CASE b /\ ~shut[e] /\ lost' = lost /\ ch' = [ch EXCEPT ![e] = Append(ch[e], m)]
    <3>1. PICK c \in Seq(Kind) : c = ch[e]
      BY <1>2
    <3>2. ch'[e] = Append(c, m)
      BY <2>6, <3>1, <1>2
    <3>3. /\ Len(Append(c, m)) = Len(c) + 1 /\ Append(c, m)[Len(c) + 1] = m /\ Len(c) \in Nat
          /\ \A i \in 1..Len(c) : Append(c, m)[i] = c[i]
      BY AppendProperties, LenProperties
    <3>4. \A i : i \in 1..(Len(c) + 1) <=> i \in 1..Len(c) \/ i = Len(c) + 1
      BY <3>3
    <3>5. \A i \in 1..Len(c) : c[i] # "idle"
      BY <2>1, <3>1 DEF Occur
    <3>6. \A i \in 1..Len(ch'[e]) : ch'[e][i] = "idle" => i = Len(ch'[e])
      BY <3>2, <3>3, <3>4, <3>5
    <3>7. Occur("idle", ch'[e]) <=> m = "idle"
      <4>1. Len(c) + 1 \in 1..Len(ch'[e])
        BY <3>2, <3>3, <3>4
      <4> QED
        BY <4>1, <3>2, <3>3, <3>4, <3>5 DEF Occur
    <3>8. m = "idle" => NoWire(e) /\ NoWork(e)
      BY <1>0, <1>1, <2>0 DEF Good, IdleIsLast
    <3>9. ~idle'[e] /\ ~shut'[e]
      BY <1>0, <2>1, <2>6 DEF HandlersStay
    <3>10. IdleIsLast(e)'
      BY <3>6, <3>7, <3>8, <3>9, <2>0, <2>3, <1>0 DEF Good, IdleIsLast
    <3>11. Times(Append(c, m), "out") = Times(c, "out") + (IF m = "out" THEN 1 ELSE 0)
      BY TimesAppend
    <3>12. InHand(e) = IF m = "out" THEN 1 ELSE 0
      BY <1>0, <1>1 DEF InHand
    <3>13. UnderWay(e)' = UnderWay(e)
      BY <3>1, <3>2, <3>11, <3>12, <2>0, <2>3, <2>4 DEF UnderWay
    <3>14. Owes(e)'
      BY <3>13, <2>0, <2>3, <1>0 DEF Good, Owes, HandlersStay
    <3>15. Exact(e)'
      <4> SUFFICES ASSUME epc[e] = "stream", ~lost[e]
                   PROVE  /\ SeesIdle(e)' => owed[e] = Times(ch'[e], "out")
                          /\ ~SeesIdle(e)' /\ e \in subs /\ socks => owed[e] = UnderWay(e)
        BY <3>13, <2>6, <1>0 DEF Exact, HandlersStay
      <4>1. SeesIdle(e) <=> m = "idle"
        BY <1>0, <1>1, <2>1, <2>6 DEF SeesIdle
      <4>2. SeesIdle(e)' <=> m = "idle"
        BY <3>7, <3>9, <1>0 DEF SeesIdle
      <4>3. (m = "idle" => owed[e] = Times(c, "out")) /\ (m # "idle" /\ e \in subs /\ socks => owed[e] = UnderWay(e))
        BY <4>1, <2>0, <2>6, <3>1 DEF Good, Exact
      <4>4. m = "idle" => Times(ch'[e], "out") = Times(c, "out")
        BY <3>1, <3>2, <3>11, <2>4
      <4> QED
        BY <4>2, <4>3, <4>4
    <3> QED
      BY <2>2, <3>10, <3>14, <3>15 DEF Good
  <2> QED
    BY <1>3, <2>5, <2>6
<1> QED
  BY <1>4, <1>5, <1>6 DEF ExecGood

LEMMA ExecGoodStep ==
    ASSUME ExecInv, ExecNext
    PROVE  ExecGood'
<1>1. ExecTypes /\ ExecTypes' /\ ExecGood
  BY ExecParts, ExecTypesStep
<1>2. \/ Quiet \/ Dispatch \/ DispatchSend \/ KillKernel \/ ProcessEnds \/ CellPrints \/ CellIdle
      \/ \E e \in Exec : (Send(e) /\ socks) \/ TakeIOPub(e) \/ ContextEnds(e) \/ UnsubClose(e)
  BY <1>1, QuietSteps
<1> QED
  BY <1>1, <1>2, QuietStays, DispatchGood, DispatchSendGood, KernelGoneGood, PrintGood, IdleGood,
     SendGood, TakeGood, LeaveGood

\* A handler on its way out whose reply has come owes nothing.
LEMMA OutputStays ==
    ASSUME ExecInv, ExecNext
    PROVE  OutputWhole'
<1>0. /\ epc \in [Exec -> {"new", "subscribe", "send", "stream", "unsub", "close", "over", "aborted"}]
      /\ answered \in [Exec -> BOOLEAN] /\ shut \in [Exec -> BOOLEAN] /\ lost \in [Exec -> BOOLEAN]
      /\ idle \in [Exec -> BOOLEAN] /\ owed \in [Exec -> 0..MaxOut] /\ OutputWhole
  BY DEF ExecInv, ExecTypes
<1>1. SUFFICES ASSUME NEW f \in Exec, epc'[f] = "unsub", answered'[f], ~lost'[f], ~shut'[f]
               PROVE  owed'[f] = 0
  BY DEF OutputWhole
\* It was there before, or has just come to its end.
<1>2. ASSUME epc[f] = "unsub", answered'[f] = answered[f], lost'[f] = lost[f], shut[f] => shut'[f], owed'[f] = owed[f]
      PROVE  owed'[f] = 0
  BY <1>0, <1>1, <1>2 DEF OutputWhole
<1>3. ASSUME NEW e \in Exec, StreamEnds(e) PROVE owed'[f] = 0
  <2>0. epc' = [epc EXCEPT ![e] = "unsub"] /\ UNCHANGED <<idle, answered, owed, lost, shut, ch>> /\ idle[e] /\ epc[e] = "stream"
    BY <1>3 DEF StreamEnds, Goes, streamVars, chanVars
  <2>1. CASE f = e
    <3>1. ~lost[e] /\ ~shut[e] /\ SeesIdle(e)
      BY <2>0, <2>1, <1>1 DEF SeesIdle
    <3>2. owed[e] = Times(ch[e], "out") /\ ch[e] = <<>>
      BY <3>1, <2>0 DEF ExecInv, Exact, IdleIsLast
    <3> QED
      BY <3>2, <2>0, <2>1, TimesEmpty
  <2>2. CASE f # e
    <3>1. epc[f] = "unsub"
      BY <2>0, <2>2, <1>0, <1>1
    <3> QED
      BY <3>1, <2>0, <1>2
  <2> QED
    BY <2>1, <2>2
<1>4. ASSUME NEW e \in Exec, ContextEnds(e) \/ UnsubClose(e) PROVE owed'[f] = 0
  BY ZenonT(40), <1>0, <1>1, <1>2, <1>4 DEF ContextEnds, UnsubClose, Forgets, Goes
<1>5. ASSUME NEW e \in Exec, Send(e) PROVE owed'[f] = 0
  <2>0. epc[e] = "send" /\ UNCHANGED <<answered, owed, lost, shut>>
    BY <1>5 DEF Send, streamVars, chanVars
  <2>1. epc' = [epc EXCEPT ![e] = "stream"] \/ epc' = [epc EXCEPT ![e] = "unsub"]
    BY <1>5 DEF Send, Goes
  <2>2. ~answered[e]
    BY <2>0 DEF ExecInv, Unsent
  <2>3. f # e /\ epc[f] = "unsub"
    BY <2>0, <2>1, <2>2, <1>0, <1>1
  <2> QED
    BY <2>0, <2>3, <1>2
<1>6. ASSUME NEW e \in Exec, Execute(e) \/ Subscribe(e) \/ Unsub(e) PROVE owed'[f] = 0
  <2>1. epc[f] = "unsub"
    BY <1>0, <1>1, <1>6 DEF Execute, Subscribe, Unsub, Goes
  <2> QED
    BY <2>1, <1>2, <1>6 DEF Execute, Subscribe, Unsub, streamVars, chanVars
<1>7. ASSUME NEW e \in Exec, ReadFails(e) \/ RecvShell(e) PROVE owed'[f] = 0
  BY <1>1, <1>2, <1>7 DEF ReadFails, RecvShell, streamVars, chanVars
<1>8. ASSUME NEW e \in Exec, TakeIOPub(e) PROVE owed'[f] = 0
  <2>1. epc[f] = "unsub" /\ epc[e] = "stream" /\ UNCHANGED <<answered, lost, shut>>
    BY <1>1, <1>8 DEF TakeIOPub
  <2>2. owed' = owed \/ owed' = [owed EXCEPT ![e] = @ - 1]
    BY <1>8 DEF TakeIOPub
  <2>3. owed'[f] = owed[f]
    BY <2>1, <2>2, <1>0
  <2> QED
    BY <2>1, <2>3, <1>2
<1>9. ASSUME NEW e \in Exec, TakeReply(e) PROVE owed'[f] = 0
  <2>1. f # e /\ epc[f] = "unsub"
    BY <1>1, <1>9 DEF TakeReply
  <2> QED
    BY <2>1, <1>0, <1>2, <1>9 DEF TakeReply, chanVars
<1>10. ASSUME Dispatch \/ CloseAllTakes \/ KillKernel \/ CellReplies \/ CellIdle \/ ProcessEnds PROVE owed'[f] = 0
  BY <1>1, <1>2, <1>10 DEF Dispatch, CloseAllTakes, KillKernel, CellReplies, CellIdle, ProcessEnds, streamVars, chanVars
<1>11. ASSUME DispatchSend PROVE owed'[f] = 0
  <2>1. lost' = lost \/ \E e \in Exec : lost' = [lost EXCEPT ![e] = TRUE]
    BY <1>11 DEF DispatchSend, ExecInv, ExecTypes
  <2>2. lost'[f] = lost[f]
    BY <2>1, <1>0, <1>1
  <2> QED
    BY <2>2, <1>1, <1>2, <1>11 DEF DispatchSend, streamVars
<1>12. ASSUME CloseAllCloses PROVE owed'[f] = 0
  <2>1. shut' = shut \/ \E e \in Exec : shut' = [shut EXCEPT ![e] = TRUE]
    BY <1>12 DEF CloseAllCloses, ExecInv, ExecTypes
  <2>2. shut[f] => shut'[f]
    BY <2>1, <1>0
  <2> QED
    BY <2>2, <1>1, <1>2, <1>12 DEF CloseAllCloses, streamVars
<1>13. ASSUME CellPrints PROVE owed'[f] = 0
  <2>1. UNCHANGED <<epc, answered, lost, shut>> /\ epc[f] = "unsub"
    BY <1>1, <1>13 DEF CellPrints, chanVars
  <2>2. owed' = owed \/ (owed' = [owed EXCEPT ![Head(work)] = @ + 1] /\ epc[Head(work)] = "stream")
    BY <1>13 DEF CellPrints
  <2>3. owed'[f] = owed[f]
    BY <2>1, <2>2, <1>0
  <2> QED
    BY <2>1, <2>3, <1>2
<1> QED
  BY <1>3, <1>4, <1>5, <1>6, <1>7, <1>8, <1>9, <1>10, <1>11, <1>12, <1>13 DEF ExecNext, ExecStep, Routing

LEMMA ExecInvStep == ExecInv /\ [ExecNext]_execVars => ExecInv'
<1>1. ASSUME ExecInv, ExecNext PROVE ExecInv'
  <2>1. ExecTypes' /\ OutputWhole' /\ ExecGood'
    BY <1>1, ExecTypesStep, OutputStays, ExecGoodStep
  <2> QED
    BY <2>1 DEF ExecInv, ExecGood, Good
<1>2. ASSUME ExecInv, UNCHANGED execVars PROVE ExecInv'
  <2>0. UNCHANGED <<epc, idle, answered, owed, reader, subs, ch, shut, lost, hand, socks, sweep, toClose,
                    work, prints, replied, iopub, shellq, up, panic>>
    BY <1>2 DEF execVars, streamVars, chanVars, endVars, cellVars
  <2>1. ExecTypes'
    BY <1>2, <2>0 DEF ExecInv, ExecTypes
  <2>2. OutputWhole'
    BY <1>2, <2>0 DEF ExecInv, OutputWhole
  <2>3. ExecGood'
    <3>1. Quiet
      BY <1>2, <2>0 DEF Quiet, ExecInv, WorkInOrder
    <3> QED
      BY <3>1, <1>2, ExecParts, QuietStays
  <2> QED
    BY <2>1, <2>2, <2>3 DEF ExecInv, ExecGood, Good
<1> QED
  BY <1>1, <1>2
-----------------------------------------------------------------------------
(* All parts together.                                                     *)

Moves == Init /\ [][Next]_<<part, ask, bgVars, shellVars, kernelsVars, execVars, fileVars, portVars>>

\* Each part moves by itself or stands still.
LEMMA PartsMove ==
    [Next]_<<part, ask, bgVars, shellVars, kernelsVars, execVars, fileVars, portVars>> =>
        /\ [BgNext]_bgVars /\ [SessNext]_shellVars /\ [KernNext]_kernelsVars
        /\ [ExecNext]_execVars /\ [FilesNext]_fileVars /\ [PortsNext]_portVars
BY DEF Next

ShellInv == BgInv /\ SessInv /\ KernInv /\ ExecInv /\ FileInv /\ ReadInv /\ PortsInv

LEMMA ShellAlways == Moves => []ShellInv
<1>1. Init => ShellInv
  BY BgInitInv, SessInitInv, KernInitInv, ExecInitInv, FilesInitInv, ReadInitInv, PortsInitInv DEF Init, ShellInv
<1>2. ShellInv /\ [Next]_<<part, ask, bgVars, shellVars, kernelsVars, execVars, fileVars, portVars>> => ShellInv'
  BY PartsMove, BgStep, SessStep, KernStep, ExecInvStep, FilesStep, ReadStep, PortsStep DEF ShellInv
<1> QED
  BY <1>1, <1>2, PTL DEF Moves

\* Background commands and kernels never lose, double or overdraw a slot, and every
\* process is accounted for, for any number of commands, kernels and callers and any
\* limit (background.go: Start, waitFor; jupyter/manager.go: Spawn, Close; kernel.go: killNow).
THEOREM SlotsNeverLeak == Spec => []NothingLeaks
<1>1. ShellInv => NothingLeaks
  BY BgSlotsKept, KernAccounted DEF ShellInv, NothingLeaks
<1> QED
  BY <1>1, ShellAlways, PTL DEF Spec, Moves

\* What a background command was recorded to have come to is never revised: not by a
\* late interrupt, not by its waiter (background.go: waitFor, Interrupt).
THEOREM VerdictsAreFinal == Spec => VerdictFinal
<1>1. ShellInv /\ [Next]_<<part, ask, bgVars, shellVars, kernelsVars, execVars, fileVars, portVars>> =>
         [\A c \in Cmd : finished[c] => status'[c] = status[c] /\ finished'[c] = finished[c]]_bgVars
  BY PartsMove, BgVerdicts DEF ShellInv
<1> QED
  BY <1>1, ShellAlways, PTL DEF Spec, Moves, VerdictFinal

\* A completed command_run reports its own command's exit and output, its session is not
\* closed under it, and every running bash is in somebody's reach, for any number of calls,
\* sessions and sweeps (session.go: Session.Execute, readLoop, Close, cleanupLoop).
THEOREM SessionsAreRight == Spec => []SessionsRight
<1>1. ShellInv => SessionsRight
  BY SessRight DEF ShellInv
<1> QED
  BY <1>1, ShellAlways, PTL DEF Spec, Moves

\* An execution that has seen the kernel's idle and its reply has passed on everything its
\* cell printed, unless its drop counter or the kernel's end says otherwise, for any number
\* of executions and any capacity of the buffers (kernel.go: Execute, iopubLoop; iopub.go:
\* Dispatch, Subscribe, CloseAll).
THEOREM ExecutionsAreWhole == Spec => []OutputWhole
<1>1. ShellInv => OutputWhole
  BY DEF ShellInv, ExecInv
<1> QED
  BY <1>1, ShellAlways, PTL DEF Spec, Moves

\* While reads, writes, edits, appends and uploads interleave and the runtime may die, the
\* path names a file whose content some request meant, unless an upload broke off or mixed
\* with it; a read that none of these spoilt returns such a content, all of one moment; and
\* a temporary file has a living owner unless a crash took it away; for any number of
\* requests and files and any contents (file.go: atomicWriteFile; file_io.go: streamUploadToDisk).
THEOREM FilesStayWhole == Spec => []FilesWhole
<1>1. ShellInv => FilesWhole
  BY FilesAreRight, ReadersAreRight DEF ShellInv, FilesWhole
<1> QED
  BY <1>1, ShellAlways, PTL DEF Spec, Moves

\* A listing of ports is no staler than the cache's lifetime and the fetch under way, for
\* any number of lookups and ports and any lifetime (port_discovery.go: cachedPorts).
THEOREM PortsStayFresh == Spec => []PortsFresh
<1>1. ShellInv => PortsFresh
  BY PortsAreFresh DEF ShellInv
<1> QED
  BY <1>1, ShellAlways, PTL DEF Spec, Moves

\* The handlers are right: files stay whole, listings of ports are fresh, and every request
\* to list, find, grep, read or edit is answered as AnswersRight says, whatever the tree, the
\* contents and the limits (file.go: ListFiles, ReadFile, EditFile; search.go).
THEOREM HandlersAreRight == Spec => []HandlersRight
<1> DEFINE Asked == AnswersInit \/ ask = NoAsk
<1>1. Init => Asked
  BY DEF Init
<1>2. Asked /\ [Next]_<<part, ask, bgVars, shellVars, kernelsVars, execVars, fileVars, portVars>> => Asked'
  <2> SUFFICES ASSUME Asked, ask' = ask PROVE Asked'
    BY DEF Next
  <2> QED
    BY DEF AnswersInit
<1>3. Asked => AnswersRight
  BY AnswersAreRight
<1>4. ShellInv => FilesWhole /\ PortsFresh
  BY FilesAreRight, ReadersAreRight, PortsAreFresh DEF ShellInv, FilesWhole
<1> QED
  BY <1>1, <1>2, <1>3, <1>4, ShellAlways, PTL DEF Spec, Moves, HandlersRight

\* The values of all parts are well formed, for the handlers as BgTypeOK, SessTypeOK,
\* KernTypeOK, ExecTypeOK, FilesTypeOK and PortsTypeOK say (background.go, session.go,
\* kernel.go, file.go, port_discovery.go).
THEOREM ShellIsTyped == Spec => []ShellTypeOK
<1>1. BgInv => BgTypeOK
  BY DEF BgInv
<1>2. SessInv => SessTypeOK
  BY SessTypesRight DEF SessInv
<1>3. KernInv => KernTypeOK
  BY KernTypesSame DEF KernInv
<1>4. ExecInv => ExecTypeOK
  BY ExecTypesRight DEF ExecInv
<1>5. ShellInv => ShellTypeOK
  BY <1>1, <1>2, <1>3, <1>4, FilesAreRight, PortsAreFresh DEF ShellInv, ShellTypeOK
<1> QED
  BY <1>5, ShellAlways, PTL DEF Spec, Moves
==============================================================================
