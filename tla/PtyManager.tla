------------------------------ MODULE PtyManager ------------------------------
(***************************************************************************)
(* The PTYManager of pkg/shell/pty.go under the handlers of                *)
(* pkg/handlers/shell_pty.go: a map from session id to interactive shell,  *)
(* a semaphore, and the calls that create, replace and close.  A PTY is    *)
(* reduced to its life; what it streams is module PtyStream.               *)
(***************************************************************************)
EXTENDS Naturals, FiniteSets

CONSTANTS
    PtyId,              \* session ids clients ask for
    Pty,                \* bound: PTY objects ever created
    PTYMaxConcurrent,
    Caller,             \* bound: GetOrCreate calls at a time
    NoPty

ASSUME PtyConstants ==
    /\ PTYMaxConcurrent \in Nat \ {0} /\ NoPty \notin Pty
    /\ IsFiniteSet(Pty) /\ IsFiniteSet(Caller)

VARIABLES
    ptys,       \* m.ptys: id -> PTY or NoPty
    slots,      \* tokens in m.sem
    life,       \* of a PTY: "none", "open", "flagged" (Close has set closed),
                \* "dying" (bash dead, closed set, waitLoop draining), "done" (p.done closed)
    releaser,   \* the goroutine GetOrCreate leaves behind: "none", "wait", "delete", "done"
    ptyOf,      \* the id a PTY was made for
    call,       \* [pc, id, own] of each GetOrCreate
    sweep       \* PTYs on the list of a running CloseAll or gcOnce

ptyVars == <<ptys, slots, life, releaser, ptyOf, call, sweep>>

NoCall == [pc |-> "idle", id |-> NoPty, own |-> NoPty]

PtyTypeOK ==
    /\ ptys \in [PtyId -> Pty \cup {NoPty}] /\ slots \in 0..PTYMaxConcurrent
    /\ life \in [Pty -> {"none", "open", "flagged", "dying", "done"}]
    /\ releaser \in [Pty -> {"none", "wait", "delete", "done"}]
    /\ ptyOf \in [Pty -> PtyId \cup {NoPty}]
    /\ call \in [Caller -> [pc : {"idle", "slot", "spawn", "insert", "lost"}, id : PtyId \cup {NoPty},
                            own : Pty \cup {NoPty}]]
    /\ sweep \subseteq Pty

PtyInit ==
    /\ ptys = [i \in PtyId |-> NoPty] /\ slots = 0 /\ sweep = {}
    /\ life = [p \in Pty |-> "none"] /\ releaser = [p \in Pty |-> "none"]
    /\ ptyOf = [p \in Pty |-> NoPty]
    /\ call = [k \in Caller |-> NoCall]

IsClosed(p) == life[p] \in {"flagged", "dying", "done"}
IsOpen(i) == ptys[i] # NoPty /\ ~IsClosed(ptys[i])
At(k, pc) == call' = [call EXCEPT ![k].pc = pc]
Return(k) == call' = [call EXCEPT ![k] = NoCall]

\* PTY.Close sets closed under p.mu, then kills bash; idempotent.
CloseFlag(p) == life' = [life EXCEPT ![p] = IF @ = "open" THEN "flagged" ELSE @]

-----------------------------------------------------------------------------
(* GetOrCreate.                                                            *)

\* The lookup finds no open PTY (otherwise the call returns it unchanged).
Lookup(k, i) ==
    /\ call[k].pc = "idle" /\ ~IsOpen(i)
    /\ call' = [call EXCEPT ![k].pc = "slot", ![k].id = i]
    /\ UNCHANGED <<ptys, slots, life, releaser, ptyOf, sweep>>

\* A slot, or "pty cap exhausted".
TakeSlot(k) ==
    /\ call[k].pc = "slot"
    /\ \/ slots < PTYMaxConcurrent /\ slots' = slots + 1 /\ At(k, "spawn")
       \/ slots = PTYMaxConcurrent /\ UNCHANGED slots /\ Return(k)
    /\ UNCHANGED <<ptys, life, releaser, ptyOf, sweep>>

\* newPTY fails and the slot goes back, or bash runs.
SpawnFails(k) ==
    /\ call[k].pc = "spawn"
    /\ slots' = slots - 1 /\ Return(k)
    /\ UNCHANGED <<ptys, life, releaser, ptyOf, sweep>>
newPTY(k) ==
    /\ call[k].pc = "spawn"
    /\ \E p \in Pty : life[p] = "none"
    /\ LET p == CHOOSE q \in Pty : life[q] = "none" IN
        /\ life' = [life EXCEPT ![p] = "open"] /\ ptyOf' = [ptyOf EXCEPT ![p] = call[k].id]
        /\ call' = [call EXCEPT ![k].pc = "insert", ![k].own = p]
    /\ UNCHANGED <<ptys, slots, releaser, sweep>>

\* Nobody else has put an open PTY there in the meantime.
Wins(k) == ~IsOpen(call[k].id)

\* The winner's PTY replaces whatever closed one is there and gets its releaser.
Insert(k) ==
    LET p == call[k].own IN
    /\ call[k].pc = "insert" /\ Wins(k)
    /\ ptys' = [ptys EXCEPT ![call[k].id] = p] /\ releaser' = [releaser EXCEPT ![p] = "wait"]
    /\ Return(k)
    /\ UNCHANGED <<slots, life, ptyOf, sweep>>

\* MUTANT: the loser's PTY has its releaser too.
Lose_WithReleaser(k) ==
    /\ call[k].pc = "insert" /\ ~Wins(k)
    /\ CloseFlag(call[k].own) /\ At(k, "lost")
    /\ releaser' = [releaser EXCEPT ![call[k].own] = "wait"]
    /\ UNCHANGED <<ptys, slots, ptyOf, sweep>>

\* The loser closes its own PTY ...
Lose(k) ==
    /\ call[k].pc = "insert" /\ ~Wins(k)
    /\ CloseFlag(call[k].own) /\ At(k, "lost")
    /\ UNCHANGED <<ptys, slots, releaser, ptyOf, sweep>>

\* ... and, bash killed, gives the slot back and returns the other's PTY.
Lost(k) ==
    /\ call[k].pc = "lost" /\ life[call[k].own] # "flagged"
    /\ slots' = slots - 1 /\ Return(k)
    /\ UNCHANGED <<ptys, life, releaser, ptyOf, sweep>>

\* The releaser: <-p.done; <-m.sem ...
Released(p) ==
    /\ releaser[p] = "wait" /\ life[p] = "done"
    /\ slots' = slots - 1 /\ releaser' = [releaser EXCEPT ![p] = "delete"]
    /\ UNCHANGED <<ptys, life, ptyOf, call, sweep>>

\* MUTANT: it deletes whatever the id maps to by now.
StillOurs_Any(p) == TRUE

\* ... "only delete if it's still our pointer".
StillOurs(p) == ptys[ptyOf[p]] = p

Deleted(p) ==
    /\ releaser[p] = "delete"
    /\ releaser' = [releaser EXCEPT ![p] = "done"]
    /\ ptys' = [ptys EXCEPT ![ptyOf[p]] = IF StillOurs(p) THEN NoPty ELSE @]
    /\ UNCHANGED <<slots, life, ptyOf, call, sweep>>

-----------------------------------------------------------------------------
(* Closing, and the end of a shell.                                        *)

\* DELETE /v1/shell/pty/{id}.
ClosePty(i) ==
    /\ IsOpen(i) /\ CloseFlag(ptys[i])
    /\ UNCHANGED <<ptys, slots, releaser, ptyOf, call, sweep>>

\* gcOnce lists, under m.mu, PTYs nobody is attached to whose lastUsed is past
\* PTYIdleExpiry; neither is modelled here, so any may be listed.
gcList(i) ==
    /\ ptys[i] # NoPty /\ sweep' = sweep \cup {ptys[i]}
    /\ UNCHANGED <<ptys, slots, life, releaser, ptyOf, call>>

\* CloseAll takes them all and leaves an empty map.
CloseAll ==
    /\ \E i \in PtyId : ptys[i] # NoPty
    /\ ptys' = [i \in PtyId |-> NoPty]
    /\ sweep' = sweep \cup ({ptys[i] : i \in PtyId} \ {NoPty})
    /\ UNCHANGED <<slots, life, releaser, ptyOf, call>>

\* Both close what they listed after they have let go of m.mu.
Sweep(p) ==
    /\ p \in sweep /\ sweep' = sweep \ {p}
    /\ CloseFlag(p)
    /\ UNCHANGED <<ptys, slots, releaser, ptyOf, call>>

\* Bash is killed by Close or exits by itself, and waitLoop notices.
BashGone(p) ==
    /\ life[p] \in {"open", "flagged"}
    /\ life' = [life EXCEPT ![p] = "dying"]
    /\ UNCHANGED <<ptys, slots, releaser, ptyOf, call, sweep>>

\* waitLoop closes p.done.
Done(p) ==
    /\ life[p] = "dying"
    /\ life' = [life EXCEPT ![p] = "done"]
    /\ UNCHANGED <<ptys, slots, releaser, ptyOf, call, sweep>>

Creating(k) == TakeSlot(k) \/ SpawnFails(k) \/ newPTY(k) \/ Insert(k) \/ Lose(k) \/ Lost(k)
Ending(p) == (life[p] = "flagged" /\ BashGone(p)) \/ Done(p) \/ Released(p) \/ Deleted(p)

PtyNext ==
    \/ \E k \in Caller : Creating(k) \/ \E i \in PtyId : Lookup(k, i)
    \/ \E p \in Pty : BashGone(p) \/ Done(p) \/ Released(p) \/ Deleted(p) \/ Sweep(p)
    \/ \E i \in PtyId : ClosePty(i) \/ gcList(i)
    \/ CloseAll

PtySpec == PtyInit /\ [][PtyNext]_ptyVars

-----------------------------------------------------------------------------
(* Properties.                                                             *)

\* Every token of the semaphore belongs to a GetOrCreate under way or to a PTY
\* whose releaser waits: lost races, failures, Close, CloseAll and the sweep
\* neither leak a slot nor return one twice.
PtySlotsExact ==
    slots = Cardinality({k \in Caller : call[k].pc \in {"spawn", "insert", "lost"}})
            + Cardinality({p \in Pty : releaser[p] = "wait"})

\* "caps the number of live PTYs": a shell that no call is about to discard holds
\* a slot until its bash is dead.
LiveCapped ==
    Cardinality({p \in Pty : life[p] \in {"open", "flagged"}}) <= PTYMaxConcurrent

\* No shell is orphaned: an open PTY is in the map under its own id, in the hands
\* of the call that creates it, or on the list of one about to close it.  The
\* replacement of a closed PTY, the releaser's late delete and CloseAll's new map
\* must not lose a live one.
NoOrphan ==
    \A p \in Pty : life[p] = "open" =>
        \/ p \in sweep \/ ptys[ptyOf[p]] = p
        \/ \E k \in Caller : call[k].pc = "insert" /\ call[k].own = p

\* Neither slots nor shells are lost, and the cap holds.
PtysAccounted == PtySlotsExact /\ LiveCapped /\ NoOrphan

\* A PTY that was closed, whoever closed it, gives its slot back.
SlotComesBack == \A p \in Pty : (releaser[p] = "wait" /\ IsClosed(p)) ~> releaser[p] = "done"
==============================================================================
