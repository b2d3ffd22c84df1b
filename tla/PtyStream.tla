------------------------------ MODULE PtyStream ------------------------------
(***************************************************************************)
(* One PTY of pkg/shell/pty.go and the WebSocket clients that use it       *)
(* (pkg/handlers/shell_pty.go): readLoop moves terminal output into the    *)
(* replay ring, waitLoop winds the PTY down, and at most one AttachStream  *)
(* tails the ring.  The ring is the log of module BoundedLog; a chunk of   *)
(* output stands for one read from the terminal.                           *)
(***************************************************************************)
EXTENDS Naturals, Sequences, FiniteSets

CONSTANTS
    Client,         \* bound: connections ever made
    MaxOut          \* bound: chunks bash writes

ASSUME StreamConstants == MaxOut \in Nat

VARIABLES
    bash,       \* "runs", "dead"
    ptmx,       \* is the terminal's master open?
    made,       \* chunks bash has written
    tty,        \* those the terminal holds, unread
    readLoop,   \* "read", "write", "notify", "gone"
    waitLoop,   \* "wait", "drain", "write", "close", "done" (p.done is closed)
    held,       \* the chunk readLoop ("r") and waitLoop ("w") have in hand
    log,        \* all that was written to the replay ring
    notify,     \* is there a token in p.notify?
    attached, closed,   \* fields of PTY
    closing,    \* Close has set closed and has not yet killed bash
    ws,         \* a connection: "none", "attach", "replay", "tail", "pull", "silent", "gone"
    cursor      \* its position in the ring

shVars == <<bash, ptmx, made, tty>>
loopVars == <<readLoop, waitLoop, held, log, notify>>
flagVars == <<attached, closed, closing>>
wsVars == <<ws, cursor>>
streamVars == <<shVars, loopVars, flagVars, wsVars>>

Streaming == {"replay", "tail", "pull"}

StreamTypeOK ==
    /\ bash \in {"runs", "dead"} /\ made \in 0..MaxOut
    /\ tty \in Seq(1..MaxOut) /\ log \in Seq(1..MaxOut)
    /\ readLoop \in {"read", "write", "notify", "gone"}
    /\ waitLoop \in {"wait", "drain", "write", "close", "done"}
    /\ held \in [{"r", "w"} -> 0..MaxOut]
    /\ {ptmx, notify, attached, closed, closing} \subseteq BOOLEAN
    /\ ws \in [Client -> {"none", "attach", "silent", "gone"} \cup Streaming]
    /\ cursor \in [Client -> 0..MaxOut]

StreamInit ==
    /\ bash = "runs" /\ ptmx = TRUE /\ made = 0 /\ tty = <<>>
    /\ readLoop = "read" /\ waitLoop = "wait" /\ held = [g \in {"r", "w"} |-> 0]
    /\ log = <<>> /\ notify = FALSE
    /\ attached = FALSE /\ closed = FALSE /\ closing = FALSE
    /\ ws = [c \in Client |-> "none"]
    /\ cursor = [c \in Client |-> 0]

-----------------------------------------------------------------------------
(* bash and Close.                                                         *)

Output ==
    /\ bash = "runs" /\ made < MaxOut
    /\ made' = made + 1 /\ tty' = Append(tty, made + 1)
    /\ UNCHANGED <<bash, ptmx, loopVars, flagVars, wsVars>>
BashExits ==
    /\ bash = "runs" /\ bash' = "dead"
    /\ UNCHANGED <<ptmx, made, tty, loopVars, flagVars, wsVars>>

\* PTY.Close (DELETE, the sweep, CloseAll): the flag under p.mu, then the kill.
CloseFlag_ ==
    /\ ~closed
    /\ closed' = TRUE /\ closing' = TRUE
    /\ UNCHANGED <<shVars, loopVars, attached, wsVars>>
CloseKill ==
    /\ closing /\ closing' = FALSE
    /\ bash' = "dead" /\ ptmx' = FALSE
    /\ UNCHANGED <<made, tty, loopVars, attached, closed, wsVars>>

-----------------------------------------------------------------------------
(* readLoop and waitLoop.  Reads of the master are serialised: each chunk  *)
(* goes to one of them.                                                    *)

Take(g) ==
    /\ ptmx /\ tty # <<>>
    /\ tty' = Tail(tty) /\ held' = [held EXCEPT ![g] = Head(tty)]
    /\ UNCHANGED <<bash, ptmx, made>>
Keep(g) == log' = Append(log, held[g]) /\ held' = [held EXCEPT ![g] = 0]

ReadChunk ==
    /\ readLoop = "read" /\ Take("r") /\ readLoop' = "write"
    /\ UNCHANGED <<waitLoop, log, notify, flagVars, wsVars>>

\* The read fails: master closed, terminal hung up, or past waitLoop's deadline.
ReadEnds ==
    /\ readLoop = "read" /\ readLoop' = "gone"
    /\ ~ptmx \/ (bash = "dead" /\ tty = <<>>) \/ waitLoop \in {"drain", "write"}
    /\ UNCHANGED <<shVars, waitLoop, held, log, notify, flagVars, wsVars>>

\* MUTANT: the client is woken before there is something to read.
ReadStore_NotifyFirst ==
    /\ readLoop \in {"write", "notify"}
    /\ IF readLoop = "write" THEN notify' = TRUE /\ readLoop' = "notify" /\ UNCHANGED <<log, held>>
                             ELSE Keep("r") /\ readLoop' = "read" /\ UNCHANGED notify
    /\ UNCHANGED <<shVars, waitLoop, flagVars, wsVars>>

\* MUTANT: while a token is pending, output is not stored.
ReadStore_Skip ==
    /\ readLoop \in {"write", "notify"}
    /\ IF readLoop = "write" /\ notify
       THEN held' = [held EXCEPT !["r"] = 0] /\ readLoop' = "read" /\ UNCHANGED <<log, notify>>
       ELSE IF readLoop = "write" THEN Keep("r") /\ readLoop' = "notify" /\ UNCHANGED notify
       ELSE notify' = TRUE /\ readLoop' = "read" /\ UNCHANGED <<log, held>>
    /\ UNCHANGED <<shVars, waitLoop, flagVars, wsVars>>

\* Into the ring first; then a token, unless one is waiting.
ReadStore ==
    /\ readLoop \in {"write", "notify"}
    /\ IF readLoop = "write" THEN Keep("r") /\ readLoop' = "notify" /\ UNCHANGED notify
                             ELSE notify' = TRUE /\ readLoop' = "read" /\ UNCHANGED <<log, held>>
    /\ UNCHANGED <<shVars, waitLoop, flagVars, wsVars>>

\* cmd.Wait returns: exit code and closed.
WaitReturns ==
    /\ waitLoop = "wait" /\ bash = "dead"
    /\ waitLoop' = "drain" /\ closed' = TRUE
    /\ UNCHANGED <<shVars, readLoop, held, log, notify, attached, closing, wsVars>>

\* io.Copy(p.replay, p.ptmx) until the terminal hangs up or 50 ms have passed,
\* then p.ptmx.Close().
DrainRead ==
    /\ waitLoop = "drain" /\ Take("w") /\ waitLoop' = "write"
    /\ UNCHANGED <<readLoop, log, notify, flagVars, wsVars>>
DrainWrite ==
    /\ waitLoop = "write" /\ Keep("w") /\ waitLoop' = "drain"
    /\ UNCHANGED <<shVars, readLoop, notify, flagVars, wsVars>>
DrainEnds ==
    /\ waitLoop = "drain" /\ waitLoop' = "close" /\ ptmx' = FALSE
    /\ UNCHANGED <<bash, made, tty, readLoop, held, log, notify, flagVars, wsVars>>

\* close(p.done), and a last token.
WaitEnds ==
    /\ waitLoop = "close" /\ waitLoop' = "done" /\ notify' = TRUE
    /\ UNCHANGED <<shVars, readLoop, held, log, flagVars, wsVars>>

-----------------------------------------------------------------------------
(* Connections: the handler upgrades first and attaches then, so a refused *)
(* client keeps a silent connection whose read loop still takes its input. *)

Connect(c) ==
    /\ ws[c] = "none" /\ ~closed
    /\ ws' = [ws EXCEPT ![c] = "attach"]
    /\ UNCHANGED <<shVars, loopVars, flagVars, cursor>>

\* ErrPTYClosed or ErrPTYBusy.
Refused == closed \/ attached

AttachStream(c) ==
    /\ ws[c] = "attach"
    /\ ws' = [ws EXCEPT ![c] = IF Refused THEN "silent" ELSE "replay"]
    /\ attached' = (attached \/ ~Refused)
    /\ UNCHANGED <<shVars, loopVars, closed, closing, cursor>>

\* Ring.Read(cursor), the Snapshot included, moves the cursor to the end; of what
\* lies between, the ring delivers what it still holds (module Ring).
Pull(c) == cursor' = [cursor EXCEPT ![c] = Len(log)]
Replay(c) ==
    /\ ws[c] \in {"replay", "pull"} /\ Pull(c)
    /\ ws' = [ws EXCEPT ![c] = "tail"]
    /\ UNCHANGED <<shVars, loopVars, flagVars>>
Woken(c) ==
    /\ ws[c] = "tail" /\ notify /\ notify' = FALSE
    /\ ws' = [ws EXCEPT ![c] = "pull"]
    /\ UNCHANGED <<shVars, readLoop, waitLoop, held, log, flagVars, cursor>>

\* The deferred attached = false.
Leave(c) == ws' = [ws EXCEPT ![c] = "gone"] /\ attached' = FALSE

\* p.done is closed: the final drain, the exit frame, a close frame.
TailDone(c) ==
    /\ ws[c] = "tail" /\ waitLoop = "done"
    /\ Pull(c) /\ Leave(c)
    /\ UNCHANGED <<shVars, loopVars, closed, closing>>

\* The client hangs up, sends a bad frame, or a write or ping to it fails.
Disconnect(c) ==
    /\ ws[c] \in Streaming /\ Leave(c)
    /\ UNCHANGED <<shVars, loopVars, closed, closing, cursor>>
HangUp(c) ==
    /\ ws[c] \in {"attach", "silent"}
    /\ ws' = [ws EXCEPT ![c] = "gone"]
    /\ UNCHANGED <<shVars, loopVars, flagVars, cursor>>

Reading == ReadChunk \/ ReadEnds \/ ReadStore
Winding == WaitReturns \/ DrainRead \/ DrainWrite \/ DrainEnds \/ WaitEnds
Serve(c) == AttachStream(c) \/ Replay(c) \/ Woken(c) \/ TailDone(c)

StreamNext ==
    \/ Output \/ BashExits \/ CloseFlag_ \/ CloseKill \/ Reading \/ Winding
    \/ \E c \in Client : Connect(c) \/ Serve(c) \/ Disconnect(c) \/ HangUp(c)

StreamSpec == StreamInit /\ [][StreamNext]_streamVars

-----------------------------------------------------------------------------
(* Properties.                                                             *)

\* "streams raw bytes to a single attached client": one stream at most, and the
\* flag tells exactly whether there is one, so that a client is refused only
\* while another is served.
OneStream ==
    LET on == {c \in Client : ws[c] \in Streaming}
    IN  Cardinality(on) <= 1 /\ (attached <=> on # {})

\* No wake-up is lost: the attached client catches up with the ring, although
\* notify holds one token, an earlier client may have left one or taken one, and
\* readLoop waits for nobody.
OutputReaches == []<>(\A c \in Client : ws[c] = "tail" => cursor[c] = Len(log))

\* While bash lives, output enters the ring once, complete and in order.
RingFollowsShell ==
    waitLoop = "wait" /\ ptmx =>
        log \o (IF held["r"] = 0 THEN <<>> ELSE <<held["r"]>>) \o tty = [i \in 1..made |-> i]

\* One client at a time, over a ring that is what the shell printed.
StreamFaithful == OneStream /\ RingFollowsShell

\* When the shell has ended, whoever ended it, no client hangs on its stream.
StreamEnds == (bash = "dead") ~> (waitLoop = "done" /\ \A c \in Client : ws[c] \notin Streaming)

\* The attached client sees everything, and then the end.
StreamServes == OutputReaches /\ StreamEnds

\* pty.go:157, "so any final output gets into the replay buffer before we close
\* it": output that was read is in the ring when the exit frame is due.
FinalOutputKept == waitLoop = "done" => held["r"] = 0

\* The same, in the order bash wrote it.
RingInOrder == \A i \in 1..Len(log), j \in 1..Len(log) : i < j => log[i] < log[j]
==============================================================================
