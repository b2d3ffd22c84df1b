----------------------------- MODULE CopyStreams -----------------------------
(***************************************************************************)
(* pkg/tunnel/copy.go: the byte pipe of the data plane.  Two pumps, one    *)
(* ticker goroutine and the caller share a cancel function, a sync.Once    *)
(* that closes both streams, and a channel of two results.                 *)
(***************************************************************************)
EXTENDS Naturals, FiniteSets

CONSTANT MaxChunks      \* bound: chunks each remote end writes

ASSUME CopyConstants == MaxChunks \in Nat

Side == {"a", "b"}
Other(s) == IF s = "a" THEN "b" ELSE "a"

VARIABLES
    sent,       \* chunks the remote end of each stream has written
    eof,        \* has that remote end finished?
    read,       \* chunks the pump from each stream has taken
    delivered,  \* chunks written to each stream
    closed,     \* how often each stream was closed
    pump,       \* the pump that reads each stream
    failed,     \* did that pump end with an error benignFilter keeps?
    errs,       \* results in the channel
    got,        \* the caller: results taken and where it is
    ctx,        \* is the context cancelled?
    ticker,     \* the ticker goroutine
    once        \* sync.Once around the two Close calls

streams == <<sent, eof, read, delivered, closed>>
copyVars == <<sent, eof, read, delivered, closed, pump, failed, errs, got, ctx, ticker, once>>

PumpState == {"read", "write", "report", "cancel", "close", "closing", "done"}
TickState == {"wait", "close", "closing", "done"}
Caller == {"collect", "close", "closing", "returned"}

CopyTypeOK ==
    /\ sent \in [Side -> 0..MaxChunks] /\ eof \in [Side -> BOOLEAN]
    /\ read \in [Side -> 0..MaxChunks] /\ delivered \in [Side -> 0..MaxChunks]
    /\ closed \in [Side -> Nat]
    /\ pump \in [Side -> PumpState] /\ failed \in [Side -> BOOLEAN]
    /\ errs \in 0..2 /\ got \in [n : 0..2, at : Caller]
    /\ ctx \in BOOLEAN /\ ticker \in TickState
    /\ once \in {"free", "first", "second", "done"}

CopyInit ==
    /\ sent = [s \in Side |-> 0] /\ eof = [s \in Side |-> FALSE]
    /\ read = [s \in Side |-> 0] /\ delivered = [s \in Side |-> 0]
    /\ closed = [s \in Side |-> 0]
    /\ pump = [s \in Side |-> "read"] /\ failed = [s \in Side |-> FALSE]
    /\ errs = 0 /\ got = [n |-> 0, at |-> "collect"]
    /\ ctx = FALSE /\ ticker = "wait" /\ once = "free"

-----------------------------------------------------------------------------
(* The remote ends and the caller's context.                               *)

Send(s) ==
    /\ sent[s] < MaxChunks /\ ~eof[s]
    /\ sent' = [sent EXCEPT ![s] = @ + 1]
    /\ UNCHANGED <<eof, read, delivered, closed, pump, failed, errs, got, ctx, ticker, once>>

Finish(s) ==
    /\ ~eof[s]
    /\ eof' = [eof EXCEPT ![s] = TRUE]
    /\ UNCHANGED <<sent, read, delivered, closed, pump, failed, errs, got, ctx, ticker, once>>

Cancel ==
    /\ ~ctx /\ ctx' = TRUE
    /\ UNCHANGED <<streams, pump, failed, errs, got, ticker, once>>

-----------------------------------------------------------------------------
(* The pumps: io.CopyBuffer, then report, cancel, close.                   *)

\* Read returns a chunk, the end of the stream, or the error of a closed one.
Read(s) ==
    /\ pump[s] = "read"
    /\ \/ /\ closed[s] = 0 /\ read[s] < sent[s]
          /\ read' = [read EXCEPT ![s] = @ + 1]
          /\ pump' = [pump EXCEPT ![s] = "write"]
       \/ /\ closed[s] > 0 \/ (eof[s] /\ read[s] = sent[s])
          /\ pump' = [pump EXCEPT ![s] = "report"]
          /\ UNCHANGED read
    /\ UNCHANGED <<sent, eof, delivered, closed, failed, errs, got, ctx, ticker, once>>

\* MUTANT: a failed write does not end the pump.
Write_IgnoreError(s) ==
    LET d == Other(s) IN
    /\ pump[s] = "write"
    /\ pump' = [pump EXCEPT ![s] = "read"]
    /\ \/ closed[d] = 0 /\ delivered' = [delivered EXCEPT ![d] = @ + 1]
       \/ UNCHANGED delivered
    /\ UNCHANGED <<sent, eof, read, closed, failed, errs, got, ctx, ticker, once>>

\* Write delivers the chunk, or fails: on a closed stream (benign) or because
\* the peer is gone (not benign).
Write(s) ==
    LET d == Other(s) IN
    /\ pump[s] = "write"
    /\ \/ /\ closed[d] = 0
          /\ delivered' = [delivered EXCEPT ![d] = @ + 1]
          /\ pump' = [pump EXCEPT ![s] = "read"]
          /\ UNCHANGED failed
       \/ /\ pump' = [pump EXCEPT ![s] = "report"]
          /\ failed' = [failed EXCEPT ![s] = (closed[d] = 0)]
          /\ UNCHANGED delivered
    /\ UNCHANGED <<sent, eof, read, closed, errs, got, ctx, ticker, once>>

\* errs <- benignFilter(name, err): the channel holds two, so this never blocks.
Report(s) ==
    /\ pump[s] = "report" /\ errs < 2
    /\ errs' = errs + 1
    /\ pump' = [pump EXCEPT ![s] = "cancel"]
    /\ UNCHANGED <<streams, failed, got, ctx, ticker, once>>

\* cancel(), so that the ticker goroutine stops.
CancelPump(s) ==
    /\ pump[s] = "cancel"
    /\ ctx' = TRUE
    /\ pump' = [pump EXCEPT ![s] = "close"]
    /\ UNCHANGED <<streams, failed, errs, got, ticker, once>>

\* closeBoth: the first caller closes a, then b; whoever comes meanwhile waits
\* in once.Do, whoever comes later finds it done.
Enter(state, owner) ==
    \/ state = "close" /\ once = "free" /\ owner = "closing" /\ once' = "first"
    \/ state = "close" /\ once = "done" /\ owner = "done" /\ UNCHANGED once

ClosePump(s) ==
    \E next \in {"closing", "done"} :
        /\ Enter(pump[s], next)
        /\ pump' = [pump EXCEPT ![s] = next]
        /\ UNCHANGED <<streams, failed, errs, got, ctx, ticker>>

\* The body of once.Do.
CloseStream(s, from, to) ==
    /\ once = from
    /\ closed' = [closed EXCEPT ![s] = @ + 1]
    /\ once' = to
CloseA ==
    /\ CloseStream("a", "first", "second")
    /\ UNCHANGED <<sent, eof, read, delivered, pump, failed, errs, got, ctx, ticker>>
CloseB ==
    /\ CloseStream("b", "second", "done")
    /\ pump' = [s \in Side |-> IF pump[s] = "closing" THEN "done" ELSE pump[s]]
    /\ ticker' = IF ticker = "closing" THEN "done" ELSE ticker
    /\ got' = IF got.at = "closing" THEN [got EXCEPT !.at = "returned"] ELSE got
    /\ ctx' = (ctx \/ got.at = "closing")
    /\ UNCHANGED <<sent, eof, read, delivered, failed, errs>>

-----------------------------------------------------------------------------
(* The ticker goroutine and the caller.                                    *)

\* <-ctx.Done(); until then the ticker only pushes read deadlines forward.
TickerDone ==
    /\ ticker = "wait" /\ ctx
    /\ ticker' = "close"
    /\ UNCHANGED <<streams, pump, failed, errs, got, ctx, once>>
CloseTicker ==
    \E next \in {"closing", "done"} :
        /\ Enter(ticker, next)
        /\ ticker' = next
        /\ UNCHANGED <<streams, pump, failed, errs, got, ctx>>

\* The loop that takes both results, and the deferred closeBoth and cancel.
Collect ==
    /\ got.at = "collect" /\ errs > 0
    /\ errs' = errs - 1
    /\ got' = [n |-> got.n + 1, at |-> IF got.n + 1 = 2 THEN "close" ELSE "collect"]
    /\ UNCHANGED <<streams, pump, failed, ctx, ticker, once>>

CloseCaller ==
    \E next \in {"closing", "done"} :
        /\ Enter(got.at, next)
        /\ got' = [got EXCEPT !.at = IF next = "done" THEN "returned" ELSE "closing"]
        /\ ctx' = (ctx \/ next = "done")
        /\ UNCHANGED <<streams, pump, failed, errs, ticker>>

Steps(s) == Read(s) \/ Write(s) \/ Report(s) \/ CancelPump(s) \/ ClosePump(s)
Closing == CloseA \/ CloseB

CopyNext ==
    \/ \E s \in Side : Send(s) \/ Finish(s) \/ Steps(s)
    \/ Cancel \/ Closing \/ TickerDone \/ CloseTicker \/ Collect \/ CloseCaller

CopySpec == CopyInit /\ [][CopyNext]_copyVars

\* Every goroutine is scheduled; remote ends may stay silent for ever.
CopyFair ==
    /\ \A s \in Side : WF_copyVars(Steps(s))
    /\ WF_copyVars(Closing) /\ WF_copyVars(TickerDone) /\ WF_copyVars(CloseTicker)
    /\ WF_copyVars(Collect) /\ WF_copyVars(CloseCaller)

-----------------------------------------------------------------------------
(* Properties.                                                             *)

\* "Closes both streams exactly once, even under racy teardown", and "Returns
\* when both halves have completed": when CopyStreams returns, each stream has
\* been closed once and neither pump will touch a stream again.
CleanReturn ==
    /\ \A s \in Side : closed[s] <= 1
    /\ got.at = "returned" => \A s \in Side : closed[s] = 1 /\ pump[s] \notin {"read", "write"}

\* A direction that ran to its end of file has delivered every byte of it,
\* although the other direction may be torn down at any moment: what was read
\* and not delivered is at most the chunk whose write failed.
NothingDropped ==
    \A s \in Side :
        /\ read[s] - delivered[Other(s)] \in {0, 1}
        /\ read[s] # delivered[Other(s)] /\ pump[s] # "write" =>
               failed[s] \/ closed[Other(s)] > 0

\* CopyStreams tears both streams down exactly once and loses nothing it could
\* have delivered.
PumpFaithful == CleanReturn /\ NothingDropped

\* Once either end finishes or the context is cancelled, the call returns and
\* no goroutine is left behind.
AllGoroutinesEnd ==
    (ctx \/ \E s \in Side : eof[s])
        ~> (got.at = "returned" /\ ticker = "done" /\ \A s \in Side : pump[s] = "done")
==============================================================================
