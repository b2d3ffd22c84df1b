--------------------------------- MODULE Ring ---------------------------------
(***************************************************************************)
(* pkg/shell/ring.go, the circular buffer behind background logs and the   *)
(* PTY's replay, with the indices it really computes.  Write and Read hold *)
(* the ring's mutex throughout, so each is one step.                       *)
(***************************************************************************)
EXTENDS Naturals, Sequences

CONSTANTS LogCap, MaxChunk, MaxWritten      \* see BoundedLog

ASSUME RingConstants == LogCap \in Nat \ {0} /\ MaxChunk \in Nat /\ MaxWritten \in Nat

VARIABLES
    buf,            \* r.buf, index 0..LogCap-1; 0 is a byte never written
    head, size,     \* r.head, r.size
    written,        \* r.written
    dropped,        \* r.dropped
    resp            \* the last answer of Read

ringVars == <<buf, head, size, written, dropped, resp>>

RingTypeOK ==
    /\ buf \in [0..(LogCap - 1) -> 0..MaxWritten]
    /\ head \in 0..(LogCap - 1) /\ size \in 0..LogCap
    /\ written \in 0..MaxWritten /\ dropped \in 0..MaxWritten
    /\ resp.data \in Seq(1..MaxWritten) /\ resp.cursor \in Nat /\ resp.dropped \in Nat

RingInit ==
    /\ buf = [i \in 0..(LogCap - 1) |-> 0]
    /\ head = 0 /\ size = 0 /\ written = 0 /\ dropped = 0
    /\ resp = [data |-> <<>>, cursor |-> 0, dropped |-> 0]

\* copy(r.buf[at:], p) for the n bytes p that follow offset `from`.
CopyIn(at, from, n) ==
    [i \in 0..(LogCap - 1) |-> IF i \in at..(at + n - 1) THEN from + (i - at) + 1 ELSE buf[i]]

\* A chunk of the capacity or more replaces everything.
WriteWhole(n) ==
    /\ n >= LogCap
    /\ dropped' = dropped + size + (n - LogCap)
    /\ buf' = CopyIn(0, written + n - LogCap, LogCap)
    /\ head' = 0 /\ size' = LogCap

\* MUTANT: the room in front of the end of the buffer is not split off.
WriteWrapped_NoSplit(n) ==
    LET overflow == IF size + n > LogCap THEN size + n - LogCap ELSE 0
        at == (head + overflow) % LogCap
        tail == (at + size - overflow) % LogCap
    IN  /\ n < LogCap
        /\ dropped' = dropped + overflow /\ head' = at /\ size' = size - overflow + n
        /\ buf' = CopyIn(tail, written, n)

\* A smaller one evicts what it needs from the front and may wrap around.
WriteWrapped(n) ==
    LET overflow == IF size + n > LogCap THEN size + n - LogCap ELSE 0
        at == (head + overflow) % LogCap
        tail == (at + size - overflow) % LogCap
        first == LogCap - tail
    IN  /\ n < LogCap
        /\ dropped' = dropped + overflow /\ head' = at /\ size' = size - overflow + n
        /\ buf' = IF first >= n THEN CopyIn(tail, written, n)
                  ELSE [i \in 0..(LogCap - 1) |->
                            CASE i >= tail -> written + (i - tail) + 1
                              [] i < n - first -> written + first + i + 1
                              [] OTHER -> buf[i]]

Write(n) ==
    /\ written + n <= MaxWritten
    /\ written' = written + n
    /\ WriteWhole(n) \/ WriteWrapped(n)
    /\ UNCHANGED resp

\* Read(cursor); the handler rejects a negative cursor and takes any other,
\* one beyond the end included.  Snapshot is Read(0).
Read(cursor) ==
    LET oldest == written - size
        start == IF cursor < oldest THEN oldest ELSE cursor
        n == written - start
        at == (head + (start - oldest)) % LogCap
    IN  /\ resp' = [data |-> IF start >= written THEN <<>>
                             ELSE [k \in 1..n |-> IF at + k - 1 < LogCap THEN buf[at + k - 1]
                                                  ELSE buf[at + k - 1 - LogCap]],
                    cursor |-> written,
                    dropped |-> start - cursor]
        /\ UNCHANGED <<buf, head, size, written, dropped>>

RingNext ==
    \/ \E n \in 1..MaxChunk : Write(n)
    \/ \E cursor \in 0..(MaxWritten + 1) : Read(cursor)

RingSpec == RingInit /\ [][RingNext]_ringVars

-----------------------------------------------------------------------------
(* Properties.                                                             *)

\* The content of the ring in order.
Content == [i \in 1..size |-> buf[(head + i - 1) % LogCap]]

Log == INSTANCE BoundedLog WITH kept <- Content, gone <- dropped

\* "retains only the most recent cap bytes", "exactly the bytes they haven't
\* seen yet": with every chunk size and every cursor, the circular buffer
\* answers as the bounded log does.
RingIsALog == Log!LogSpec

\* "A reader's cursor is an absolute byte offset": what is held and what was
\* evicted add up to what was written, so the cursors of an old reader stay
\* meaningful whatever has been overwritten since.
CursorsAddUp == dropped + size = written
==============================================================================
