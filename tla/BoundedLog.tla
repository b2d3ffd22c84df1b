------------------------------ MODULE BoundedLog ------------------------------
(***************************************************************************)
(* What pkg/shell/ring.go promises: a log that keeps the last LogCap bytes *)
(* ever written, counts the ones it let go, and answers a reader's cursor  *)
(* (an absolute offset) with the bytes from there on and the size of the   *)
(* gap.  A byte is identified by its offset in the stream, from 1.         *)
(***************************************************************************)
EXTENDS Naturals, Sequences

CONSTANTS
    LogCap,         \* capacity of the ring
    MaxChunk,       \* bound: bytes in one Write
    MaxWritten      \* bound: bytes ever written

VARIABLES
    kept,           \* the bytes still in the log
    gone,           \* how many were evicted
    resp            \* the last answer to a reader

logVars == <<kept, gone, resp>>

\* The bytes from + 1, ..., to of the stream.
Span(from, to) == [i \in 1..(to - from) |-> from + i]

Total == gone + Len(kept)

LogInit == kept = <<>> /\ gone = 0 /\ resp = [data |-> <<>>, cursor |-> 0, dropped |-> 0]

Append_(n) ==
    LET end == Total + n
        first == IF end > LogCap THEN end - LogCap ELSE 0
    IN  /\ kept' = Span(first, end) /\ gone' = first
        /\ UNCHANGED resp

Answer(cursor) ==
    LET from == IF cursor < gone THEN gone ELSE cursor
    IN  resp' = [data |-> IF from < Total THEN Span(from, Total) ELSE <<>>,
                 cursor |-> Total, dropped |-> from - cursor]

LogNext ==
    \/ \E n \in 1..MaxChunk : Append_(n)
    \/ \E cursor \in 0..(MaxWritten + 1) : Answer(cursor) /\ UNCHANGED <<kept, gone>>

LogSpec == LogInit /\ [][LogNext]_logVars
==============================================================================
