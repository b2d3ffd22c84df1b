---------------------------- MODULE RuntimeProofs ----------------------------
(***************************************************************************)
(* Proofs about what the runtime keeps running: that the ring buffer       *)
(* implements the bounded log, for every capacity, chunk and cursor; that  *)
(* the PTY manager neither leaks slots nor shells; that a terminal's       *)
(* stream is what the shell printed, to one client at a time; and that the *)
(* project supervisor never loses a process.                               *)
(***************************************************************************)
EXTENDS MCRuntime, FiniteSetTheorems, SequenceTheorems, TLAPS

-----------------------------------------------------------------------------
(* Ring: the indices of the circular buffer.                               *)

\* An index that has gone past the end of the buffer.
Wrap(x, c) == IF x < c THEN x ELSE x - c

\* Every index the ring computes is below twice the capacity.
LEMMA WrapOnce ==
    ASSUME NEW x \in Nat, NEW c \in Nat \ {0}, x < c + c
    PROVE  x % c = Wrap(x, c) /\ Wrap(x, c) \in Nat /\ Wrap(x, c) < c
BY DEF Wrap

RingTypes ==
    /\ buf \in [0..(LogCap - 1) -> 0..MaxWritten]
    /\ head \in 0..(LogCap - 1) /\ size \in 0..LogCap
    /\ written \in 0..MaxWritten /\ dropped \in 0..MaxWritten
    /\ resp \in [data : Seq(1..MaxWritten), cursor : Nat, dropped : Nat]

\* The ring holds the last bytes written, in order, from head on, and it is full as soon
\* as anything was dropped.
RingInv ==
    /\ RingTypes /\ CursorsAddUp
    /\ dropped > 0 => size = LogCap
    /\ \A k \in 0..(size - 1) : buf[Wrap(head + k, LogCap)] = dropped + k + 1

LEMMA RingInitInv == RingInit => RingInv
BY RingConstants DEF RingInit, RingInv, RingTypes, CursorsAddUp

LEMMA RingNumbers ==
    ASSUME RingInv
    PROVE  /\ LogCap \in Nat \ {0} /\ MaxWritten \in Nat
           /\ head \in Nat /\ head < LogCap /\ size \in Nat /\ size <= LogCap
           /\ dropped \in Nat /\ written = dropped + size /\ written \in Nat
           /\ (dropped > 0 => size = LogCap)
BY RingConstants DEF RingInv, RingTypes, CursorsAddUp

\* A chunk that is smaller than the ring: what it overwrites is what was evicted.
LEMMA WrappedStep ==
    ASSUME RingInv, NEW n \in 1..MaxChunk, Write(n), WriteWrapped(n)
    PROVE  /\ buf' \in [0..(LogCap - 1) -> 0..MaxWritten] /\ head' \in 0..(LogCap - 1)
           /\ size' \in 0..LogCap /\ dropped' + size' = written + n
           /\ dropped' \in Nat /\ (dropped' > 0 => size' = LogCap)
           /\ \A k \in 0..(size' - 1) : buf'[Wrap(head' + k, LogCap)] = dropped' + k + 1
<1>1. /\ LogCap \in Nat \ {0} /\ n \in Nat \ {0} /\ n < LogCap /\ written + n <= MaxWritten
      /\ head \in Nat /\ head < LogCap /\ size \in Nat /\ size <= LogCap /\ MaxWritten \in Nat
      /\ dropped \in Nat /\ written = dropped + size /\ written \in Nat
      /\ (dropped > 0 => size = LogCap)
  <2>1. n < LogCap
    BY DEF WriteWrapped
  <2>2. written + n <= MaxWritten
    BY DEF Write
  <2>3. n \in Nat \ {0}
    BY RingConstants
  <2> QED
    BY <2>1, <2>2, <2>3, RingNumbers
<1>2. PICK ov \in Nat :
         /\ ov = IF size + n > LogCap THEN size + n - LogCap ELSE 0
         /\ ov <= n /\ ov <= size /\ size - ov + n <= LogCap
         /\ (ov > 0 => size - ov + n = LogCap)
  BY <1>1
<1>3. PICK t : t = (head' + size - ov) % LogCap
  OBVIOUS
<1>4. head' = (head + ov) % LogCap /\ dropped' = dropped + ov /\ size' = size - ov + n
  BY <1>2 DEF WriteWrapped
<1>5. head' = Wrap(head + ov, LogCap) /\ head' \in Nat /\ head' < LogCap
  <2>1. head + ov \in Nat /\ head + ov < LogCap + LogCap
    BY <1>1, <1>2
  <2> QED
    BY SMTT(30), <1>1, <1>4, <2>1, WrapOnce
<1>6. t = Wrap(head' + size - ov, LogCap) /\ t \in Nat /\ t < LogCap
  <2>1. head' + size - ov \in Nat /\ head' + size - ov < LogCap + LogCap
    BY <1>1, <1>2, <1>5
  <2> QED
    BY <1>1, <1>3, <2>1, WrapOnce
<1>7. buf' = IF LogCap - t >= n THEN CopyIn(t, written, n)
             ELSE [i \in 0..(LogCap - 1) |->
                       CASE i >= t -> written + (i - t) + 1
                         [] i < n - (LogCap - t) -> written + (LogCap - t) + i + 1
                         [] OTHER -> buf[i]]
  <2>1. t = (((head + ov) % LogCap) + size - ov) % LogCap
    BY <1>3, <1>4
  <2> QED
    BY <1>2, <2>1 DEF WriteWrapped
<1>8. buf \in [0..(LogCap - 1) -> 0..MaxWritten]
  BY DEF RingInv, RingTypes
<1>9. ASSUME NEW i \in 0..(LogCap - 1)
      PROVE  buf'[i] = IF i >= t /\ i < t + n THEN written + (i - t) + 1
                       ELSE IF i < t + n - LogCap THEN written + (LogCap - t) + i + 1 ELSE buf[i]
  <2>0. i \in Nat /\ i < LogCap
    BY <1>1
  <2>1. CASE LogCap - t >= n
    <3>1. buf'[i] = IF i \in t..(t + n - 1) THEN written + (i - t) + 1 ELSE buf[i]
      BY <1>7, <2>1 DEF CopyIn
    <3> QED
      BY <1>1, <1>6, <2>0, <2>1, <3>1
  <2>2. CASE ~(LogCap - t >= n)
    <3>1. buf'[i] = CASE i >= t -> written + (i - t) + 1
                      [] i < n - (LogCap - t) -> written + (LogCap - t) + i + 1
                      [] OTHER -> buf[i]
      BY <1>7, <2>2
    <3>2. CASE i >= t
      BY <1>1, <1>6, <2>0, <2>2, <3>1, <3>2
    <3>3. CASE i < t /\ i < n - (LogCap - t)
      BY <1>1, <1>6, <2>0, <2>2, <3>1, <3>3
    <3>4. CASE i < t /\ ~(i < n - (LogCap - t))
      BY <1>1, <1>6, <2>0, <2>2, <3>1, <3>4
    <3> QED
      BY <1>1, <1>6, <2>0, <3>2, <3>3, <3>4
  <2> QED
    BY <2>1, <2>2
<1>10. buf' \in [0..(LogCap - 1) -> 0..MaxWritten]
  <2>1. buf' = [i \in 0..(LogCap - 1) |-> buf'[i]]
    <3>1. CASE LogCap - t >= n
      BY <1>7, <3>1 DEF CopyIn
    <3>2. CASE ~(LogCap - t >= n)
      BY <1>7, <3>2
    <3> QED
      BY <3>1, <3>2
  <2>2. ASSUME NEW i \in 0..(LogCap - 1) PROVE buf'[i] \in 0..MaxWritten
    <3>1. i \in Nat /\ i < LogCap /\ buf[i] \in Nat /\ buf[i] <= MaxWritten
      BY <1>1, <1>8
    <3>2. CASE i >= t /\ i < t + n
      BY <1>1, <1>6, <1>9, <3>1, <3>2
    <3>3. CASE ~(i >= t /\ i < t + n) /\ i < t + n - LogCap
      BY <1>1, <1>6, <1>9, <3>1, <3>3
    <3>4. CASE ~(i >= t /\ i < t + n) /\ ~(i < t + n - LogCap)
      <4>1. buf'[i] = buf[i]
        BY <1>9, <3>4
      <4> QED
        BY <1>8, <4>1
    <3> QED
      BY <3>2, <3>3, <3>4
  <2> QED
    BY <2>1, <2>2
<1>11. ASSUME NEW k \in 0..(size' - 1)
       PROVE  buf'[Wrap(head' + k, LogCap)] = dropped' + k + 1
  <2>1. PICK x : x = Wrap(head' + k, LogCap)
    OBVIOUS
  <2>2. k \in Nat /\ k < size - ov + n
    BY <1>1, <1>2, <1>4
  <2>3. /\ x \in Nat /\ x < LogCap
        /\ k >= size - ov => x = Wrap(t + (k - (size - ov)), LogCap)
        /\ k < size - ov => /\ x = Wrap(head + (k + ov), LogCap)
                            /\ ~(x >= t /\ x < t + n) /\ ~(x < t + n - LogCap)
    <3>1. PICK h2 : h2 = head'
      OBVIOUS
    <3>2. /\ LogCap \in Nat \ {0} /\ head \in Nat /\ head < LogCap /\ size \in Nat /\ size <= LogCap
          /\ n \in Nat \ {0} /\ n < LogCap /\ ov \in Nat /\ ov <= n /\ ov <= size
          /\ size - ov + n <= LogCap
          /\ h2 \in Nat /\ h2 = Wrap(head + ov, LogCap) /\ h2 < LogCap
          /\ t \in Nat /\ t = Wrap(h2 + size - ov, LogCap) /\ t < LogCap
          /\ k \in Nat /\ k < size - ov + n
      BY <1>1, <1>2, <1>5, <1>6, <2>2, <3>1
    <3>3. /\ Wrap(h2 + k, LogCap) \in Nat /\ Wrap(h2 + k, LogCap) < LogCap
          /\ k >= size - ov => Wrap(h2 + k, LogCap) = Wrap(t + (k - (size - ov)), LogCap)
          /\ k < size - ov => /\ Wrap(h2 + k, LogCap) = Wrap(head + (k + ov), LogCap)
                              /\ ~(Wrap(h2 + k, LogCap) >= t /\ Wrap(h2 + k, LogCap) < t + n)
                              /\ ~(Wrap(h2 + k, LogCap) < t + n - LogCap)
      BY <3>2 DEF Wrap
    <3> QED
      BY <2>1, <3>1, <3>3
  <2>4. CASE k >= size - ov
    <3>1. buf'[x] = written + (k - (size - ov)) + 1
      BY <1>1, <1>2, <1>6, <1>9, <2>2, <2>3, <2>4 DEF Wrap
    <3> QED
      BY <1>1, <1>2, <1>4, <2>1, <2>2, <3>1
  <2>5. CASE k < size - ov
    <3>1. buf'[x] = buf[x]
      BY <1>1, <1>6, <1>9, <2>3, <2>5
    <3>2. k + ov \in 0..(size - 1)
      BY <1>1, <1>2, <2>2, <2>5
    <3>3. buf[Wrap(head + (k + ov), LogCap)] = dropped + (k + ov) + 1
      BY <3>2 DEF RingInv
    <3> QED
      BY <1>1, <1>2, <1>4, <2>1, <2>2, <2>3, <2>5, <3>1, <3>3
  <2> QED
    BY <1>1, <1>2, <2>2, <2>4, <2>5
<1>12. /\ head' \in 0..(LogCap - 1) /\ size' \in 0..LogCap /\ dropped' + size' = written + n
       /\ dropped' \in Nat /\ (dropped' > 0 => size' = LogCap)
  BY <1>1, <1>2, <1>4, <1>5
<1> QED
  BY <1>10, <1>11, <1>12
\* A chunk of the capacity or more: its last bytes are all there is.
LEMMA WholeStep ==
    ASSUME RingInv, NEW n \in 1..MaxChunk, Write(n), WriteWhole(n)
    PROVE  /\ buf' \in [0..(LogCap - 1) -> 0..MaxWritten] /\ head' \in 0..(LogCap - 1)
           /\ size' \in 0..LogCap /\ dropped' + size' = written + n
           /\ dropped' \in Nat /\ (dropped' > 0 => size' = LogCap)
           /\ \A k \in 0..(size' - 1) : buf'[Wrap(head' + k, LogCap)] = dropped' + k + 1
<1>1. n \in Nat \ {0} /\ n >= LogCap /\ written + n <= MaxWritten
  BY RingConstants DEF Write, WriteWhole
<1>2. head' = 0 /\ size' = LogCap /\ dropped' = dropped + size + (n - LogCap)
  BY DEF WriteWhole
<1>3. dropped' = written + n - LogCap /\ dropped' \in Nat
  BY <1>1, <1>2, RingNumbers
<1>4. buf' = [i \in 0..(LogCap - 1) |->
                IF i \in 0..(0 + LogCap - 1) THEN written + n - LogCap + (i - 0) + 1 ELSE buf[i]]
  BY DEF WriteWhole, CopyIn
<1>5. ASSUME NEW i \in 0..(LogCap - 1)
      PROVE  buf'[i] = dropped' + i + 1 /\ i \in Nat /\ i < LogCap
  <2>1. i \in Nat /\ i < LogCap /\ i \in 0..(0 + LogCap - 1) /\ i - 0 = i
    BY RingNumbers
  <2> QED
    BY <1>3, <1>4, <2>1
<1>6. buf' \in [0..(LogCap - 1) -> 0..MaxWritten]
  <2>1. buf' = [i \in 0..(LogCap - 1) |-> buf'[i]]
    BY <1>4
  <2>2. \A i \in 0..(LogCap - 1) : buf'[i] \in 0..MaxWritten
    BY <1>1, <1>3, <1>5, RingNumbers
  <2> QED
    BY <2>1, <2>2
<1>7. \A k \in 0..(size' - 1) : buf'[Wrap(head' + k, LogCap)] = dropped' + k + 1
  <2> SUFFICES ASSUME NEW k \in 0..(LogCap - 1)
               PROVE  buf'[Wrap(0 + k, LogCap)] = dropped' + k + 1
    BY <1>2
  <2>1. Wrap(0 + k, LogCap) = k
    BY RingNumbers DEF Wrap
  <2> QED
    BY <1>5, <2>1
<1> QED
  BY SMTT(30), <1>1, <1>2, <1>3, <1>6, <1>7, RingNumbers

\* Read answers a cursor with the bytes from there on, as far as they are still held.
LEMMA ReadAnswers ==
    ASSUME RingInv, NEW from \in Nat, Read(from),
           NEW start \in Nat, start = IF from < dropped THEN dropped ELSE from
    PROVE  /\ start >= from
           /\ resp' = [data |-> IF start < written THEN [k \in 1..(written - start) |-> start + k]
                                ELSE <<>>,
                       cursor |-> written, dropped |-> start - from]
<1>0. /\ LogCap \in Nat \ {0} /\ MaxWritten \in Nat
      /\ head \in Nat /\ head < LogCap /\ size \in Nat /\ size <= LogCap
      /\ dropped \in Nat /\ written = dropped + size /\ written \in Nat
  BY RingNumbers
<1>1. start \in Nat /\ start >= from /\ start >= dropped /\ written - size = dropped
  BY <1>0
<1> DEFINE at == (head + (start - dropped)) % LogCap
           data == IF start >= written THEN <<>>
                   ELSE [k \in 1..(written - start) |->
                            IF at + k - 1 < LogCap THEN buf[at + k - 1] ELSE buf[at + k - 1 - LogCap]]
<1>2. resp' = [data |-> data, cursor |-> written, dropped |-> start - from]
  BY <1>1 DEF Read
<1>3. CASE start >= written
  <2>1. data = <<>> /\ ~(start < written)
    BY <1>1, <1>3, <1>0
  <2> QED
    BY <1>1, <1>2, <2>1
<1>4. CASE start < written
  <2>1. at = Wrap(head + (start - dropped), LogCap) /\ at \in Nat /\ at < LogCap
    <3>1. /\ head + (start - dropped) \in Nat /\ head + (start - dropped) < LogCap + LogCap
          /\ LogCap \in Nat \ {0}
      BY <1>1, <1>4, <1>0
    <3> QED
      BY <3>1, WrapOnce
  <2> HIDE DEF at
  <2>2. ASSUME NEW k \in 1..(written - start)
        PROVE  (IF at + k - 1 < LogCap THEN buf[at + k - 1] ELSE buf[at + k - 1 - LogCap]) = start + k
    <3>1. PICK j : j = start - dropped + k - 1
      OBVIOUS
    <3>2. j \in Nat /\ j < size /\ dropped + j + 1 = start + k /\ k \in Nat \ {0}
      BY <1>1, <1>4, <3>1, <1>0
    <3>3. j \in 0..(size - 1)
      BY <3>2, <1>0
    <3>4. buf[Wrap(head + j, LogCap)] = start + k
      BY <3>2, <3>3 DEF RingInv
    <3>5. Wrap(head + j, LogCap) = IF at + k - 1 < LogCap THEN at + k - 1 ELSE at + k - 1 - LogCap
      BY <1>1, <1>4, <2>1, <3>1, <3>2, <1>0 DEF Wrap
    <3> QED
      BY <3>4, <3>5
  <2>3. data = [k \in 1..(written - start) |-> start + k]
    <3>1. ~(start >= written)
      BY <1>0, <1>1, <1>4
    <3> QED
      BY <2>2, <3>1
  <2> QED
    BY <1>1, <1>2, <1>4, <2>3
<1> QED
  BY <1>1, <1>3, <1>4, <1>0
\* The answer is well formed.
LEMMA AnswerTyped ==
    ASSUME RingInv, NEW from \in Nat, Read(from)
    PROVE  resp' \in [data : Seq(1..MaxWritten), cursor : Nat, dropped : Nat]
<1>1. PICK start \in Nat : start = IF from < dropped THEN dropped ELSE from
  BY RingNumbers
<1>2. /\ dropped \in Nat /\ size \in Nat /\ written = dropped + size /\ written \in Nat
      /\ MaxWritten \in Nat /\ written <= MaxWritten
  BY RingNumbers DEF RingInv, RingTypes
<1>3. /\ start >= from
      /\ resp' = [data |-> IF start < written THEN [k \in 1..(written - start) |-> start + k]
                           ELSE <<>>,
                  cursor |-> written, dropped |-> start - from]
  BY <1>1, ReadAnswers
<1>4. CASE start < written
  <2>1. written - start \in Nat
    BY <1>1, <1>2, <1>4
  <2>2. \A k \in 1..(written - start) : start + k \in 1..MaxWritten
    BY <1>1, <1>2, <1>4
  <2>3. [k \in 1..(written - start) |-> start + k] \in Seq(1..MaxWritten)
    <3>1. PICK m \in Nat : m = written - start
      BY <2>1
    <3>2. [k \in 1..m |-> start + k] \in [1..m -> 1..MaxWritten]
      BY <2>2, <3>1
    <3> QED
      <4>1. Seq(1..MaxWritten) = UNION {[1..j -> 1..MaxWritten] : j \in Nat}
        BY SeqDef
      <4>2. [k \in 1..m |-> start + k] \in UNION {[1..j -> 1..MaxWritten] : j \in Nat}
        BY <3>1, <3>2
      <4> QED
        BY <3>1, <4>1, <4>2
  <2> QED
    BY <1>1, <1>2, <1>3, <1>4, <2>3
<1>5. CASE ~(start < written)
  BY <1>1, <1>2, <1>3, <1>5
<1> QED
  BY <1>4, <1>5

LEMMA RingStepInv == RingInv /\ [RingNext]_ringVars => RingInv'
<1> SUFFICES ASSUME RingInv, [RingNext]_ringVars PROVE RingInv'
  OBVIOUS
<1>1. ASSUME NEW n \in 1..MaxChunk, Write(n) PROVE RingInv'
  <2>1. /\ buf' \in [0..(LogCap - 1) -> 0..MaxWritten] /\ head' \in 0..(LogCap - 1)
        /\ size' \in 0..LogCap /\ dropped' + size' = written + n
        /\ dropped' \in Nat /\ (dropped' > 0 => size' = LogCap)
        /\ \A k \in 0..(size' - 1) : buf'[Wrap(head' + k, LogCap)] = dropped' + k + 1
    BY <1>1, WholeStep, WrappedStep DEF Write
  <2>2. written' = written + n /\ written + n <= MaxWritten /\ resp' = resp /\ n \in Nat
    BY <1>1, RingConstants DEF Write
  <2>3. written \in Nat /\ resp \in [data : Seq(1..MaxWritten), cursor : Nat, dropped : Nat]
    BY RingNumbers DEF RingInv, RingTypes
  <2>4. written' \in 0..MaxWritten /\ dropped' \in 0..MaxWritten
    <3>1. /\ LogCap \in Nat /\ MaxWritten \in Nat /\ written \in Nat /\ n \in Nat
          /\ written' = written + n /\ written + n <= MaxWritten
      BY <2>2, <2>3, RingConstants
    <3>2. size' \in Nat /\ dropped' + size' = written + n /\ dropped' \in Nat
      <4>1. size' \in 0..LogCap
        BY <2>1
      <4>2. size' \in Nat
        BY <4>1, RingConstants
      <4> QED
        BY <2>1, <4>2
    <3>3. written' \in 0..MaxWritten
      BY <3>1
    <3>4. PICK d \in Nat, z \in Nat : d = dropped' /\ z = size'
      BY <3>2
    <3>5. d + z = written + n
      BY <3>2, <3>4
    <3>6. d \in 0..MaxWritten
      BY <3>1, <3>5
    <3> QED
      BY <3>3, <3>4, <3>6
  <2> QED
    BY <2>1, <2>2, <2>3, <2>4 DEF RingInv, RingTypes, CursorsAddUp
<1>2. ASSUME NEW from \in 0..(MaxWritten + 1), Read(from) PROVE RingInv'
  <2>1. from \in Nat
    BY RingConstants
  <2>2. resp' \in [data : Seq(1..MaxWritten), cursor : Nat, dropped : Nat]
    BY <1>2, <2>1, AnswerTyped
  <2>3. UNCHANGED <<buf, head, size, written, dropped>>
    BY <1>2 DEF Read
  <2> QED
    BY <2>2, <2>3 DEF RingInv, RingTypes, CursorsAddUp
<1>3. CASE UNCHANGED ringVars
  BY <1>3 DEF ringVars, RingInv, RingTypes, CursorsAddUp
<1> QED
  BY <1>1, <1>2, <1>3 DEF RingNext

LEMMA RingAlways == RingSpec => []RingInv
BY RingInitInv, RingStepInv, PTL DEF RingSpec

-----------------------------------------------------------------------------
(* Ring: it implements the bounded log.                                    *)

LEMMA ContentIsSpan ==
    RingInv => Content = Log!Span(dropped, written) /\ Log!Total = written
<1> SUFFICES ASSUME RingInv
             PROVE  Content = Log!Span(dropped, written) /\ Log!Total = written
  OBVIOUS
<1>1. /\ LogCap \in Nat \ {0} /\ head \in Nat /\ head < LogCap /\ size \in Nat /\ size <= LogCap
      /\ dropped \in Nat /\ written = dropped + size /\ written \in Nat /\ written - dropped = size
  BY RingNumbers
<1>2. ASSUME NEW i \in 1..size
      PROVE  buf[(head + i - 1) % LogCap] = dropped + i
  <2>1. PICK j : j = i - 1
    OBVIOUS
  <2>2. j \in Nat /\ j < size /\ head + i - 1 = head + j /\ dropped + j + 1 = dropped + i
    BY <1>1, <2>1
  <2>3. j \in 0..(size - 1)
    BY <1>1, <2>2
  <2>4. buf[Wrap(head + j, LogCap)] = dropped + i
    BY <2>2, <2>3 DEF RingInv
  <2>5. head + j \in Nat /\ head + j < LogCap + LogCap
    BY <1>1, <2>2
  <2>6. (head + j) % LogCap = Wrap(head + j, LogCap)
    BY <1>1, <2>5, WrapOnce
  <2> QED
    BY <2>2, <2>4, <2>6
<1>3. Content = [i \in 1..size |-> dropped + i]
  BY <1>2 DEF Content
<1>4. Len(Content) = size
  BY <1>1, <1>3
<1> QED
  BY <1>1, <1>3, <1>4 DEF Log!Span, Log!Total
LEMMA LogInitially == RingInit => Log!LogInit
<1> SUFFICES ASSUME RingInit PROVE Log!LogInit
  OBVIOUS
<1>1. size = 0 /\ dropped = 0 /\ resp = [data |-> <<>>, cursor |-> 0, dropped |-> 0]
  BY DEF RingInit
<1>2. Content = <<>>
  BY <1>1 DEF Content
<1> QED
  BY <1>1, <1>2 DEF Log!LogInit

\* One step of the ring is one step of the log.
LEMMA LogStep == RingInv /\ RingInv' /\ [RingNext]_ringVars => [Log!LogNext]_<<Content, dropped, resp>>
<1> SUFFICES ASSUME RingInv, RingInv', [RingNext]_ringVars
             PROVE  [Log!LogNext]_<<Content, dropped, resp>>
  OBVIOUS
<1>1. Content = Log!Span(dropped, written) /\ Log!Total = written
  BY ContentIsSpan
<1>2. (RingInv => Content = Log!Span(dropped, written) /\ Log!Total = written)'
  BY ContentIsSpan, PTL
<1>3. ASSUME NEW n \in 1..MaxChunk, Write(n) PROVE Log!Append_(n)
  <2>1. resp' = resp /\ written' = written + n
    BY <1>3 DEF Write
  <2>2. PICK d, z, w : d = dropped' /\ z = size' /\ w = written'
    OBVIOUS
  <2>3. d \in 0..MaxWritten /\ z \in 0..LogCap /\ w \in 0..MaxWritten
    BY <2>2 DEF RingInv, RingTypes
  <2>4. d \in Nat /\ z \in Nat /\ w \in Nat /\ z <= LogCap /\ LogCap \in Nat
    BY <2>3, RingConstants
  <2>5. d + z = w /\ (d > 0 => z = LogCap)
    BY <2>2 DEF RingInv, CursorsAddUp
  <2>6. d = IF w > LogCap THEN w - LogCap ELSE 0
    BY <2>4, <2>5
  <2>7. dropped' = IF written' > LogCap THEN written' - LogCap ELSE 0
    BY <2>2, <2>6
  <2> QED
    BY <1>1, <1>2, <2>1, <2>7 DEF Log!Append_
<1>4. ASSUME NEW from \in 0..(MaxWritten + 1), Read(from)
      PROVE  Log!Answer(from) /\ Content' = Content /\ dropped' = dropped
  <2>1. from \in Nat
    BY RingConstants
  <2>2. PICK start \in Nat : start = IF from < dropped THEN dropped ELSE from
    BY <2>1, RingNumbers
  <2>3. resp' = [data |-> IF start < written THEN [k \in 1..(written - start) |-> start + k]
                          ELSE <<>>,
                 cursor |-> written, dropped |-> start - from]
    BY <1>4, <2>1, <2>2, ReadAnswers
  <2>4. Log!Answer(from)
    BY <1>1, <2>2, <2>3 DEF Log!Answer, Log!Span
  <2> QED
    BY <1>4, <2>4 DEF Read, Content
<1>5. CASE UNCHANGED ringVars
  BY <1>5 DEF ringVars, Content
<1> QED
  BY <1>3, <1>4, <1>5 DEF RingNext, Log!LogNext

\* Module Ring by itself: the circular buffer implements the bounded log, whatever its
\* capacity, the chunks written to it and the cursors it is asked for (ring.go).
THEOREM RingImplementsLog == RingSpec => RingIsALog
BY RingAlways, LogInitially, LogStep, PTL DEF RingSpec, RingIsALog, Log!LogSpec, Log!logVars
-----------------------------------------------------------------------------
(* PtyManager.                                                             *)

\* The calls that hold a slot, and the PTYs whose releaser will give one back.
Holders == {k \in Caller : call[k].pc \in {"spawn", "insert", "lost"}}
Waiters == {p \in Pty : releaser[p] = "wait"}

\* A shell in the hands of the call that made it.
Carries(k) == call[k].pc \in {"insert", "lost"}

\* A call under way knows its id and, from newPTY on, a shell of its own that nobody
\* else has; a shell without one has its releaser, until it is dead.
CallInv ==
    /\ \A k \in Caller : call[k].pc # "idle" => call[k].id \in PtyId
    /\ \A k \in Caller : Carries(k) =>
          /\ call[k].own \in Pty /\ life[call[k].own] # "none" /\ releaser[call[k].own] = "none"
          /\ ptyOf[call[k].own] = call[k].id
          /\ call[k].pc = "lost" => life[call[k].own] # "open"
    /\ \A j, k \in Caller : Carries(j) /\ Carries(k) /\ call[j].own = call[k].own => j = k

LifeInv ==
    /\ \A p \in Pty : releaser[p] # "none" => life[p] # "none"
    /\ \A p \in Pty : releaser[p] \in {"delete", "done"} => life[p] = "done"
    /\ \A p \in Pty : life[p] # "none" => ptyOf[p] \in PtyId
    /\ \A p \in Pty : life[p] \in {"open", "flagged"} =>
          releaser[p] = "wait" \/ \E k \in Caller : Carries(k) /\ call[k].own = p

PtyInv == PtyTypeOK /\ CallInv /\ LifeInv /\ NoOrphan /\ PtySlotsExact

\* The types PtyTypeOK gives the variables.
Pcs == {"idle", "slot", "spawn", "insert", "lost"}
CallRecord == [pc : Pcs, id : PtyId \cup {NoPty}, own : Pty \cup {NoPty}]

LEMMA PtyInitInv == PtyInit => PtyInv
<1> SUFFICES ASSUME PtyInit PROVE PtyInv
  OBVIOUS
<1>1. PtyTypeOK
  BY PtyConstants DEF PtyInit, PtyTypeOK, NoCall
<1>2. CallInv /\ LifeInv /\ NoOrphan
  BY DEF PtyInit, CallInv, LifeInv, NoOrphan, Carries, NoCall
<1>3. PtySlotsExact
  <2>1. {k \in Caller : call[k].pc \in {"spawn", "insert", "lost"}} = {}
    BY DEF PtyInit, NoCall
  <2>2. {p \in Pty : releaser[p] = "wait"} = {}
    BY DEF PtyInit
  <2> QED
    BY SMTT(30), <2>1, <2>2, FS_EmptySet DEF PtyInit, PtySlotsExact
<1> QED
  BY <1>1, <1>2, <1>3 DEF PtyInv

LEMMA FiniteParts == IsFiniteSet(Holders) /\ IsFiniteSet(Waiters)
<1>1. Holders \in SUBSET Caller /\ Waiters \in SUBSET Pty
  BY DEF Holders, Waiters
<1> QED
  BY <1>1, PtyConstants, FS_Subset

\* Who holds a slot finds it counted.
LEMMA SlotTaken ==
    ASSUME PtySlotsExact, Holders # {} \/ Waiters # {}
    PROVE  slots \in Nat \ {0}
<1>1. /\ Cardinality(Holders) \in Nat /\ Cardinality(Waiters) \in Nat
      /\ Cardinality(Holders) = 0 <=> Holders = {}
      /\ Cardinality(Waiters) = 0 <=> Waiters = {}
  BY FiniteParts, FS_CardinalityType, FS_EmptySet
<1>2. slots = Cardinality(Holders) + Cardinality(Waiters)
  BY DEF PtySlotsExact, Holders, Waiters
<1>3. PICK x \in Nat, y \in Nat : x = Cardinality(Holders) /\ y = Cardinality(Waiters)
  BY <1>1
<1>4. x # 0 \/ y # 0
  BY <1>1, <1>3
<1> QED
  BY <1>2, <1>3, <1>4

LEMMA PtyTypeStep == PtyInv /\ PtyNext => PtyTypeOK'
<1> SUFFICES ASSUME PtyInv, PtyNext PROVE PtyTypeOK'
  OBVIOUS
<1>0. PtyTypeOK
  BY DEF PtyInv
<1>1. ASSUME NEW k \in Caller, NEW i \in PtyId, Lookup(k, i) PROVE PtyTypeOK'
  BY ZenonT(40), <1>0, <1>1 DEF PtyTypeOK, Lookup
<1>2. ASSUME NEW k \in Caller, TakeSlot(k) PROVE PtyTypeOK'
  BY <1>0, <1>2, PtyConstants DEF PtyTypeOK, TakeSlot, At, Return, NoCall
<1>6. ASSUME NEW k \in Caller, Lose(k) PROVE PtyTypeOK'
  BY ZenonT(40), <1>0, <1>6 DEF PtyTypeOK, Lose, At, CloseFlag
<1>8. ASSUME NEW p \in Pty, BashGone(p) \/ Done(p) \/ Sweep(p) PROVE PtyTypeOK'
  BY <1>0, <1>8 DEF PtyTypeOK, BashGone, Done, Sweep, CloseFlag
<1>9. ASSUME NEW p \in Pty, Deleted(p) PROVE PtyTypeOK'
  BY <1>0, <1>9 DEF PtyTypeOK, Deleted
<1>10. ASSUME NEW i \in PtyId, ClosePty(i) PROVE PtyTypeOK'
  BY <1>0, <1>10 DEF PtyTypeOK, ClosePty, CloseFlag
<1>11. ASSUME NEW i \in PtyId, gcList(i) PROVE PtyTypeOK'
  BY <1>0, <1>11 DEF PtyTypeOK, gcList
<1>12. CASE CloseAll
  BY <1>0, <1>12 DEF PtyTypeOK, CloseAll
<1>13. ASSUME NEW k \in Caller, SpawnFails(k) PROVE PtyTypeOK'
  <2>1. slots \in Nat \ {0}
    BY <1>13, SlotTaken DEF PtyInv, SpawnFails, Holders
  <2> QED
    BY <1>0, <1>13, <2>1, PtyConstants DEF PtyTypeOK, SpawnFails, Return, NoCall
<1>14. ASSUME NEW k \in Caller, newPTY(k) PROVE PtyTypeOK'
  <2>1. PICK p \in Pty : p = CHOOSE q \in Pty : life[q] = "none"
    BY <1>14 DEF newPTY
  <2>2. /\ life' = [life EXCEPT ![p] = "open"] /\ ptyOf' = [ptyOf EXCEPT ![p] = call[k].id]
        /\ call' = [call EXCEPT ![k].pc = "insert", ![k].own = p]
        /\ UNCHANGED <<ptys, slots, releaser, sweep>>
    BY <1>14, <2>1 DEF newPTY
  <2> QED
    BY ZenonT(40), <1>0, <2>2 DEF PtyTypeOK
<1>15. ASSUME NEW k \in Caller, Insert(k) PROVE PtyTypeOK'
  <2>1. call[k].own \in Pty
    BY <1>15 DEF PtyInv, CallInv, Carries, Insert
  <2> QED
    BY <1>0, <1>15, <2>1 DEF PtyTypeOK, Insert, Return, NoCall
<1>16. ASSUME NEW k \in Caller, Lost(k) PROVE PtyTypeOK'
  <2>1. slots \in Nat \ {0}
    BY <1>16, SlotTaken DEF PtyInv, Lost, Holders
  <2> QED
    BY <1>0, <1>16, <2>1, PtyConstants DEF PtyTypeOK, Lost, Return, NoCall
<1>17. ASSUME NEW p \in Pty, Released(p) PROVE PtyTypeOK'
  <2>1. slots \in Nat \ {0}
    BY <1>17, SlotTaken DEF PtyInv, Released, Waiters
  <2> QED
    BY <1>0, <1>17, <2>1, PtyConstants DEF PtyTypeOK, Released
<1> QED
  BY <1>1, <1>2, <1>6, <1>8, <1>9, <1>10, <1>11, <1>12, <1>13, <1>14, <1>15, <1>16, <1>17
     DEF PtyNext, Creating

LEMMA CallStep == PtyInv /\ PtyNext => CallInv'
<1> SUFFICES ASSUME PtyInv, PtyNext PROVE CallInv'
  OBVIOUS
<1>0. PtyTypeOK /\ CallInv /\ LifeInv
  BY DEF PtyInv
<1>1. ASSUME NEW k \in Caller, NEW i \in PtyId, Lookup(k, i) PROVE CallInv'
  BY <1>0, <1>1 DEF PtyTypeOK, CallInv, Carries, Lookup
<1>2. ASSUME NEW k \in Caller, TakeSlot(k) PROVE CallInv'
  BY SMTT(30), <1>0, <1>2 DEF PtyTypeOK, CallInv, Carries, TakeSlot, At, Return, NoCall
<1>3. ASSUME NEW k \in Caller, SpawnFails(k) PROVE CallInv'
  BY <1>0, <1>3 DEF PtyTypeOK, CallInv, Carries, SpawnFails, Return, NoCall
<1>4. ASSUME NEW k \in Caller, newPTY(k) PROVE CallInv'
  <2>1. PICK p \in Pty : p = (CHOOSE q \in Pty : life[q] = "none") /\ life[p] = "none"
    BY <1>4 DEF newPTY
  <2>2. /\ life' = [life EXCEPT ![p] = "open"] /\ ptyOf' = [ptyOf EXCEPT ![p] = call[k].id]
        /\ call' = [call EXCEPT ![k].pc = "insert", ![k].own = p]
        /\ UNCHANGED <<ptys, slots, releaser, sweep>> /\ call[k].pc = "spawn"
    BY <1>4, <2>1 DEF newPTY
  <2> QED
    BY <1>0, <2>1, <2>2 DEF PtyTypeOK, CallInv, LifeInv, Carries
<1>5. ASSUME NEW k \in Caller, Insert(k) PROVE CallInv'
  BY <1>0, <1>5 DEF PtyTypeOK, CallInv, Carries, Insert, Return, NoCall
<1>6. ASSUME NEW k \in Caller, Lose(k) PROVE CallInv'
  BY <1>0, <1>6 DEF PtyTypeOK, CallInv, Carries, Lose, At, CloseFlag
<1>7. ASSUME NEW k \in Caller, Lost(k) PROVE CallInv'
  BY <1>0, <1>7 DEF PtyTypeOK, CallInv, Carries, Lost, Return, NoCall
<1>8. ASSUME NEW p \in Pty, BashGone(p) \/ Done(p) \/ Sweep(p) PROVE CallInv'
  BY <1>0, <1>8 DEF PtyTypeOK, CallInv, Carries, BashGone, Done, Sweep, CloseFlag
<1>9. ASSUME NEW p \in Pty, Released(p) \/ Deleted(p) PROVE CallInv'
  BY <1>0, <1>9 DEF PtyTypeOK, CallInv, Carries, Released, Deleted
<1>10. ASSUME NEW i \in PtyId, ClosePty(i) \/ gcList(i) PROVE CallInv'
  BY <1>0, <1>10 DEF PtyTypeOK, CallInv, Carries, ClosePty, gcList, CloseFlag
<1>11. CASE CloseAll
  BY <1>0, <1>11 DEF PtyTypeOK, CallInv, Carries, CloseAll
<1> QED
  BY <1>1, <1>2, <1>3, <1>4, <1>5, <1>6, <1>7, <1>8, <1>9, <1>10, <1>11 DEF PtyNext, Creating
LEMMA LifeStep == PtyInv /\ PtyNext => LifeInv'
<1> SUFFICES ASSUME PtyInv, PtyNext PROVE LifeInv'
  OBVIOUS
<1>0. PtyTypeOK /\ CallInv /\ LifeInv
  BY DEF PtyInv
<1>1. ASSUME NEW k \in Caller, NEW i \in PtyId, Lookup(k, i) PROVE LifeInv'
  BY <1>0, <1>1 DEF PtyTypeOK, LifeInv, Carries, Lookup
<1>2. ASSUME NEW k \in Caller, TakeSlot(k) PROVE LifeInv'
  BY <1>0, <1>2 DEF PtyTypeOK, LifeInv, Carries, TakeSlot, At, Return, NoCall
<1>3. ASSUME NEW k \in Caller, SpawnFails(k) PROVE LifeInv'
  BY <1>0, <1>3 DEF PtyTypeOK, LifeInv, Carries, SpawnFails, Return, NoCall
<1>4. ASSUME NEW k \in Caller, newPTY(k) PROVE LifeInv'
  <2>1. PICK p \in Pty : p = (CHOOSE q \in Pty : life[q] = "none") /\ life[p] = "none"
    BY <1>4 DEF newPTY
  <2>2. /\ life' = [life EXCEPT ![p] = "open"] /\ ptyOf' = [ptyOf EXCEPT ![p] = call[k].id]
        /\ call' = [call EXCEPT ![k].pc = "insert", ![k].own = p]
        /\ UNCHANGED <<ptys, slots, releaser, sweep>> /\ call[k].pc = "spawn"
    BY <1>4, <2>1 DEF newPTY
  <2>3. call[k].id \in PtyId
    BY <1>0, <2>2 DEF CallInv
  <2> QED
    BY <1>0, <2>1, <2>2, <2>3 DEF PtyTypeOK, LifeInv, Carries
<1>5. ASSUME NEW k \in Caller, Insert(k) PROVE LifeInv'
  BY <1>0, <1>5 DEF PtyTypeOK, CallInv, LifeInv, Carries, Insert, Return, NoCall
<1>6. ASSUME NEW k \in Caller, Lose(k) PROVE LifeInv'
  BY <1>0, <1>6 DEF PtyTypeOK, CallInv, LifeInv, Carries, Lose, At, CloseFlag
<1>7. ASSUME NEW k \in Caller, Lost(k) PROVE LifeInv'
  BY <1>0, <1>7 DEF PtyTypeOK, CallInv, LifeInv, Carries, Lost, Return, NoCall
<1>8. ASSUME NEW p \in Pty, BashGone(p) \/ Done(p) \/ Sweep(p) PROVE LifeInv'
  BY <1>0, <1>8 DEF PtyTypeOK, LifeInv, Carries, BashGone, Done, Sweep, CloseFlag
<1>9. ASSUME NEW p \in Pty, Released(p) \/ Deleted(p) PROVE LifeInv'
  BY <1>0, <1>9 DEF PtyTypeOK, LifeInv, Carries, Released, Deleted
<1>10. ASSUME NEW i \in PtyId, ClosePty(i) \/ gcList(i) PROVE LifeInv'
  BY <1>0, <1>10 DEF PtyTypeOK, LifeInv, Carries, ClosePty, gcList, CloseFlag
<1>11. CASE CloseAll
  BY <1>0, <1>11 DEF PtyTypeOK, LifeInv, Carries, CloseAll
<1> QED
  BY <1>1, <1>2, <1>3, <1>4, <1>5, <1>6, <1>7, <1>8, <1>9, <1>10, <1>11 DEF PtyNext, Creating

LEMMA OrphanStep == PtyInv /\ PtyNext => NoOrphan'
<1> SUFFICES ASSUME PtyInv, PtyNext PROVE NoOrphan'
  OBVIOUS
<1>0. PtyTypeOK /\ CallInv /\ LifeInv /\ NoOrphan
  BY DEF PtyInv
<1>1. ASSUME NEW k \in Caller, NEW i \in PtyId, Lookup(k, i) PROVE NoOrphan'
  BY <1>0, <1>1 DEF PtyTypeOK, NoOrphan, Lookup
<1>2. ASSUME NEW k \in Caller, TakeSlot(k) PROVE NoOrphan'
  BY <1>0, <1>2 DEF PtyTypeOK, NoOrphan, TakeSlot, At, Return, NoCall
<1>3. ASSUME NEW k \in Caller, SpawnFails(k) PROVE NoOrphan'
  BY <1>0, <1>3 DEF PtyTypeOK, NoOrphan, SpawnFails, Return, NoCall
<1>4. ASSUME NEW k \in Caller, newPTY(k) PROVE NoOrphan'
  <2>1. PICK p \in Pty : p = (CHOOSE q \in Pty : life[q] = "none") /\ life[p] = "none"
    BY <1>4 DEF newPTY
  <2>2. /\ life' = [life EXCEPT ![p] = "open"] /\ ptyOf' = [ptyOf EXCEPT ![p] = call[k].id]
        /\ call' = [call EXCEPT ![k].pc = "insert", ![k].own = p]
        /\ UNCHANGED <<ptys, slots, releaser, sweep>> /\ call[k].pc = "spawn"
    BY <1>4, <2>1 DEF newPTY
  <2> QED
    BY <1>0, <2>1, <2>2 DEF PtyTypeOK, NoOrphan
<1>5. ASSUME NEW k \in Caller, Insert(k) PROVE NoOrphan'
  BY <1>0, <1>5, PtyConstants
     DEF PtyTypeOK, CallInv, NoOrphan, Carries, Insert, Return, NoCall, Wins, IsOpen, IsClosed
<1>6. ASSUME NEW k \in Caller, Lose(k) PROVE NoOrphan'
  BY <1>0, <1>6 DEF PtyTypeOK, CallInv, NoOrphan, Carries, Lose, At, CloseFlag
<1>7. ASSUME NEW k \in Caller, Lost(k) PROVE NoOrphan'
  BY <1>0, <1>7 DEF PtyTypeOK, NoOrphan, Lost, Return, NoCall
<1>8. ASSUME NEW p \in Pty, BashGone(p) \/ Done(p) \/ Sweep(p) PROVE NoOrphan'
  BY <1>0, <1>8 DEF PtyTypeOK, NoOrphan, BashGone, Done, Sweep, CloseFlag
<1>9. ASSUME NEW p \in Pty, Released(p) \/ Deleted(p) PROVE NoOrphan'
  BY <1>0, <1>9 DEF PtyTypeOK, LifeInv, NoOrphan, Released, Deleted, StillOurs
<1>10. ASSUME NEW i \in PtyId, ClosePty(i) \/ gcList(i) PROVE NoOrphan'
  BY <1>0, <1>10 DEF PtyTypeOK, NoOrphan, ClosePty, gcList, CloseFlag
<1>11. CASE CloseAll
  BY <1>0, <1>11, PtyConstants DEF PtyTypeOK, LifeInv, NoOrphan, CloseAll
<1> QED
  BY <1>1, <1>2, <1>3, <1>4, <1>5, <1>6, <1>7, <1>8, <1>9, <1>10, <1>11 DEF PtyNext, Creating
LEMMA SlotsCounted == PtySlotsExact <=> slots = Cardinality(Holders) + Cardinality(Waiters)
BY DEF PtySlotsExact, Holders, Waiters

\* What a step does to the two sets that hold slots decides what it owes the semaphore.
LEMMA SlotsMoved ==
    ASSUME PtySlotsExact, NEW k, NEW p,
           \/ slots' = slots /\ Holders' = Holders /\ Waiters' = Waiters
           \/ slots' = slots + 1 /\ k \notin Holders /\ Holders' = Holders \cup {k} /\ Waiters' = Waiters
           \/ slots' = slots - 1 /\ k \in Holders /\ Holders' = Holders \ {k} /\ Waiters' = Waiters
           \/ slots' = slots - 1 /\ p \in Waiters /\ Waiters' = Waiters \ {p} /\ Holders' = Holders
           \/ /\ slots' = slots /\ k \in Holders /\ Holders' = Holders \ {k}
              /\ p \notin Waiters /\ Waiters' = Waiters \cup {p}
    PROVE  slots' = Cardinality(Holders') + Cardinality(Waiters')
<1>1. PICK h \in Nat, w \in Nat : h = Cardinality(Holders) /\ w = Cardinality(Waiters) /\ slots = h + w
  BY FiniteParts, FS_CardinalityType, SlotsCounted
<1>2. /\ Cardinality(Holders \cup {k}) = IF k \in Holders THEN h ELSE h + 1
      /\ Cardinality(Waiters \cup {p}) = IF p \in Waiters THEN w ELSE w + 1
  BY <1>1, FiniteParts, FS_AddElement
<1>3. /\ Cardinality(Holders \ {k}) = IF k \in Holders THEN h - 1 ELSE h
      /\ Cardinality(Waiters \ {p}) = IF p \in Waiters THEN w - 1 ELSE w
  BY <1>1, FiniteParts, FS_RemoveElement
<1>4. CASE slots' = slots /\ Holders' = Holders /\ Waiters' = Waiters
  BY <1>1, <1>4
<1>5. CASE slots' = slots + 1 /\ k \notin Holders /\ Holders' = Holders \cup {k} /\ Waiters' = Waiters
  BY <1>1, <1>2, <1>5
<1>6. CASE slots' = slots - 1 /\ k \in Holders /\ Holders' = Holders \ {k} /\ Waiters' = Waiters
  BY <1>1, <1>3, <1>6
<1>7. CASE slots' = slots - 1 /\ p \in Waiters /\ Waiters' = Waiters \ {p} /\ Holders' = Holders
  BY <1>1, <1>3, <1>7
<1>8. CASE /\ slots' = slots /\ k \in Holders /\ Holders' = Holders \ {k}
           /\ p \notin Waiters /\ Waiters' = Waiters \cup {p}
  BY <1>1, <1>2, <1>3, <1>8
<1> QED
  BY <1>4, <1>5, <1>6, <1>7, <1>8

LEMMA SlotsStep == PtyInv /\ PtyNext => slots' = Cardinality(Holders') + Cardinality(Waiters')
<1> SUFFICES ASSUME PtyInv, PtyNext PROVE slots' = Cardinality(Holders') + Cardinality(Waiters')
  OBVIOUS
<1>0. PtyTypeOK /\ CallInv /\ LifeInv /\ PtySlotsExact
  BY DEF PtyInv
<1>1. ASSUME NEW k \in Caller, NEW i \in PtyId, Lookup(k, i)
      PROVE  slots' = slots /\ Holders' = Holders /\ Waiters' = Waiters
  BY <1>0, <1>1 DEF PtyTypeOK, Holders, Waiters, Lookup
<1>2. ASSUME NEW k \in Caller, TakeSlot(k)
      PROVE  \/ slots' = slots /\ Holders' = Holders /\ Waiters' = Waiters
             \/ slots' = slots + 1 /\ k \notin Holders /\ Holders' = Holders \cup {k} /\ Waiters' = Waiters
  <2>1. CASE slots' = slots + 1 /\ At(k, "spawn")
    BY <1>0, <1>2, <2>1 DEF PtyTypeOK, Holders, Waiters, TakeSlot, At
  <2>2. CASE UNCHANGED slots /\ Return(k)
    BY <1>0, <1>2, <2>2 DEF PtyTypeOK, Holders, Waiters, TakeSlot, Return, NoCall
  <2> QED
    BY <1>2, <2>1, <2>2 DEF TakeSlot
<1>3. ASSUME NEW k \in Caller, SpawnFails(k) \/ Lost(k)
      PROVE  slots' = slots - 1 /\ k \in Holders /\ Holders' = Holders \ {k} /\ Waiters' = Waiters
  BY <1>0, <1>3 DEF PtyTypeOK, Holders, Waiters, SpawnFails, Lost, Return, NoCall
<1>4. ASSUME NEW k \in Caller, newPTY(k)
      PROVE  slots' = slots /\ Holders' = Holders /\ Waiters' = Waiters
  <2>1. PICK p \in Pty : p = (CHOOSE q \in Pty : life[q] = "none")
    BY <1>4 DEF newPTY
  <2>2. /\ call' = [call EXCEPT ![k].pc = "insert", ![k].own = p]
        /\ UNCHANGED <<slots, releaser>> /\ call[k].pc = "spawn"
    BY <1>4, <2>1 DEF newPTY
  <2> QED
    BY <1>0, <2>2 DEF PtyTypeOK, Holders, Waiters
<1>5. ASSUME NEW k \in Caller, Insert(k)
      PROVE  \E p : /\ slots' = slots /\ k \in Holders /\ Holders' = Holders \ {k}
                    /\ p \notin Waiters /\ Waiters' = Waiters \cup {p}
  <2>1. call[k].own \in Pty /\ releaser[call[k].own] = "none"
    BY <1>0, <1>5 DEF CallInv, Carries, Insert
  <2>2. slots' = slots /\ k \in Holders /\ Holders' = Holders \ {k}
    BY <1>0, <1>5 DEF PtyTypeOK, Holders, Insert, Return, NoCall
  <2>3. call[k].own \notin Waiters /\ Waiters' = Waiters \cup {call[k].own}
    BY <1>0, <1>5, <2>1 DEF PtyTypeOK, Waiters, Insert
  <2> QED
    BY <2>2, <2>3
<1>6. ASSUME NEW k \in Caller, Lose(k)
      PROVE  slots' = slots /\ Holders' = Holders /\ Waiters' = Waiters
  BY <1>0, <1>6 DEF PtyTypeOK, Holders, Waiters, Lose, At
<1>7. ASSUME NEW p \in Pty, Released(p)
      PROVE  slots' = slots - 1 /\ p \in Waiters /\ Waiters' = Waiters \ {p} /\ Holders' = Holders
  BY <1>0, <1>7 DEF PtyTypeOK, Holders, Waiters, Released
<1>8. ASSUME NEW p \in Pty, BashGone(p) \/ Done(p) \/ Deleted(p) \/ Sweep(p)
      PROVE  slots' = slots /\ Holders' = Holders /\ Waiters' = Waiters
  BY <1>0, <1>8 DEF PtyTypeOK, Holders, Waiters, BashGone, Done, Deleted, Sweep
<1>9. ASSUME NEW i \in PtyId, ClosePty(i) \/ gcList(i)
      PROVE  slots' = slots /\ Holders' = Holders /\ Waiters' = Waiters
  BY <1>9 DEF Holders, Waiters, ClosePty, gcList
<1>10. CASE CloseAll
  <2>1. slots' = slots /\ Holders' = Holders /\ Waiters' = Waiters
    BY <1>10 DEF Holders, Waiters, CloseAll
  <2> QED
    BY <1>0, <2>1, SlotsMoved
<1> QED
  BY <1>0, <1>1, <1>2, <1>3, <1>4, <1>5, <1>6, <1>7, <1>8, <1>9, <1>10, SlotsMoved DEF PtyNext, Creating

LEMMA PtyStepInv == PtyInv /\ [PtyNext]_ptyVars => PtyInv'
<1>1. CASE PtyInv /\ PtyNext
  <2>1. slots' = Cardinality(Holders') + Cardinality(Waiters')
    BY <1>1, SlotsStep
  <2>2. PtySlotsExact'
    BY <2>1 DEF PtySlotsExact, Holders, Waiters
  <2> QED
    BY <1>1, <2>2, PtyTypeStep, CallStep, LifeStep, OrphanStep DEF PtyInv
<1>2. CASE PtyInv /\ UNCHANGED ptyVars
  BY <1>2 DEF PtyInv, PtyTypeOK, CallInv, LifeInv, NoOrphan, PtySlotsExact, Carries, IsOpen, ptyVars
<1> QED
  BY <1>1, <1>2

\* Every shell that runs is paid for by a slot: its releaser's, or its call's.
LEMMA CapHolds == PtyInv => LiveCapped
<1> SUFFICES ASSUME PtyInv PROVE LiveCapped
  OBVIOUS
<1> DEFINE Live == {p \in Pty : life[p] \in {"open", "flagged"}}
           Carriers == {k \in Caller : Carries(k)}
           Owned == {call[k].own : k \in Carriers}
<1>0. PtyTypeOK /\ CallInv /\ LifeInv /\ PtySlotsExact
  BY DEF PtyInv
<1>1. Live \subseteq Waiters \cup Owned
  BY <1>0 DEF LifeInv, Waiters
<1>2. Carriers \subseteq Holders
  BY DEF Carries, Holders
<1>3. IsFiniteSet(Carriers) /\ Cardinality(Carriers) <= Cardinality(Holders)
  BY <1>2, FiniteParts, FS_Subset
<1>4. IsFiniteSet(Owned) /\ Cardinality(Owned) <= Cardinality(Carriers)
  <2>1. [k \in Carriers |-> call[k].own] \in Surjection(Carriers, Owned)
    BY DEF Surjection
  <2> QED
    BY <1>3, <2>1, FS_Surjection
<1>5. /\ IsFiniteSet(Waiters \cup Owned)
      /\ Cardinality(Waiters \cup Owned) =
            Cardinality(Waiters) + Cardinality(Owned) - Cardinality(Waiters \cap Owned)
  BY <1>4, FiniteParts, FS_Union
<1>6. Cardinality(Waiters \cap Owned) \in Nat
  <2>1. IsFiniteSet(Waiters \cap Owned)
    BY FiniteParts, FS_Intersection
  <2> QED
    BY <2>1, FS_CardinalityType
<1>7. Cardinality(Live) <= Cardinality(Waiters \cup Owned)
  BY <1>1, <1>5, FS_Subset
<1>8. /\ slots = Cardinality(Holders) + Cardinality(Waiters)
      /\ slots \in 0..PTYMaxConcurrent
  BY <1>0, SlotsCounted DEF PtyTypeOK
<1> HIDE DEF Live, Carriers, Owned
<1>9. /\ Cardinality(Live) \in Nat /\ Cardinality(Waiters) \in Nat /\ Cardinality(Owned) \in Nat
      /\ Cardinality(Carriers) \in Nat /\ Cardinality(Holders) \in Nat
  <2>1. IsFiniteSet(Live)
    BY <1>1, <1>5, FS_Subset
  <2> QED
    BY <1>3, <1>4, <2>1, FiniteParts, FS_CardinalityType
<1>10. Cardinality(Live) <= PTYMaxConcurrent
  <2>1. PICK l \in Nat, w \in Nat, o \in Nat, c \in Nat, h \in Nat, b \in Nat :
            /\ l = Cardinality(Live) /\ w = Cardinality(Waiters) /\ o = Cardinality(Owned)
            /\ c = Cardinality(Carriers) /\ h = Cardinality(Holders)
            /\ b = Cardinality(Waiters \cap Owned)
    BY <1>6, <1>9
  <2>2. l <= w + o - b /\ o <= c /\ c <= h /\ h + w <= PTYMaxConcurrent
    BY <1>3, <1>4, <1>5, <1>7, <1>8, <2>1, PtyConstants
  <2>3. l <= PTYMaxConcurrent
    BY <2>2, PtyConstants
  <2> QED
    BY <2>1, <2>3
<1> QED
  BY <1>10 DEF LiveCapped, Live

LEMMA PtyAlways == PtySpec => []PtyInv
BY PtyInitInv, PtyStepInv, PTL DEF PtySpec
-----------------------------------------------------------------------------
(* PtyStream.                                                              *)

Chunk == 1..MaxOut

StreamTypes ==
    /\ bash \in {"runs", "dead"} /\ made \in 0..MaxOut
    /\ tty \in Seq(Chunk) /\ log \in Seq(Chunk)
    /\ readLoop \in {"read", "write", "notify", "gone"}
    /\ waitLoop \in {"wait", "drain", "write", "close", "done"}
    /\ held \in [{"r", "w"} -> 0..MaxOut]
    /\ ptmx \in BOOLEAN /\ notify \in BOOLEAN /\ attached \in BOOLEAN
    /\ closed \in BOOLEAN /\ closing \in BOOLEAN
    /\ ws \in [Client -> {"none", "attach", "silent", "gone"} \cup Streaming]
    /\ cursor \in [Client -> 0..MaxOut]

\* A goroutine has a chunk in hand exactly while it is about to store it, and no chunk
\* is in two places.
HandInv ==
    /\ readLoop = "write" <=> held["r"] # 0
    /\ waitLoop = "write" <=> held["w"] # 0
    /\ Len(log) + Len(tty) + (IF held["r"] = 0 THEN 0 ELSE 1) + (IF held["w"] = 0 THEN 0 ELSE 1)
         <= made

\* The client that streams is the one the flag stands for.
ServeInv ==
    /\ attached <=> \E c \in Client : ws[c] \in Streaming
    /\ \A c, d \in Client : ws[c] \in Streaming /\ ws[d] \in Streaming => c = d

StreamInv == StreamTypes /\ HandInv /\ ServeInv /\ RingFollowsShell

LEMMA StreamInitInv == StreamInit => StreamInv
<1> SUFFICES ASSUME StreamInit PROVE StreamInv
  OBVIOUS
<1>1. StreamTypes
  <2>1. <<>> \in Seq(Chunk) /\ 0 \in 0..MaxOut
    BY StreamConstants, EmptySeq
  <2> QED
    BY <2>1 DEF StreamInit, StreamTypes
<1>2. HandInv
  BY DEF StreamInit, HandInv
<1>3. ServeInv
  BY DEF StreamInit, ServeInv, Streaming
<1>4. RingFollowsShell
  <2>1. <<>> \o <<>> \o <<>> = <<>>
    OBVIOUS
  <2> QED
    BY <2>1 DEF StreamInit, RingFollowsShell
<1> QED
  BY <1>1, <1>2, <1>3, <1>4 DEF StreamInv

\* A chunk read from the terminal, and one put into the ring.
LEMMA TakeTypes ==
    ASSUME StreamTypes, tty # <<>>
    PROVE  Head(tty) \in Chunk /\ Tail(tty) \in Seq(Chunk) /\ Len(tty) = Len(Tail(tty)) + 1
           /\ Len(Tail(tty)) \in Nat /\ Head(tty) # 0
<1>1. Head(tty) \in Chunk /\ Tail(tty) \in Seq(Chunk) /\ Len(Tail(tty)) = Len(tty) - 1
  BY HeadTailProperties DEF StreamTypes
<1>2. Len(tty) \in Nat /\ Len(Tail(tty)) \in Nat
  BY <1>1, LenProperties DEF StreamTypes
<1>3. Head(tty) # 0
  BY <1>1, StreamConstants DEF Chunk
<1> QED
  BY <1>1, <1>2, <1>3

LEMMA KeepTypes ==
    ASSUME StreamTypes, NEW x \in 0..MaxOut, x # 0
    PROVE  x \in Chunk /\ Append(log, x) \in Seq(Chunk) /\ Len(Append(log, x)) = Len(log) + 1
<1>1. x \in Chunk
  BY StreamConstants DEF Chunk
<1> QED
  BY <1>1, AppendProperties DEF StreamTypes

LEMMA LogBounded ==
    ASSUME StreamTypes, HandInv
    PROVE  Len(log) \in 0..MaxOut /\ Len(tty) \in Nat
<1>1. Len(log) \in Nat /\ Len(tty) \in Nat
  BY LenProperties DEF StreamTypes
<1>2. made \in 0..MaxOut
  BY DEF StreamTypes
<1>3. PICK l \in Nat, t \in Nat, m \in 0..MaxOut : l = Len(log) /\ t = Len(tty) /\ m = made
  BY <1>1, <1>2
<1>4. l <= m
  <2>1. CASE held["r"] = 0 /\ held["w"] = 0
    BY <1>3, <2>1, StreamConstants DEF HandInv
  <2>2. CASE held["r"] = 0 /\ held["w"] # 0
    BY <1>3, <2>2, StreamConstants DEF HandInv
  <2>3. CASE held["r"] # 0 /\ held["w"] = 0
    BY <1>3, <2>3, StreamConstants DEF HandInv
  <2>4. CASE held["r"] # 0 /\ held["w"] # 0
    BY <1>3, <2>4, StreamConstants DEF HandInv
  <2> QED
    BY <2>1, <2>2, <2>3, <2>4
<1> QED
  BY <1>1, <1>3, <1>4, StreamConstants

LEMMA StreamTypeStep == StreamInv /\ StreamNext => StreamTypes'
<1> SUFFICES ASSUME StreamInv, StreamNext PROVE StreamTypes'
  OBVIOUS
<1>0. StreamTypes /\ HandInv
  BY DEF StreamInv
<1>1. CASE Output
  <2>1. made' \in 0..MaxOut /\ made + 1 \in Chunk
    BY <1>0, <1>1, StreamConstants DEF StreamTypes, Output, Chunk
  <2>2. tty' \in Seq(Chunk)
    BY <1>0, <1>1, <2>1, AppendProperties DEF StreamTypes, Output
  <2> QED
    BY <1>0, <1>1, <2>1, <2>2 DEF StreamTypes, Output, loopVars, flagVars, wsVars
<1>2. CASE BashExits \/ CloseFlag_ \/ CloseKill
  BY ZenonT(40), <1>0, <1>2 DEF StreamTypes, BashExits, CloseFlag_, CloseKill, shVars, loopVars, flagVars, wsVars
<1>3. CASE ReadChunk \/ DrainRead
  <2>1. Head(tty) \in Chunk /\ Tail(tty) \in Seq(Chunk)
    BY <1>0, <1>3, TakeTypes DEF ReadChunk, DrainRead, Take
  <2>2. Head(tty) \in 0..MaxOut
    BY <2>1, StreamConstants DEF Chunk
  <2> QED
    BY ZenonT(40), <1>0, <1>3, <2>1, <2>2 DEF StreamTypes, ReadChunk, DrainRead, Take, flagVars, wsVars
<1>4. CASE ReadEnds \/ WaitReturns \/ DrainEnds \/ WaitEnds
  BY ZenonT(40), <1>0, <1>4 DEF StreamTypes, ReadEnds, WaitReturns, DrainEnds, WaitEnds, shVars, flagVars, wsVars
<1>5. CASE ReadStore
  <2>1. CASE readLoop = "write"
    <3>1. Append(log, held["r"]) \in Seq(Chunk)
      BY <1>0, <2>1, KeepTypes DEF StreamTypes, HandInv
    <3>2. /\ log' = Append(log, held["r"]) /\ held' = [held EXCEPT !["r"] = 0]
          /\ readLoop' = "notify" /\ UNCHANGED <<notify, waitLoop, shVars, flagVars, wsVars>>
      BY <1>5, <2>1 DEF ReadStore, Keep
    <3>3. held' \in [{"r", "w"} -> 0..MaxOut]
      BY <1>0, <3>2, StreamConstants DEF StreamTypes
    <3> QED
      BY <1>0, <3>1, <3>2, <3>3 DEF StreamTypes, shVars, flagVars, wsVars
  <2>2. CASE readLoop # "write"
    BY <1>0, <1>5, <2>2 DEF StreamTypes, ReadStore, shVars, flagVars, wsVars
  <2> QED
    BY <2>1, <2>2
<1>6. CASE DrainWrite
  <2>1. Append(log, held["w"]) \in Seq(Chunk)
    BY <1>0, <1>6, KeepTypes DEF StreamTypes, HandInv, DrainWrite
  <2> QED
    BY <1>0, <1>6, <2>1, StreamConstants
       DEF StreamTypes, DrainWrite, Keep, shVars, flagVars, wsVars
<1>7. ASSUME NEW c \in Client, Connect(c) \/ AttachStream(c) \/ Replay(c) \/ Woken(c) \/ TailDone(c)
                               \/ Disconnect(c) \/ HangUp(c)
      PROVE  StreamTypes'
  <2>1. \E s \in {"attach", "silent", "replay", "pull", "tail", "gone"} : ws' = [ws EXCEPT ![c] = s]
    BY <1>7 DEF Connect, AttachStream, Replay, Woken, TailDone, Disconnect, HangUp, Leave
  <2>2. ws' \in [Client -> {"none", "attach", "silent", "gone"} \cup Streaming]
    BY <1>0, <2>1 DEF StreamTypes, Streaming
  <2>3. cursor' = cursor \/ cursor' = [cursor EXCEPT ![c] = Len(log)]
    BY <1>7 DEF Connect, AttachStream, Replay, Woken, TailDone, Disconnect, HangUp, Pull
  <2>4. cursor' \in [Client -> 0..MaxOut]
    BY <1>0, <2>3, LogBounded DEF StreamTypes
  <2>5. /\ attached' \in BOOLEAN /\ notify' \in BOOLEAN
        /\ UNCHANGED <<shVars, readLoop, waitLoop, held, log, closed, closing>>
    BY <1>0, <1>7 DEF StreamTypes, Connect, AttachStream, Replay, Woken, TailDone, Disconnect, HangUp,
       Leave, loopVars, flagVars
  <2> QED
    BY <1>0, <2>2, <2>4, <2>5 DEF StreamTypes, shVars
<1> QED
  BY <1>1, <1>2, <1>3, <1>4, <1>5, <1>6, <1>7 DEF StreamNext, Reading, Winding, Serve
LEMMA HandStep == StreamInv /\ StreamNext => HandInv'
<1> SUFFICES ASSUME StreamInv, StreamNext PROVE HandInv'
  OBVIOUS
<1>0. /\ StreamTypes /\ HandInv /\ made \in Nat
      /\ held["r"] \in 0..MaxOut /\ held["w"] \in 0..MaxOut
      /\ held = [g \in {"r", "w"} |-> held[g]]
  BY StreamConstants DEF StreamInv, StreamTypes
<1>1. PICK l \in Nat, t \in Nat, m \in Nat, r \in {0, 1}, w \in {0, 1} :
         /\ l = Len(log) /\ t = Len(tty) /\ m = made
         /\ r = (IF held["r"] = 0 THEN 0 ELSE 1) /\ w = (IF held["w"] = 0 THEN 0 ELSE 1)
         /\ l + t + r + w <= m
  <2>1. Len(log) \in Nat /\ Len(tty) \in Nat
    BY <1>0, LenProperties DEF StreamTypes
  <2> QED
    BY <1>0, <2>1 DEF HandInv
<1>2. CASE Output
  <2>1. Len(tty') = t + 1 /\ made' = m + 1
    BY <1>0, <1>1, <1>2, AppendProperties, StreamConstants DEF StreamTypes, Output, Chunk
  <2>2. UNCHANGED <<readLoop, waitLoop, held, log>>
    BY <1>2 DEF Output, loopVars
  <2>3. l + (t + 1) + r + w <= m + 1
    BY <1>1
  <2> QED
    BY <1>0, <1>1, <2>1, <2>2, <2>3 DEF HandInv
<1>3. CASE ReadChunk \/ DrainRead
  <2>1. Head(tty) # 0 /\ Len(tty') = t - 1 /\ t - 1 \in Nat
    <3>1. tty # <<>> /\ tty' = Tail(tty)
      BY <1>3 DEF ReadChunk, DrainRead, Take
    <3>2. Head(tty) # 0 /\ t = Len(Tail(tty)) + 1 /\ Len(Tail(tty)) \in Nat
      BY <1>0, <1>1, <3>1, TakeTypes
    <3> QED
      BY <1>1, <3>1, <3>2
  <2>2. UNCHANGED <<made, log>>
    BY <1>3 DEF ReadChunk, DrainRead, Take
  <2>3. CASE ReadChunk
    <3>1. /\ held' = [held EXCEPT !["r"] = Head(tty)] /\ readLoop' = "write" /\ waitLoop' = waitLoop
          /\ r = 0
      BY <1>0, <1>1, <2>3 DEF ReadChunk, Take, HandInv
    <3>2. held'["r"] = Head(tty) /\ held'["w"] = held["w"]
      BY <1>0, <3>1 DEF StreamTypes
    <3>3. l + (t - 1) + 1 + w <= m
      BY <1>1, <2>1, <3>1
    <3> QED
      BY <1>0, <1>1, <2>1, <2>2, <3>1, <3>2, <3>3 DEF HandInv
  <2>4. CASE DrainRead
    <3>1. /\ held' = [held EXCEPT !["w"] = Head(tty)] /\ waitLoop' = "write" /\ readLoop' = readLoop
          /\ w = 0
      BY <1>0, <1>1, <2>4 DEF DrainRead, Take, HandInv
    <3>2. held'["w"] = Head(tty) /\ held'["r"] = held["r"]
      BY <1>0, <3>1 DEF StreamTypes
    <3>3. l + (t - 1) + r + 1 <= m
      BY <1>1, <2>1, <3>1
    <3> QED
      BY <1>0, <1>1, <2>1, <2>2, <3>1, <3>2, <3>3 DEF HandInv
  <2> QED
    BY <1>3, <2>3, <2>4
<1>4. CASE ReadStore \/ DrainWrite
  <2>1. UNCHANGED <<made, tty>>
    BY <1>4 DEF ReadStore, DrainWrite, shVars
  <2>2. CASE ReadStore /\ readLoop = "write"
    <3>1. /\ held' = [held EXCEPT !["r"] = 0] /\ readLoop' = "notify" /\ waitLoop' = waitLoop
          /\ log' = Append(log, held["r"]) /\ held["r"] # 0 /\ r = 1
      BY <1>0, <1>1, <2>2 DEF ReadStore, Keep, HandInv
    <3>2. held'["r"] = 0 /\ held'["w"] = held["w"]
      BY <1>0, <3>1 DEF StreamTypes
    <3>3. Len(log') = l + 1
      BY <1>0, <1>1, <3>1, KeepTypes
    <3>4. (l + 1) + t + 0 + w <= m
      BY <1>1, <3>1
    <3> QED
      BY <1>0, <1>1, <2>1, <3>1, <3>2, <3>3, <3>4 DEF HandInv
  <2>3. CASE ReadStore /\ readLoop # "write"
    <3>1. UNCHANGED <<log, held, waitLoop>> /\ readLoop' = "read"
      BY <2>3 DEF ReadStore
    <3> QED
      BY <1>0, <2>1, <2>3, <3>1 DEF HandInv
  <2>4. CASE DrainWrite
    <3>1. /\ held' = [held EXCEPT !["w"] = 0] /\ waitLoop' = "drain" /\ readLoop' = readLoop
          /\ log' = Append(log, held["w"]) /\ held["w"] # 0 /\ w = 1
      BY <1>0, <1>1, <2>4 DEF DrainWrite, Keep, HandInv
    <3>2. held'["w"] = 0 /\ held'["r"] = held["r"]
      BY <1>0, <3>1 DEF StreamTypes
    <3>3. Len(log') = l + 1
      BY <1>0, <1>1, <3>1, KeepTypes
    <3>4. (l + 1) + t + r + 0 <= m
      BY <1>1, <3>1
    <3> QED
      BY <1>0, <1>1, <2>1, <3>1, <3>2, <3>3, <3>4 DEF HandInv
  <2> QED
    BY <1>4, <2>2, <2>3, <2>4
<1>5. CASE BashExits \/ CloseFlag_ \/ CloseKill
  BY <1>0, <1>5 DEF HandInv, BashExits, CloseFlag_, CloseKill, shVars, loopVars
<1>6. CASE ReadEnds \/ WaitReturns \/ DrainEnds \/ WaitEnds
  BY <1>0, <1>6 DEF HandInv, ReadEnds, WaitReturns, DrainEnds, WaitEnds, shVars
<1>7. ASSUME NEW c \in Client, Connect(c) \/ AttachStream(c) \/ Replay(c) \/ Woken(c) \/ TailDone(c)
                               \/ Disconnect(c) \/ HangUp(c)
      PROVE  HandInv'
  <2>1. UNCHANGED <<made, tty, readLoop, waitLoop, held, log>>
    BY <1>7 DEF Connect, AttachStream, Replay, Woken, TailDone, Disconnect, HangUp, shVars, loopVars
  <2> QED
    BY <1>0, <2>1 DEF HandInv
<1> QED
  BY <1>2, <1>3, <1>4, <1>5, <1>6, <1>7 DEF StreamNext, Reading, Winding, Serve

LEMMA ServeStep == StreamInv /\ StreamNext => ServeInv'
<1> SUFFICES ASSUME StreamInv, StreamNext PROVE ServeInv'
  OBVIOUS
<1>0. ServeInv /\ ws \in [Client -> {"none", "attach", "silent", "gone"} \cup Streaming]
  BY DEF StreamInv, StreamTypes
<1>1. ASSUME NEW c \in Client, AttachStream(c) PROVE ServeInv'
  BY ZenonT(40), <1>0, <1>1 DEF ServeInv, AttachStream, Refused, Streaming
<1>2. ASSUME NEW c \in Client, Replay(c) \/ Woken(c) PROVE ServeInv'
  BY <1>0, <1>2 DEF ServeInv, Replay, Woken, Streaming, flagVars
<1>3. ASSUME NEW c \in Client, TailDone(c) \/ Disconnect(c) PROVE ServeInv'
  BY <1>0, <1>3 DEF ServeInv, TailDone, Disconnect, Leave, Streaming
<1>4. ASSUME NEW c \in Client, Connect(c) \/ HangUp(c) PROVE ServeInv'
  BY <1>0, <1>4 DEF ServeInv, Connect, HangUp, Streaming, flagVars
<1>5. CASE UNCHANGED <<attached, ws>>
  BY <1>0, <1>5 DEF ServeInv
<1>6. CASE Output \/ BashExits \/ CloseFlag_ \/ CloseKill \/ Reading \/ Winding
  BY <1>5, <1>6 DEF Output, BashExits, CloseFlag_, CloseKill, Reading, ReadChunk, ReadEnds, ReadStore,
     Winding, WaitReturns, DrainRead, DrainWrite, DrainEnds, WaitEnds, flagVars, wsVars
<1> QED
  BY <1>1, <1>2, <1>3, <1>4, <1>6 DEF StreamNext, Serve
\* What readLoop has in hand, as a sequence.
InHand == IF held["r"] = 0 THEN <<>> ELSE <<held["r"]>>

LEMMA InHandTyped == StreamTypes => InHand \in Seq(Chunk)
<1> SUFFICES ASSUME StreamTypes PROVE InHand \in Seq(Chunk)
  OBVIOUS
<1>1. CASE held["r"] = 0
  BY <1>1, EmptySeq DEF InHand
<1>2. CASE held["r"] # 0
  <2>1. held["r"] \in Chunk
    BY <1>2, StreamConstants DEF StreamTypes, Chunk
  <2> QED
    BY <1>2, <2>1 DEF InHand
<1> QED
  BY <1>1, <1>2

LEMMA FollowsStep == StreamInv /\ StreamNext => RingFollowsShell'
<1> SUFFICES ASSUME StreamInv, StreamNext, (waitLoop = "wait" /\ ptmx)'
             PROVE  (log \o InHand \o tty = [i \in 1..made |-> i])'
  BY DEF RingFollowsShell, InHand
<1>0. /\ StreamTypes /\ HandInv /\ made \in Nat /\ log \in Seq(Chunk) /\ tty \in Seq(Chunk)
      /\ InHand \in Seq(Chunk) /\ held = [g \in {"r", "w"} |-> held[g]]
  BY StreamConstants, InHandTyped DEF StreamInv, StreamTypes
<1>1. waitLoop = "wait" /\ ptmx => log \o InHand \o tty = [i \in 1..made |-> i]
  BY DEF StreamInv, RingFollowsShell, InHand
<1>2. CASE Output
  <2>1. /\ made' = made + 1 /\ tty' = Append(tty, made + 1) /\ UNCHANGED <<log, InHand, waitLoop, ptmx>>
        /\ made < MaxOut
    BY <1>2 DEF Output, loopVars, InHand
  <2>2. made + 1 \in Chunk
    BY <1>0, <2>1, StreamConstants DEF Chunk
  <2>3. PICK s \in Seq(Chunk) : s = log \o InHand
    BY <1>0, ConcatProperties
  <2>4. s \o tty = [i \in 1..made |-> i] /\ s \o tty \in Seq(Chunk)
    BY <1>0, <1>1, <2>1, <2>3, ConcatProperties
  <2>5. <<made + 1>> \in Seq(Chunk)
    BY <2>2
  <2>6. s \o Append(tty, made + 1) = Append(s \o tty, made + 1)
    <3>1. Append(tty, made + 1) = tty \o <<made + 1>>
      BY <1>0, <2>2, AppendIsConcat
    <3>2. Append(s \o tty, made + 1) = (s \o tty) \o <<made + 1>>
      BY <2>2, <2>4, AppendIsConcat
    <3>3. (s \o tty) \o <<made + 1>> = s \o (tty \o <<made + 1>>)
      <4>1. s \in Seq(Chunk) /\ tty \in Seq(Chunk)
        BY <1>0
      <4>2. PICK e \in Seq(Chunk) : e = <<made + 1>>
        BY <2>5
      <4>3. (s \o tty) \o e = s \o (tty \o e)
        BY <4>1, ConcatAssociative
      <4> QED
        BY <4>2, <4>3
    <3> QED
      BY <3>1, <3>2, <3>3
  <2>7. Append([i \in 1..made |-> i], made + 1) = [i \in 1..(made + 1) |-> i]
    BY <1>0
  <2> QED
    BY <2>1, <2>3, <2>4, <2>6, <2>7
<1>3. CASE ReadChunk
  <2>1. /\ tty # <<>> /\ tty' = Tail(tty) /\ held' = [held EXCEPT !["r"] = Head(tty)]
        /\ held["r"] = 0 /\ UNCHANGED <<log, made, ptmx, waitLoop>>
    BY <1>0, <1>3 DEF ReadChunk, Take, HandInv
  <2>2. Head(tty) \in Chunk /\ Tail(tty) \in Seq(Chunk) /\ Head(tty) # 0
    BY <1>0, <2>1, TakeTypes
  <2>3. InHand = <<>> /\ InHand' = <<Head(tty)>>
    BY <1>0, <2>1, <2>2 DEF InHand
  <2>4. <<Head(tty)>> \in Seq(Chunk)
    BY <2>2
  <2>5. <<Head(tty)>> \o Tail(tty) = tty
    BY <1>0, <2>1
  <2>6. (log \o <<Head(tty)>>) \o Tail(tty) = log \o (<<Head(tty)>> \o Tail(tty))
    BY SMTT(30), <1>0, <2>2, <2>4, ConcatAssociative
  <2>7. log \o InHand = log
    BY <1>0, <2>3, ConcatEmptySeq
  <2> QED
    BY <1>1, <2>1, <2>3, <2>5, <2>6, <2>7
<1>4. CASE ReadStore /\ readLoop = "write"
  <2>1. /\ log' = Append(log, held["r"]) /\ held' = [held EXCEPT !["r"] = 0] /\ held["r"] # 0
        /\ UNCHANGED <<tty, made, ptmx, waitLoop>>
    BY <1>0, <1>4 DEF ReadStore, Keep, HandInv, shVars
  <2>2. held["r"] \in Chunk /\ log' \in Seq(Chunk)
    BY <1>0, <2>1, KeepTypes DEF StreamTypes
  <2>3. InHand = <<held["r"]>> /\ InHand' = <<>>
    BY <1>0, <2>1 DEF InHand
  <2>4. log' = log \o InHand
    BY <1>0, <2>1, <2>2, <2>3, AppendIsConcat
  <2>5. log' \o InHand' = log'
    BY <2>2, <2>3, ConcatEmptySeq
  <2> QED
    BY <1>1, <2>1, <2>4, <2>5
<1>5. CASE UNCHANGED <<log, held, tty, made>> /\ (waitLoop' = "wait" /\ ptmx' => waitLoop = "wait" /\ ptmx)
  BY <1>1, <1>5 DEF InHand
<1>6. CASE ReadStore /\ readLoop # "write"
  BY <1>5, <1>6 DEF ReadStore, shVars
<1>7. CASE BashExits \/ CloseFlag_ \/ CloseKill \/ ReadEnds \/ WaitReturns \/ DrainEnds \/ WaitEnds
  BY <1>5, <1>7 DEF BashExits, CloseFlag_, CloseKill, ReadEnds, WaitReturns, DrainEnds, WaitEnds,
     shVars, loopVars
<1>8. CASE DrainRead \/ DrainWrite
  BY <1>8 DEF DrainRead, DrainWrite
<1>9. ASSUME NEW c \in Client, Connect(c) \/ AttachStream(c) \/ Replay(c) \/ Woken(c) \/ TailDone(c)
                               \/ Disconnect(c) \/ HangUp(c)
      PROVE  UNCHANGED <<log, held, tty, made, waitLoop, ptmx>>
  BY <1>9 DEF Connect, AttachStream, Replay, Woken, TailDone, Disconnect, HangUp, shVars, loopVars
<1> QED
  BY <1>2, <1>3, <1>4, <1>5, <1>6, <1>7, <1>8, <1>9 DEF StreamNext, Reading, Winding, Serve

LEMMA StreamStepInv == StreamInv /\ [StreamNext]_streamVars => StreamInv'
<1>1. CASE StreamInv /\ UNCHANGED streamVars
  BY <1>1 DEF StreamInv, StreamTypes, HandInv, ServeInv, RingFollowsShell,
     streamVars, shVars, loopVars, flagVars, wsVars
<1> QED
  BY <1>1, StreamTypeStep, HandStep, ServeStep, FollowsStep DEF StreamInv

LEMMA StreamAlways == StreamSpec => []StreamInv
BY StreamInitInv, StreamStepInv, PTL DEF StreamSpec

\* One client at most is one client or none.
LEMMA OneServed == StreamInv => OneStream
<1> SUFFICES ASSUME StreamInv PROVE OneStream
  OBVIOUS
<1> DEFINE on == {c \in Client : ws[c] \in Streaming}
<1>1. CASE on = {}
  BY <1>1, FS_EmptySet DEF OneStream, StreamInv, ServeInv
<1>2. CASE on # {}
  <2>1. PICK c \in Client : on = {c}
    BY <1>2 DEF StreamInv, ServeInv
  <2>2. Cardinality(on) = 1
    BY <2>1, FS_Singleton
  <2> QED
    BY <1>2, <2>2 DEF OneStream, StreamInv, ServeInv
<1> QED
  BY <1>1, <1>2
-----------------------------------------------------------------------------
(* Projects: the calls under way.                                          *)

Call == [op : {"start", "stop"}, name : Name, pc : Stages, todo : Seq(Name)]

\* What a call knows of its project at each stage, because it holds the project's lock:
\* from Find on there is an instance to stop, from Mark on it is marked, from Kill on it
\* is dead, and no process is left when dependencies are started.
Stage(f, map, run) ==
    /\ f.pc \in {"mark", "kill", "settle"} => map[f.name] # 0
    /\ f.pc \in {"kill", "settle"} => run[map[f.name]].manual
    /\ f.pc = "settle" => run[map[f.name]].proc \notin {"up", "doomed"}
    /\ f.pc = "deps" /\ map[f.name] # 0 => run[map[f.name]].proc \notin {"up", "doomed"}

\* A thread holds the lock of every project it is at work on, and works once on each.
LockInv ==
    \A t \in Thread : \A k \in 1..Len(stack[t]) :
        /\ stack[t][k].pc # "lock" => named[stack[t][k].name] = t
        /\ k > 1 => stack[t][k].pc \in {"lock", "deps"}
        /\ \A j \in 1..Len(stack[t]) :
              j # k /\ stack[t][j].pc # "lock" /\ stack[t][k].pc # "lock"
                => stack[t][j].name # stack[t][k].name
StageInv == \A t \in Thread : \A k \in 1..Len(stack[t]) : Stage(stack[t][k], projects, inst)

\* Processes: only a stop cancels or kills, it marks first, and the watcher looks at the
\* mark after the process has ended.
InstInv ==
    /\ LiveIsMapped /\ StoppedIsDead
    /\ \A i \in 1..Len(inst) :
          /\ inst[i].proc \in {"doomed", "killed"} => inst[i].manual
          /\ Alive(i) => inst[i].watch = "wait"
          /\ inst[i].proc = "killed" /\ inst[i].watch # "wait" => ~inst[i].auto
          /\ inst[i].watch = "backoff" => inst[i].auto

ProjectTypes ==
    /\ projects \in [Name -> 0..Len(inst)] /\ named \in [Name -> Thread \cup {Nobody}]
    /\ inst \in Seq(Instance) /\ Len(inst) <= MaxInst
    /\ crash \in [Name -> Nat] /\ calls \in 0..MaxCalls
    /\ stack \in [Thread -> Seq(Call)]

ProjectsInv == ProjectTypes /\ LockInv /\ StageInv /\ InstInv

LEMMA ProjectsInitInv == ProjectsInit => ProjectsInv
<1> SUFFICES ASSUME ProjectsInit PROVE ProjectsInv
  OBVIOUS
<1>1. inst = <<>> /\ Len(inst) = 0 /\ stack = [t \in Thread |-> <<>>]
  BY DEF ProjectsInit
<1>2. ProjectTypes
  <2>1. <<>> \in Seq(Instance) /\ <<>> \in Seq(Call)
    BY EmptySeq
  <2> QED
    BY <1>1, <2>1, ProjectConstants DEF ProjectsInit, ProjectTypes
<1>3. LockInv /\ StageInv
  BY <1>1 DEF LockInv, StageInv
<1>4. InstInv
  BY <1>1 DEF InstInv, LiveIsMapped, StoppedIsDead
<1> QED
  BY <1>2, <1>3, <1>4 DEF ProjectsInv

\* The innermost call of a thread.
LEMMA TopCall ==
    ASSUME ProjectTypes, NEW t \in Thread, stack[t] # <<>>
    PROVE  /\ Top(t) = stack[t][1] /\ Top(t) \in Call /\ 1 \in 1..Len(stack[t])
           /\ Len(stack[t]) \in Nat \ {0} /\ Top(t).name \in Name /\ Top(t).todo \in Seq(Name)
<1>1. stack[t] \in Seq(Call)
  BY DEF ProjectTypes
<1>2. Len(stack[t]) \in Nat /\ Len(stack[t]) # 0
  BY <1>1, LenProperties
<1>3. Top(t) \in Call
  BY <1>1, HeadTailProperties DEF Top
<1> QED
  BY <1>1, <1>2, <1>3 DEF Top, Call

\* The three ways a call changes the stack of its thread: it goes on as f, it returns, or
\* it makes a call of its own.
GoesOn(t, f) == stack' = [stack EXCEPT ![t] = [stack[t] EXCEPT ![1] = f]]
Returns(t) == stack' = [stack EXCEPT ![t] = Tail(stack[t])]
FailsCaller(t) ==
    /\ Len(stack[t]) > 1 /\ stack[t][2].pc = "deps"
    /\ stack' = [stack EXCEPT ![t] = [Tail(stack[t]) EXCEPT ![1] = [stack[t][2] EXCEPT !.pc = "abort"]]]

LEMMA ToGoesOn ==
    ASSUME ProjectTypes, NEW t \in Thread, stack[t] # <<>>, NEW pc, To(t, pc)
    PROVE  GoesOn(t, [Top(t) EXCEPT !.pc = pc]) /\ named' = named
<1>1. Top(t) = stack[t][1]
  BY TopCall
<1> QED
  BY <1>1 DEF To, GoesOn

LEMMA PrepareGoesOn ==
    ASSUME ProjectTypes, NEW t \in Thread, stack[t] # <<>>, Prepare(t)
    PROVE  /\ GoesOn(t, [Top(t) EXCEPT !.pc = "deps", !.todo = DependsOn[Top(t).name]])
           /\ named' = named
<1>1. Top(t) = stack[t][1]
  BY TopCall
<1> QED
  BY <1>1 DEF Prepare, GoesOn

LEMMA PopReturns ==
    ASSUME ProjectTypes, NEW t \in Thread, stack[t] # <<>>, NEW ok, Pop(t, ok)
    PROVE  Returns(t) \/ FailsCaller(t)
<1>1. stack[t] \in Seq(Call)
  BY DEF ProjectTypes
<1>2. CASE ok \/ Tail(stack[t]) = <<>> \/ Tail(stack[t])[1].pc # "deps"
  BY <1>2 DEF Pop, Returns
<1>3. CASE ~(ok \/ Tail(stack[t]) = <<>> \/ Tail(stack[t])[1].pc # "deps")
  <2>1. Len(stack[t]) > 1 /\ Tail(stack[t])[1] = stack[t][2]
    <3>1. /\ Tail(stack[t]) \in Seq(Call) /\ Len(stack[t]) = Len(Tail(stack[t])) + 1
          /\ \A i \in 1..Len(Tail(stack[t])) : Tail(stack[t])[i] = stack[t][i + 1]
      BY <1>1, HeadTailProperties
    <3>2. Len(Tail(stack[t])) \in Nat \ {0} /\ Len(stack[t]) \in Nat
      BY <1>1, <1>3, <3>1, LenProperties, EmptySeq
    <3>3. PICK m \in Nat \ {0}, n \in Nat : m = Len(Tail(stack[t])) /\ n = Len(stack[t])
      BY <3>2
    <3>4. 1 \in 1..m /\ n > 1
      <4>1. n = m + 1
        BY <3>1, <3>3
      <4> QED
        BY <4>1
    <3>5. Tail(stack[t])[1] = stack[t][1 + 1]
      BY <3>1, <3>3, <3>4
    <3> QED
      BY <3>3, <3>4, <3>5
  <2>2. stack' = [stack EXCEPT ![t] = [Tail(stack[t]) EXCEPT ![1].pc = "abort"]]
    BY <1>3 DEF Pop
  <2> QED
    BY <1>3, <2>1, <2>2 DEF FailsCaller
<1> QED
  BY <1>2, <1>3
-----------------------------------------------------------------------------
(* Projects: what one thread's calls need of the locks, of the map and of  *)
(* the processes, and what keeps it that way.                              *)

ThreadOK(t, s, locks, map, run) ==
    \A k \in 1..Len(s) :
        /\ s[k].pc # "lock" => locks[s[k].name] = t
        /\ k > 1 => s[k].pc \in {"lock", "deps"}
        /\ \A j \in 1..Len(s) :
              j # k /\ s[j].pc # "lock" /\ s[k].pc # "lock" => s[j].name # s[k].name
        /\ Stage(s[k], map, run)

LEMMA StackInvs == LockInv /\ StageInv <=> \A t \in Thread : ThreadOK(t, stack[t], named, projects, inst)
BY DEF LockInv, StageInv, ThreadOK

\* No process comes back to life and no mark is taken back.
RunGrows(run, run2) ==
    \A i \in 1..Len(run) :
        /\ run[i].manual => run2[i].manual
        /\ run2[i].proc \in {"up", "doomed"} => run[i].proc \in {"up", "doomed"}

LEMMA StageKept ==
    ASSUME NEW f, NEW map, NEW map2, NEW run, NEW run2, Stage(f, map, run), RunGrows(run, run2),
           map[f.name] \in 0..Len(run), map2[f.name] = map[f.name]
    PROVE  Stage(f, map2, run2)
<1>1. map[f.name] # 0 => map[f.name] \in 1..Len(run)
  OBVIOUS
<1> QED
  BY <1>1 DEF Stage, RunGrows

\* A call that has not got its lock knows nothing.
LEMMA StageOfLock ==
    ASSUME NEW f, NEW map, NEW run, f.pc \in {"lock", "find", "abort"} PROVE Stage(f, map, run)
BY DEF Stage

LEMMA ThreadKept ==
    ASSUME NEW t, NEW s \in Seq(Call), NEW locks, NEW locks2, NEW map, NEW map2, NEW run, NEW run2,
           ThreadOK(t, s, locks, map, run), RunGrows(run, run2), map \in [Name -> 0..Len(run)],
           \A n \in Name : locks[n] = t => locks2[n] = t /\ map2[n] = map[n]
    PROVE  ThreadOK(t, s, locks2, map2, run2)
<1> SUFFICES ASSUME NEW k \in 1..Len(s)
             PROVE  (s[k].pc # "lock" => locks2[s[k].name] = t) /\ Stage(s[k], map2, run2)
  BY DEF ThreadOK
<1>1. s[k] \in Call
  BY ElementOfSeq
<1>2. s[k].name \in Name
  BY <1>1 DEF Call
<1>3. CASE s[k].pc = "lock"
  BY <1>3, StageOfLock
<1>4. CASE s[k].pc # "lock"
  <2>1. locks[s[k].name] = t /\ Stage(s[k], map, run)
    BY <1>4 DEF ThreadOK
  <2>2. map[s[k].name] \in 0..Len(run) /\ map2[s[k].name] = map[s[k].name] /\ locks2[s[k].name] = t
    BY <1>2, <2>1
  <2> QED
    BY <2>1, <2>2, StageKept
<1> QED
  BY <1>3, <1>4

\* What a thread holds, except perhaps one project, stays its own.
ElsewhereKept(t, name, locks, locks2, map, map2) ==
    \A n \in Name \ {name} : locks[n] = t => locks2[n] = t /\ map2[n] = map[n]

\* The calls below the innermost one do not work on the project it works on.
LEMMA BelowKept ==
    ASSUME NEW t, NEW s \in Seq(Call), NEW locks, NEW locks2, NEW map, NEW map2, NEW run, NEW run2,
           ThreadOK(t, s, locks, map, run), RunGrows(run, run2), map \in [Name -> 0..Len(run)],
           1 \in 1..Len(s), s[1].pc # "lock" \/ locks[s[1].name] # t,
           ElsewhereKept(t, s[1].name, locks, locks2, map, map2),
           NEW k \in 1..Len(s), k > 1
    PROVE  /\ s[k].pc # "lock" => locks2[s[k].name] = t /\ s[k].name # s[1].name
           /\ s[k].pc \in {"lock", "deps"}
           /\ Stage(s[k], map2, run2)
<1>1. s[k] \in Call
  BY ElementOfSeq
<1>2. s[k].name \in Name
  BY <1>1 DEF Call
<1>3. s[k].pc \in {"lock", "deps"}
  BY DEF ThreadOK
<1>4. CASE s[k].pc = "lock"
  BY <1>3, <1>4, StageOfLock
<1>5. CASE s[k].pc # "lock"
  <2>1. locks[s[k].name] = t /\ Stage(s[k], map, run)
    BY <1>5 DEF ThreadOK
  <2>2. s[k].name # s[1].name
    <3>1. CASE s[1].pc # "lock"
      BY <1>5, <3>1 DEF ThreadOK
    <3>2. CASE locks[s[1].name] # t
      BY <2>1, <3>2
    <3> QED
      BY <3>1, <3>2
  <2>3. map[s[k].name] \in 0..Len(run) /\ map2[s[k].name] = map[s[k].name] /\ locks2[s[k].name] = t
    BY <1>2, <2>1, <2>2 DEF ElsewhereKept
  <2> QED
    BY <1>3, <2>1, <2>2, <2>3, StageKept
<1> QED
  BY <1>4, <1>5
LEMMA TopGoesOn ==
    ASSUME NEW t, NEW s \in Seq(Call), NEW locks, NEW locks2, NEW map, NEW map2, NEW run, NEW run2,
           ThreadOK(t, s, locks, map, run), RunGrows(run, run2), map \in [Name -> 0..Len(run)],
           1 \in 1..Len(s), s[1].pc # "lock" \/ locks[s[1].name] # t,
           ElsewhereKept(t, s[1].name, locks, locks2, map, map2),
           NEW f, f.name = s[1].name, f.pc # "lock" => locks2[f.name] = t, Stage(f, map2, run2)
    PROVE  ThreadOK(t, [s EXCEPT ![1] = f], locks2, map2, run2)
<1> DEFINE r == [s EXCEPT ![1] = f]
<1>1. s \in [1..Len(s) -> Call] /\ Len(s) \in Nat
  BY LenProperties
<1>2. /\ DOMAIN r = 1..Len(s) /\ Len(r) = Len(s) /\ r[1] = f
      /\ \A k \in 1..Len(s) : k # 1 => r[k] = s[k]
  BY <1>1
<1>3. \A k \in 1..Len(s) : k # 1 =>
        /\ s[k].pc # "lock" => locks2[s[k].name] = t /\ s[k].name # s[1].name
        /\ s[k].pc \in {"lock", "deps"}
        /\ Stage(s[k], map2, run2)
  <2> SUFFICES ASSUME NEW k \in 1..Len(s), k # 1
               PROVE  /\ s[k].pc # "lock" => locks2[s[k].name] = t /\ s[k].name # s[1].name
                      /\ s[k].pc \in {"lock", "deps"}
                      /\ Stage(s[k], map2, run2)
    OBVIOUS
  <2>1. k > 1
    BY <1>1
  <2> QED
    BY <2>1, BelowKept
<1> HIDE DEF r
<1>4. ASSUME NEW k \in 1..Len(r), NEW j \in 1..Len(r), j # k, r[j].pc # "lock", r[k].pc # "lock"
      PROVE  r[j].name # r[k].name
  <2>1. CASE k = 1 \/ j = 1
    BY <1>2, <1>3, <1>4, <2>1
  <2>2. CASE k # 1 /\ j # 1
    <3>1. r[k] = s[k] /\ r[j] = s[j]
      BY <1>2, <2>2
    <3> QED
      BY <1>2, <1>4, <3>1 DEF ThreadOK
  <2> QED
    BY <2>1, <2>2
<1>5. ASSUME NEW k \in 1..Len(r)
      PROVE  /\ r[k].pc # "lock" => locks2[r[k].name] = t
             /\ k > 1 => r[k].pc \in {"lock", "deps"}
             /\ Stage(r[k], map2, run2)
  BY <1>2, <1>3
<1>6. ThreadOK(t, r, locks2, map2, run2)
  BY <1>4, <1>5 DEF ThreadOK
<1> QED
  BY <1>6 DEF r

LEMMA TailKept ==
    ASSUME NEW t, NEW s \in Seq(Call), NEW locks, NEW locks2, NEW map, NEW map2, NEW run, NEW run2,
           ThreadOK(t, s, locks, map, run), RunGrows(run, run2), map \in [Name -> 0..Len(run)],
           s # <<>>, s[1].pc # "lock" \/ locks[s[1].name] # t,
           ElsewhereKept(t, s[1].name, locks, locks2, map, map2)
    PROVE  /\ ThreadOK(t, Tail(s), locks2, map2, run2) /\ Tail(s) \in Seq(Call)
           /\ \A k \in 1..Len(Tail(s)) : k + 1 \in 1..Len(s) /\ Tail(s)[k] = s[k + 1]
           /\ \A k \in 1..Len(Tail(s)) : Tail(s)[k].pc \in {"lock", "deps"}
<1>1. /\ Tail(s) \in Seq(Call) /\ Len(Tail(s)) = Len(s) - 1
      /\ \A k \in 1..Len(Tail(s)) : Tail(s)[k] = s[k + 1]
  BY HeadTailProperties
<1>2. PICK m \in Nat, n \in Nat : m = Len(Tail(s)) /\ n = Len(s)
  BY <1>1, LenProperties
<1>3. n = m + 1
  <2>1. n # 0
    BY <1>2, EmptySeq
  <2>2. m = n - 1
    BY <1>1, <1>2
  <2> QED
    BY <2>1, <2>2
<1>4. 1 \in 1..n /\ \A k \in 1..m : k + 1 \in 1..n /\ k + 1 > 1
  BY <1>3
<1>5. ASSUME NEW k \in 1..m
      PROVE  /\ Tail(s)[k] = s[k + 1]
             /\ Tail(s)[k].pc # "lock" => locks2[Tail(s)[k].name] = t
             /\ Tail(s)[k].pc \in {"lock", "deps"}
             /\ Stage(Tail(s)[k], map2, run2)
  <2>1. PICK i \in 1..Len(s) : i = k + 1 /\ i > 1
    BY <1>2, <1>4
  <2>2. 1 \in 1..Len(s) /\ i > 1
    BY <1>2, <1>4, <2>1
  <2>3. /\ s[i].pc # "lock" => locks2[s[i].name] = t /\ s[i].name # s[1].name
        /\ s[i].pc \in {"lock", "deps"}
        /\ Stage(s[i], map2, run2)
    BY <2>2, BelowKept
  <2> QED
    BY <1>1, <1>2, <2>1, <2>3
<1>6. ASSUME NEW k \in 1..m, NEW j \in 1..m, j # k, Tail(s)[j].pc # "lock", Tail(s)[k].pc # "lock"
      PROVE  Tail(s)[j].name # Tail(s)[k].name
  <2>1. k + 1 \in 1..Len(s) /\ j + 1 \in 1..Len(s) /\ j + 1 # k + 1
    BY <1>2, <1>4, <1>6
  <2>2. s[j + 1].name # s[k + 1].name
    BY <1>5, <1>6, <2>1 DEF ThreadOK
  <2> QED
    BY <1>5, <2>2
<1>7. ThreadOK(t, Tail(s), locks2, map2, run2)
  BY <1>2, <1>5, <1>6 DEF ThreadOK
<1> QED
  BY <1>1, <1>2, <1>4, <1>5, <1>7

\* A call that has just been made.
LEMMA Fresh ==
    ASSUME NEW t, NEW s, NEW locks, NEW map, NEW run, \A k \in 1..Len(s) : s[k].pc = "lock"
    PROVE  ThreadOK(t, s, locks, map, run)
BY StageOfLock DEF ThreadOK

LEMMA CallMade ==
    ASSUME NEW t, NEW s \in Seq(Call), NEW g \in Call, NEW locks, NEW map, NEW run,
           ThreadOK(t, s, locks, map, run), s # <<>>, s[1].pc \in {"lock", "deps"}, g.pc = "lock"
    PROVE  ThreadOK(t, <<g>> \o s, locks, map, run) /\ <<g>> \o s \in Seq(Call)
<1>1. PICK r : r = <<g>> \o s
  OBVIOUS
<1>2. <<g>> \in Seq(Call) /\ Len(<<g>>) = 1 /\ <<g>>[1] = g
  OBVIOUS
<1>3. /\ r \in Seq(Call) /\ Len(r) = 1 + Len(s) /\ Len(s) \in Nat
      /\ \A k \in 1..(1 + Len(s)) : r[k] = IF k <= 1 THEN <<g>>[k] ELSE s[k - 1]
  BY <1>1, <1>2, ConcatProperties, LenProperties
<1>4. PICK n \in Nat : n = Len(s)
  BY <1>3
<1>5. r[1] = g
  BY <1>2, <1>3, <1>4
<1>6. ASSUME NEW k \in 1..Len(r), k # 1
      PROVE  k - 1 \in 1..Len(s) /\ r[k] = s[k - 1]
  <2>1. k \in 1..(1 + n)
    BY <1>3, <1>4
  <2>2. k - 1 \in 1..n /\ ~(k <= 1)
    BY <1>6, <2>1
  <2> QED
    BY <1>3, <1>4, <2>1, <2>2
<1>7. ASSUME NEW k \in 1..Len(r)
      PROVE  /\ r[k].pc # "lock" => locks[r[k].name] = t
             /\ k > 1 => r[k].pc \in {"lock", "deps"}
             /\ Stage(r[k], map, run)
  <2>1. CASE k = 1
    BY <1>5, <2>1, StageOfLock
  <2>2. CASE k # 1
    <3>1. PICK i \in 1..Len(s) : i = k - 1 /\ r[k] = s[i]
      BY <1>6, <2>2
    <3>2. s[i].pc \in {"lock", "deps"}
      <4>1. i = 1 \/ i > 1
        BY <1>3
      <4> QED
        BY <4>1 DEF ThreadOK
    <3> QED
      BY <3>1, <3>2 DEF ThreadOK
  <2> QED
    BY <2>1, <2>2
<1>8. ASSUME NEW k \in 1..Len(r), NEW j \in 1..Len(r), j # k, r[j].pc # "lock", r[k].pc # "lock"
      PROVE  r[j].name # r[k].name
  <2>1. k # 1 /\ j # 1
    BY <1>5, <1>8
  <2>2. /\ k - 1 \in 1..Len(s) /\ r[k] = s[k - 1] /\ j - 1 \in 1..Len(s) /\ r[j] = s[j - 1]
    BY <1>6, <2>1
  <2>3. k - 1 # j - 1
    BY <1>3, <1>8
  <2> QED
    BY <1>8, <2>2, <2>3 DEF ThreadOK
<1>9. ThreadOK(t, r, locks, map, run)
  BY <1>7, <1>8 DEF ThreadOK
<1> QED
  BY <1>1, <1>3, <1>9
-----------------------------------------------------------------------------
(* Projects: the steps.                                                    *)

CallsOK == LockInv /\ StageInv /\ stack \in [Thread -> Seq(Call)]

\* What a step may change of locks and map: what concerns one project.
OnlyAbout(name) ==
    \A n \in Name : n # name => named'[n] = named[n] /\ projects'[n] = projects[n]

LEMMA OneThread ==
    ASSUME ProjectsInv, NEW t \in Thread, NEW r \in Seq(Call), stack' = [stack EXCEPT ![t] = r],
           ThreadOK(t, r, named', projects', inst'), RunGrows(inst, inst'),
           NEW name \in Name, named[name] \in {t, Nobody}, OnlyAbout(name)
    PROVE  CallsOK'
<1>1. /\ stack \in [Thread -> Seq(Call)] /\ projects \in [Name -> 0..Len(inst)]
      /\ \A u \in Thread : ThreadOK(u, stack[u], named, projects, inst)
  BY StackInvs DEF ProjectsInv, ProjectTypes
<1>2. stack' \in [Thread -> Seq(Call)] /\ stack'[t] = r
  BY <1>1
<1>3. ASSUME NEW u \in Thread, u # t
      PROVE  ThreadOK(u, stack'[u], named', projects', inst')
  <2>1. stack'[u] = stack[u] /\ stack[u] \in Seq(Call)
    BY <1>1, <1>3
  <2>2. \A n \in Name : named[n] = u => named'[n] = u /\ projects'[n] = projects[n]
    BY <1>3, ProjectConstants DEF OnlyAbout
  <2>3. PICK s \in Seq(Call) : s = stack[u]
    BY <2>1
  <2>4. ThreadOK(u, s, named, projects, inst)
    BY <1>1, <2>3
  <2>5. PICK locks2, map2, run2 : locks2 = named' /\ map2 = projects' /\ run2 = inst'
    OBVIOUS
  <2>6. RunGrows(inst, run2) /\ \A n \in Name : named[n] = u => locks2[n] = u /\ map2[n] = projects[n]
    BY <2>2, <2>5
  <2>7. ThreadOK(u, s, locks2, map2, run2)
    BY SMTT(30), <1>1, <2>4, <2>6, ThreadKept
  <2> QED
    BY <2>1, <2>3, <2>5, <2>7
<1>4. \A u \in Thread : ThreadOK(u, stack'[u], named', projects', inst')
  BY <1>2, <1>3
<1>5. LockInv' /\ StageInv'
  BY <1>4 DEF LockInv, StageInv, ThreadOK
<1> QED
  BY <1>2, <1>5 DEF CallsOK

\* The innermost call goes on.
LEMMA ServesOn ==
    ASSUME ProjectsInv, NEW t \in Thread, stack[t] # <<>>, NEW f \in Call, GoesOn(t, f),
           RunGrows(inst, inst'), OnlyAbout(Top(t).name), f.name = Top(t).name,
           f.pc # "lock" => named'[f.name] = t, Stage(f, projects', inst'),
           named[Top(t).name] \in {t, Nobody}, Top(t).pc # "lock" \/ named[Top(t).name] # t
    PROVE  CallsOK'
<1>1. /\ Top(t) = stack[t][1] /\ 1 \in 1..Len(stack[t]) /\ Top(t).name \in Name
  BY TopCall DEF ProjectsInv
<1>2. PICK s \in Seq(Call) : s = stack[t]
  BY DEF ProjectsInv, ProjectTypes
<1>3. ThreadOK(t, s, named, projects, inst) /\ projects \in [Name -> 0..Len(inst)]
  BY <1>2, StackInvs DEF ProjectsInv, ProjectTypes
<1>4. PICK locks2, map2, run2 : locks2 = named' /\ map2 = projects' /\ run2 = inst'
  OBVIOUS
<1>5. ElsewhereKept(t, s[1].name, named, locks2, projects, map2) /\ RunGrows(inst, run2)
  BY <1>1, <1>2, <1>4 DEF ElsewhereKept, OnlyAbout
<1>6. /\ 1 \in 1..Len(s) /\ (s[1].pc # "lock" \/ named[s[1].name] # t) /\ f.name = s[1].name
      /\ (f.pc # "lock" => locks2[f.name] = t) /\ Stage(f, map2, run2)
  BY <1>1, <1>2, <1>4
<1>7. ThreadOK(t, [s EXCEPT ![1] = f], locks2, map2, run2)
  BY <1>3, <1>5, <1>6, TopGoesOn
<1>8. [s EXCEPT ![1] = f] \in Seq(Call)
  BY <1>6, ExceptSeq
<1>9. stack' = [stack EXCEPT ![t] = [s EXCEPT ![1] = f]]
  BY <1>2 DEF GoesOn
<1> QED
  BY <1>1, <1>4, <1>7, <1>8, <1>9, OneThread

\* It returns, perhaps to a caller that fails with it.
LEMMA ServesReturn ==
    ASSUME ProjectsInv, NEW t \in Thread, stack[t] # <<>>, Returns(t) \/ FailsCaller(t),
           RunGrows(inst, inst'), OnlyAbout(Top(t).name),
           named[Top(t).name] \in {t, Nobody}, Top(t).pc # "lock" \/ named[Top(t).name] # t
    PROVE  CallsOK'
<1>1. /\ Top(t) = stack[t][1] /\ 1 \in 1..Len(stack[t]) /\ Top(t).name \in Name
  BY TopCall DEF ProjectsInv
<1>2. PICK s \in Seq(Call) : s = stack[t] /\ s # <<>>
  BY DEF ProjectsInv, ProjectTypes
<1>3. ThreadOK(t, s, named, projects, inst) /\ projects \in [Name -> 0..Len(inst)]
  BY <1>2, StackInvs DEF ProjectsInv, ProjectTypes
<1>4. PICK locks2, map2, run2 : locks2 = named' /\ map2 = projects' /\ run2 = inst'
  OBVIOUS
<1>5. ElsewhereKept(t, s[1].name, named, locks2, projects, map2) /\ RunGrows(inst, run2)
  BY <1>1, <1>2, <1>4 DEF ElsewhereKept, OnlyAbout
<1>6. s[1].pc # "lock" \/ named[s[1].name] # t
  BY <1>1, <1>2
<1>7. /\ ThreadOK(t, Tail(s), locks2, map2, run2) /\ Tail(s) \in Seq(Call)
      /\ \A k \in 1..Len(Tail(s)) : k + 1 \in 1..Len(s) /\ Tail(s)[k] = s[k + 1]
  BY <1>2, <1>3, <1>5, <1>6, TailKept
<1>8. CASE Returns(t)
  BY <1>1, <1>2, <1>4, <1>7, <1>8, OneThread DEF Returns
<1>9. CASE FailsCaller(t)
  <2>1. PICK r \in Seq(Call) : r = Tail(s) /\ Len(r) \in Nat /\ Len(s) \in Nat /\ Len(r) = Len(s) - 1
    BY <1>2, <1>7, HeadTailProperties, LenProperties
  <2>2. Len(s) > 1
    BY <1>2, <1>9 DEF FailsCaller
  <2>3. 1 \in 1..Len(r)
    BY <2>1, <2>2
  <2>4. r[1] = s[2] /\ r[1] \in Call /\ r[1].pc = "deps"
    <3>1. r[1] = s[1 + 1]
      BY <1>7, <2>1, <2>3
    <3> QED
      BY <1>2, <1>9, <2>3, <3>1, ElementOfSeq DEF FailsCaller
  <2>5. PICK f \in Call : f = [r[1] EXCEPT !.pc = "abort"]
    BY <2>4 DEF Call, Stages
  <2>6. f.pc = "abort" /\ f.name = r[1].name /\ Stage(f, map2, run2)
    BY <2>4, <2>5, StageOfLock DEF Call
  <2>7. ThreadOK(t, r, locks2, map2, run2)
    BY <1>7, <2>1
  <2>8. locks2[f.name] = t
    BY <2>3, <2>4, <2>6, <2>7 DEF ThreadOK
  <2>9. ThreadOK(t, [r EXCEPT ![1] = f], locks2, map2, run2)
    <3>1. ASSUME NEW k \in 1..Len(r), k # 1 PROVE r[k].pc # "lock" => r[k].name # f.name
      BY <2>3, <2>4, <2>6, <2>7, <3>1 DEF ThreadOK
    <3>2. PICK q : q = [r EXCEPT ![1] = f]
      OBVIOUS
    <3>3. /\ Len(q) = Len(r) /\ q[1] = f /\ \A k \in 1..Len(r) : k # 1 => q[k] = r[k]
      BY <2>3, <3>2, LenProperties
    <3>4. ASSUME NEW k \in 1..Len(q)
          PROVE  /\ q[k].pc # "lock" => locks2[q[k].name] = t
                 /\ k > 1 => q[k].pc \in {"lock", "deps"}
                 /\ Stage(q[k], map2, run2)
      BY <2>6, <2>7, <2>8, <3>3 DEF ThreadOK
    <3>5. ASSUME NEW k \in 1..Len(q), NEW j \in 1..Len(q), j # k, q[j].pc # "lock", q[k].pc # "lock"
          PROVE  q[j].name # q[k].name
      BY <2>7, <3>1, <3>3, <3>5 DEF ThreadOK
    <3>6. ThreadOK(t, q, locks2, map2, run2)
      BY <3>4, <3>5 DEF ThreadOK
    <3> QED
      BY <3>2, <3>6
  <2>10. [r EXCEPT ![1] = f] \in Seq(Call)
    BY <2>3, ExceptSeq
  <2>11. stack' = [stack EXCEPT ![t] = [r EXCEPT ![1] = f]]
    BY <1>2, <1>9, <2>1, <2>4, <2>5 DEF FailsCaller
  <2> QED
    BY <1>1, <1>4, <2>9, <2>10, <2>11, OneThread
<1> QED
  BY <1>8, <1>9
LEMMA TopKnows ==
    ASSUME ProjectsInv, NEW t \in Thread, stack[t] # <<>>
    PROVE  /\ Stage(Top(t), projects, inst) /\ (Top(t).pc # "lock" => named[Top(t).name] = t)
           /\ Top(t) \in Call /\ Top(t).name \in Name /\ Current(t) \in 0..Len(inst)
           /\ (Current(t) # 0 => Current(t) \in 1..Len(inst))
<1>1. Top(t) = stack[t][1] /\ 1 \in 1..Len(stack[t]) /\ Top(t).name \in Name /\ Top(t) \in Call
  BY TopCall DEF ProjectsInv
<1>2. Current(t) \in 0..Len(inst) /\ Len(inst) \in Nat
  BY <1>1, LenProperties DEF Current, ProjectsInv, ProjectTypes
<1>3. Current(t) # 0 => Current(t) \in 1..Len(inst)
  BY <1>2
<1> QED
  BY <1>1, <1>2, <1>3 DEF ProjectsInv, LockInv, StageInv

\* A step that rewrites the record of one instance.
GoodNext(x, y) ==
    /\ y.of = x.of /\ (x.manual => y.manual)
    /\ y.proc \in {"up", "doomed"} => x.proc \in {"up", "doomed"}
    /\ y.status = "stopped" => y.proc \notin {"up", "doomed"}
    /\ y.proc \in {"doomed", "killed"} => y.manual
    /\ y.proc \in {"up", "doomed"} => y.watch = "wait"
    /\ y.proc = "killed" /\ y.watch # "wait" => ~y.auto
    /\ y.watch = "backoff" => y.auto

LEMMA InstanceStep ==
    ASSUME ProjectsInv, NEW c \in 1..Len(inst), NEW y \in Instance, GoodNext(inst[c], y),
           inst' = [inst EXCEPT ![c] = y], projects' = projects
    PROVE  /\ RunGrows(inst, inst') /\ InstInv'
           /\ inst' \in Seq(Instance) /\ Len(inst') = Len(inst) /\ inst'[c] = y
<1>1. inst \in Seq(Instance)
  BY DEF ProjectsInv, ProjectTypes
<1>2. inst' \in Seq(Instance) /\ Len(inst') = Len(inst)
  BY <1>1, ExceptSeq
<1>3. inst'[c] = y /\ \A i \in 1..Len(inst) : i # c => inst'[i] = inst[i]
  BY <1>1, LenProperties
<1>4. RunGrows(inst, inst')
  BY <1>3 DEF RunGrows, GoodNext
<1>5. ASSUME NEW i \in 1..Len(inst)
      PROVE  /\ inst'[i].proc \in {"up", "doomed"} => projects[inst'[i].of] = i /\ inst'[i].watch = "wait"
             /\ inst'[i].status = "stopped" => inst'[i].proc \notin {"up", "doomed"}
             /\ inst'[i].proc \in {"doomed", "killed"} => inst'[i].manual
             /\ inst'[i].proc = "killed" /\ inst'[i].watch # "wait" => ~inst'[i].auto
             /\ inst'[i].watch = "backoff" => inst'[i].auto
  <2>1. CASE i = c
    BY <1>3, <2>1 DEF GoodNext, ProjectsInv, InstInv, LiveIsMapped, Alive
  <2>2. CASE i # c
    BY <1>3, <2>2 DEF ProjectsInv, InstInv, LiveIsMapped, StoppedIsDead, Alive
  <2> QED
    BY <2>1, <2>2
<1>6. InstInv'
  BY <1>2, <1>5 DEF InstInv, LiveIsMapped, StoppedIsDead, Alive
<1> QED
  BY <1>2, <1>3, <1>4, <1>6

LEMMA OldInstance ==
    ASSUME ProjectsInv, NEW c \in 1..Len(inst)
    PROVE  inst[c] \in Instance /\ GoodNext(inst[c], inst[c])
<1>1. inst[c] \in Instance
  BY ElementOfSeq DEF ProjectsInv, ProjectTypes
<1> QED
  BY <1>1 DEF GoodNext, ProjectsInv, InstInv, StoppedIsDead, Alive

\* What is left of ProjectsInv' when a step changes neither map, instances nor counters.
Untouched == UNCHANGED <<projects, inst, crash, calls>>

LEMMA UntouchedStep ==
    ASSUME ProjectsInv, Untouched, CallsOK', named' \in [Name -> Thread \cup {Nobody}]
    PROVE  ProjectsInv'
BY DEF ProjectsInv, ProjectTypes, CallsOK, InstInv, LiveIsMapped, StoppedIsDead, Alive, Untouched

LEMMA UntouchedGrows == inst' = inst => RunGrows(inst, inst')
BY DEF RunGrows

\* The lock a call takes or gives back.
LEMMA LockTypes ==
    ASSUME ProjectTypes, NEW t \in Thread, NEW n \in Name,
           \/ named' = named
           \/ named' = [named EXCEPT ![n] = t]
           \/ named' = [named EXCEPT ![n] = Nobody]
    PROVE  /\ named' \in [Name -> Thread \cup {Nobody}]
           /\ \A m \in Name : m # n => named'[m] = named[m]
BY DEF ProjectTypes

LEMMA EnterStep == ASSUME ProjectsInv, NEW t \in Thread, Enter(t) PROVE ProjectsInv'
<1>1. /\ stack[t] # <<>> /\ Top(t).pc = "lock" /\ named[Top(t).name] = Nobody /\ Untouched
  BY DEF Enter, In, Untouched
<1>2. Top(t) \in Call /\ Top(t).name \in Name /\ ProjectTypes
  BY <1>1, TopKnows DEF ProjectsInv
<1>3. Nobody # t /\ RunGrows(inst, inst')
  BY <1>1, ProjectConstants, UntouchedGrows DEF Untouched
<1>4. CASE Pop(t, FALSE) /\ UNCHANGED named
  <2>1. Returns(t) \/ FailsCaller(t)
    BY <1>1, <1>2, <1>4, PopReturns
  <2>2. OnlyAbout(Top(t).name) /\ named' \in [Name -> Thread \cup {Nobody}]
    BY <1>1, <1>2, <1>4 DEF OnlyAbout, Untouched, ProjectTypes
  <2>3. CallsOK'
    BY <1>1, <1>3, <2>1, <2>2, ServesReturn
  <2> QED
    BY <1>1, <2>2, <2>3, UntouchedStep
<1>5. CASE /\ stack' = [stack EXCEPT ![t][1].pc = "find"]
           /\ named' = [named EXCEPT ![Top(t).name] = t]
  <2>1. PICK f \in Call : f = [Top(t) EXCEPT !.pc = "find"]
    BY <1>2 DEF Call, Stages
  <2>2. f.pc = "find" /\ f.name = Top(t).name
    BY <1>2, <2>1 DEF Call
  <2>3. GoesOn(t, f)
    <3>1. Top(t) = stack[t][1]
      BY <1>1, <1>2, TopCall
    <3> QED
      BY <1>5, <2>1, <3>1 DEF GoesOn
  <2>4. /\ named' \in [Name -> Thread \cup {Nobody}] /\ named'[f.name] = t
        /\ \A m \in Name : m # Top(t).name => named'[m] = named[m]
    BY <1>2, <1>5, <2>2, LockTypes DEF ProjectTypes
  <2>5. OnlyAbout(Top(t).name)
    BY <1>1, <2>4 DEF OnlyAbout, Untouched
  <2>6. Stage(f, projects', inst')
    BY <2>2 DEF Stage
  <2>7. CallsOK'
    BY <1>1, <1>3, <2>2, <2>3, <2>4, <2>5, <2>6, ServesOn
  <2> QED
    BY <1>1, <2>4, <2>7, UntouchedStep
<1> QED
  BY <1>4, <1>5 DEF Enter
\* The three ways a call that holds its lock takes a step.
LEMMA WorkGoesOn ==
    ASSUME ProjectsInv, NEW t \in Thread, stack[t] # <<>>, Top(t).pc # "lock",
           NEW pc \in Stages, To(t, pc), RunGrows(inst, inst'), projects' = projects,
           Current(t) # 0 \/ pc = "abort", pc \in {"kill", "settle"} => inst'[Current(t)].manual,
           pc \in {"settle", "deps"} => inst'[Current(t)].proc \notin {"up", "doomed"}
    PROVE  CallsOK' /\ named' = named
<1>1. Top(t) \in Call /\ Top(t).name \in Name /\ named[Top(t).name] = t /\ ProjectTypes
  BY TopKnows DEF ProjectsInv
<1>2. PICK f \in Call : f = [Top(t) EXCEPT !.pc = pc]
  BY <1>1 DEF Call
<1>3. f.pc = pc /\ f.name = Top(t).name
  BY <1>1, <1>2 DEF Call
<1>4. GoesOn(t, f) /\ named' = named
  BY <1>1, <1>2, ToGoesOn
<1>5. OnlyAbout(Top(t).name)
  BY <1>4 DEF OnlyAbout
<1>6. Stage(f, projects', inst')
  BY <1>3 DEF Stage, Current
<1>7. named'[f.name] = t
  BY <1>1, <1>3, <1>4
<1>8. CallsOK'
  BY <1>1, <1>3, <1>4, <1>5, <1>6, <1>7, ServesOn
<1> QED
  BY <1>4, <1>8

LEMMA WorkPrepares ==
    ASSUME ProjectsInv, NEW t \in Thread, stack[t] # <<>>, Top(t).pc # "lock", Prepare(t),
           RunGrows(inst, inst'), projects' = projects,
           Current(t) # 0 => inst'[Current(t)].proc \notin {"up", "doomed"}
    PROVE  CallsOK' /\ named' = named
<1>1. Top(t) \in Call /\ Top(t).name \in Name /\ named[Top(t).name] = t /\ ProjectTypes
  BY TopKnows DEF ProjectsInv
<1>2. PICK f \in Call : f = [Top(t) EXCEPT !.pc = "deps", !.todo = DependsOn[Top(t).name]]
  BY <1>1, ProjectConstants DEF Call, Stages
<1>3. f.pc = "deps" /\ f.name = Top(t).name
  BY <1>1, <1>2 DEF Call
<1>4. GoesOn(t, f) /\ named' = named
  BY <1>1, <1>2, PrepareGoesOn
<1>5. OnlyAbout(Top(t).name)
  BY <1>4 DEF OnlyAbout
<1>6. Stage(f, projects', inst')
  BY <1>3 DEF Stage, Current
<1>7. named'[f.name] = t
  BY <1>1, <1>3, <1>4
<1>8. CallsOK'
  BY <1>1, <1>3, <1>4, <1>5, <1>6, <1>7, ServesOn
<1> QED
  BY <1>4, <1>8

LEMMA WorkEnds ==
    ASSUME ProjectsInv, NEW t \in Thread, stack[t] # <<>>, Top(t).pc # "lock",
           NEW ok, Finish(t, ok), RunGrows(inst, inst'),
           \A n \in Name : n # Top(t).name => projects'[n] = projects[n]
    PROVE  CallsOK' /\ named' \in [Name -> Thread \cup {Nobody}]
<1>1. Top(t) \in Call /\ Top(t).name \in Name /\ named[Top(t).name] = t /\ ProjectTypes
  BY TopKnows DEF ProjectsInv
<1>2. Returns(t) \/ FailsCaller(t)
  BY <1>1, PopReturns DEF Finish
<1>3. named' = [named EXCEPT ![Top(t).name] = Nobody]
  BY DEF Finish
<1>4. named' \in [Name -> Thread \cup {Nobody}] /\ \A m \in Name : m # Top(t).name => named'[m] = named[m]
  BY <1>1, <1>3, LockTypes
<1>5. OnlyAbout(Top(t).name)
  BY <1>4 DEF OnlyAbout
<1>6. CallsOK'
  BY <1>1, <1>2, <1>5, ServesReturn
<1> QED
  BY <1>4, <1>6

LEMMA FindStep == ASSUME ProjectsInv, NEW t \in Thread, Find(t) PROVE ProjectsInv'
<1>1. stack[t] # <<>> /\ Top(t).pc = "find" /\ Untouched
  BY DEF Find, In, Untouched
<1>2. RunGrows(inst, inst') /\ projects' = projects /\ inst' = inst
  BY <1>1, UntouchedGrows DEF Untouched
<1>3. Current(t) # 0 => Current(t) \in 1..Len(inst)
  BY <1>1, TopKnows
<1>4. named \in [Name -> Thread \cup {Nobody}]
  BY DEF ProjectsInv, ProjectTypes
<1>5. CASE Current(t) # 0 /\ To(t, "mark")
  <2>1. CallsOK' /\ named' = named
    BY <1>1, <1>2, <1>5, WorkGoesOn DEF Stages
  <2> QED
    BY <1>1, <1>4, <2>1, UntouchedStep
<1>6. CASE ~Stops(t) /\ Prepare(t)
  <2>1. Current(t) # 0 => inst'[Current(t)].proc \notin {"up", "doomed"}
    <3> SUFFICES ASSUME Current(t) # 0 PROVE inst[Current(t)].proc \notin {"up", "doomed"}
      BY <1>2
    <3>1. inst[Current(t)] \in Instance /\ inst[Current(t)].status # "running"
      BY <1>3, <1>6, OldInstance DEF Stops
    <3>2. inst[Current(t)].status = "stopped"
      BY <3>1 DEF Instance
    <3> QED
      BY <1>3, <3>2 DEF ProjectsInv, InstInv, StoppedIsDead, Alive
  <2>2. CallsOK' /\ named' = named
    BY <1>1, <1>2, <1>6, <2>1, WorkPrepares
  <2> QED
    BY <1>1, <1>4, <2>2, UntouchedStep
<1>7. CASE Finish(t, FALSE)
  <2>1. CallsOK' /\ named' \in [Name -> Thread \cup {Nobody}]
    BY <1>1, <1>2, <1>7, WorkEnds
  <2> QED
    BY <1>1, <2>1, UntouchedStep
<1> QED
  BY <1>5, <1>6, <1>7 DEF Find, Stops

LEMMA StartFailsStep == ASSUME ProjectsInv, NEW t \in Thread, StartFails(t) PROVE ProjectsInv'
<1>1. stack[t] # <<>> /\ Top(t).pc # "lock" /\ Untouched /\ Finish(t, FALSE)
  BY DEF StartFails, In, Untouched
<1>2. RunGrows(inst, inst') /\ projects' = projects
  BY <1>1, UntouchedGrows DEF Untouched
<1>3. CallsOK' /\ named' \in [Name -> Thread \cup {Nobody}]
  BY <1>1, <1>2, WorkEnds
<1> QED
  BY <1>1, <1>3, UntouchedStep

\* What is left when one instance changes.
LEMMA InstanceTypes ==
    ASSUME ProjectsInv, CallsOK', InstInv', inst' \in Seq(Instance), Len(inst') = Len(inst),
           named' \in [Name -> Thread \cup {Nobody}], UNCHANGED <<projects, crash, calls>>
    PROVE  ProjectsInv'
BY DEF ProjectsInv, ProjectTypes, CallsOK

LEMMA MarkStep == ASSUME ProjectsInv, NEW t \in Thread, Mark(t) PROVE ProjectsInv'
<1>1. /\ stack[t] # <<>> /\ Top(t).pc = "mark" /\ To(t, "kill")
      /\ UNCHANGED <<projects, crash, calls>>
  BY DEF Mark, In
<1>2. Current(t) # 0 /\ Current(t) \in 1..Len(inst)
  BY <1>1, TopKnows DEF Stage, Current
<1>3. PICK c \in 1..Len(inst) : c = Current(t)
  BY <1>2
<1>4. PICK y : y = [inst[c] EXCEPT !.manual = TRUE,
                                   !.proc = IF inst[c].proc = "up" THEN "doomed" ELSE inst[c].proc]
  OBVIOUS
<1>5. inst[c] \in Instance /\ GoodNext(inst[c], inst[c])
  BY OldInstance
<1>6. /\ y \in Instance /\ y.manual = TRUE
      /\ y.proc = IF inst[c].proc = "up" THEN "doomed" ELSE inst[c].proc
      /\ y.of = inst[c].of /\ y.status = inst[c].status /\ y.watch = inst[c].watch
      /\ y.auto = inst[c].auto
  BY <1>4, <1>5 DEF Instance
<1>7. GoodNext(inst[c], y)
  BY <1>5, <1>6 DEF GoodNext
<1>8. inst' = [inst EXCEPT ![c] = y]
  BY <1>3, <1>4 DEF Mark
<1>9. /\ RunGrows(inst, inst') /\ InstInv' /\ inst' \in Seq(Instance) /\ Len(inst') = Len(inst)
      /\ inst'[c] = y
  BY <1>1, <1>6, <1>7, <1>8, InstanceStep
<1>10. CallsOK' /\ named' = named
  BY <1>1, <1>2, <1>3, <1>6, <1>9, WorkGoesOn DEF Stages
<1> QED
  BY <1>1, <1>9, <1>10, InstanceTypes DEF ProjectsInv, ProjectTypes

LEMMA KillStep == ASSUME ProjectsInv, NEW t \in Thread, Kill(t) PROVE ProjectsInv'
<1>1. /\ stack[t] # <<>> /\ Top(t).pc = "kill" /\ To(t, "settle")
      /\ UNCHANGED <<projects, crash, calls>>
  BY DEF Kill, In
<1>2. Current(t) # 0 /\ Current(t) \in 1..Len(inst) /\ inst[Current(t)].manual
  BY <1>1, TopKnows DEF Stage, Current
<1>3. PICK c \in 1..Len(inst) : c = Current(t)
  BY <1>2
<1>4. PICK y : y = [inst[c] EXCEPT !.proc = IF Alive(c) THEN "killed" ELSE inst[c].proc]
  OBVIOUS
<1>5. inst[c] \in Instance /\ GoodNext(inst[c], inst[c])
  BY OldInstance
<1>6. /\ y \in Instance /\ y.manual = inst[c].manual
      /\ y.proc = IF Alive(c) THEN "killed" ELSE inst[c].proc
      /\ y.of = inst[c].of /\ y.status = inst[c].status /\ y.watch = inst[c].watch
      /\ y.auto = inst[c].auto
  BY <1>4, <1>5 DEF Instance
<1>7. GoodNext(inst[c], y)
  BY <1>2, <1>3, <1>5, <1>6 DEF GoodNext, Alive
<1>8. inst' = [inst EXCEPT ![c] = y]
  BY <1>3, <1>4 DEF Kill
<1>9. /\ RunGrows(inst, inst') /\ InstInv' /\ inst' \in Seq(Instance) /\ Len(inst') = Len(inst)
      /\ inst'[c] = y
  BY <1>1, <1>6, <1>7, <1>8, InstanceStep
<1>10. y.proc \notin {"up", "doomed"} /\ y.manual
  BY <1>2, <1>3, <1>6 DEF Alive
<1>11. CallsOK' /\ named' = named
  BY <1>1, <1>2, <1>3, <1>9, <1>10, WorkGoesOn DEF Stages
<1> QED
  BY <1>1, <1>9, <1>11, InstanceTypes DEF ProjectsInv, ProjectTypes
LEMMA SettleStep == ASSUME ProjectsInv, NEW t \in Thread, Settle(t) PROVE ProjectsInv'
<1>1. /\ stack[t] # <<>> /\ Top(t).pc = "settle" /\ UNCHANGED <<projects, crash, calls>>
  BY DEF Settle, In
<1>2. /\ Current(t) # 0 /\ Current(t) \in 1..Len(inst)
      /\ inst[Current(t)].proc \notin {"up", "doomed"}
  BY <1>1, TopKnows DEF Stage, Current
<1>3. PICK c \in 1..Len(inst) : c = Current(t)
  BY <1>2
<1>4. PICK y : y = [inst[c] EXCEPT !.status = "stopped"]
  OBVIOUS
<1>5. inst[c] \in Instance /\ GoodNext(inst[c], inst[c])
  BY OldInstance
<1>6. /\ y \in Instance /\ y.manual = inst[c].manual /\ y.proc = inst[c].proc
      /\ y.of = inst[c].of /\ y.status = "stopped" /\ y.watch = inst[c].watch
      /\ y.auto = inst[c].auto
  BY <1>4, <1>5 DEF Instance
<1>7. GoodNext(inst[c], y)
  BY <1>2, <1>3, <1>5, <1>6 DEF GoodNext
<1>8. inst' = [inst EXCEPT ![c] = y]
  BY <1>3, <1>4 DEF Settle
<1>9. /\ RunGrows(inst, inst') /\ InstInv' /\ inst' \in Seq(Instance) /\ Len(inst') = Len(inst)
      /\ inst'[c] = y
  BY <1>1, <1>6, <1>7, <1>8, InstanceStep
<1>10. CASE Prepare(t)
  <2>1. CallsOK' /\ named' = named
    BY <1>1, <1>2, <1>3, <1>6, <1>9, <1>10, WorkPrepares
  <2> QED
    BY <1>1, <1>9, <2>1, InstanceTypes DEF ProjectsInv, ProjectTypes
<1>11. CASE Finish(t, TRUE)
  <2>1. CallsOK' /\ named' \in [Name -> Thread \cup {Nobody}]
    BY <1>1, <1>9, <1>11, WorkEnds
  <2> QED
    BY <1>1, <1>9, <2>1, InstanceTypes
<1> QED
  BY <1>10, <1>11 DEF Settle

\* A sequence whose head is replaced.
LEMMA HeadReplaced ==
    ASSUME NEW S, NEW s \in Seq(S), s # <<>>, NEW f \in S
    PROVE  <<f>> \o Tail(s) = [s EXCEPT ![1] = f] /\ [s EXCEPT ![1] = f] \in Seq(S)
           /\ [s EXCEPT ![1] = f][1] = f /\ [s EXCEPT ![1] = f] # <<>>
<1>1. /\ Tail(s) \in Seq(S) /\ Len(Tail(s)) = Len(s) - 1
      /\ \A i \in 1..Len(Tail(s)) : Tail(s)[i] = s[i + 1]
  BY HeadTailProperties
<1>2. PICK m \in Nat, n \in Nat : m = Len(Tail(s)) /\ n = Len(s)
  BY <1>1, LenProperties
<1>3. n = m + 1
  <2>1. n # 0
    BY <1>2, EmptySeq
  <2>2. m = n - 1
    BY <1>1, <1>2
  <2> QED
    BY <2>1, <2>2
<1>4. 1 \in 1..Len(s)
  BY <1>2, <1>3
<1>5. PICK q : q = [s EXCEPT ![1] = f]
  OBVIOUS
<1>6. q \in Seq(S) /\ Len(q) = Len(s)
  BY <1>4, <1>5, ExceptSeq
<1>7. q[1] = f /\ \A k \in 1..Len(s) : k # 1 => q[k] = s[k]
  BY <1>4, <1>5, LenProperties
<1>8. PICK h \in Seq(S) : h = <<f>> /\ Len(h) = 1 /\ h[1] = f
  <2>1. <<f>> \in Seq(S) /\ Len(<<f>>) = 1 /\ <<f>>[1] = f
    OBVIOUS
  <2> QED
    BY <2>1
<1>9. PICK r : r = h \o Tail(s)
  OBVIOUS
<1>10. /\ r \in Seq(S) /\ Len(r) = 1 + Len(Tail(s))
       /\ \A i \in 1..(1 + Len(Tail(s))) : r[i] = IF i <= 1 THEN h[i] ELSE Tail(s)[i - 1]
  BY <1>1, <1>8, <1>9, ConcatProperties
<1>11. Len(r) = Len(q)
  BY <1>2, <1>3, <1>6, <1>10
<1>12. ASSUME NEW i \in 1..Len(r) PROVE r[i] = q[i]
  <2>1. i \in 1..(1 + m) /\ Len(r) = m + 1
    BY <1>2, <1>10
  <2>2. CASE i = 1
    BY <1>2, <1>7, <1>8, <1>10, <2>1, <2>2
  <2>3. CASE i # 1
    <3>1. i - 1 \in 1..m /\ ~(i <= 1) /\ i \in 1..n /\ (i - 1) + 1 = i
      BY <1>3, <2>1, <2>3
    <3>2. r[i] = Tail(s)[i - 1]
      BY <1>2, <1>10, <2>1, <3>1
    <3>3. Tail(s)[i - 1] = s[i]
      BY <1>1, <1>2, <3>1
    <3> QED
      BY <1>2, <1>7, <2>3, <3>1, <3>2, <3>3
  <2> QED
    BY <2>2, <2>3
<1>13. r = q
  BY <1>6, <1>10, <1>11, <1>12, SeqEqual
<1>14. q # <<>>
  BY <1>2, <1>3, <1>6, EmptySeq
<1> QED
  BY <1>5, <1>6, <1>7, <1>8, <1>9, <1>13, <1>14

LEMMA StartDepStep == ASSUME ProjectsInv, NEW t \in Thread, StartDep(t) PROVE ProjectsInv'
<1>1. /\ stack[t] # <<>> /\ Top(t).pc = "deps" /\ Top(t).todo # <<>> /\ Untouched /\ named' = named
  BY DEF StartDep, In, Untouched
<1>2. /\ RunGrows(inst, inst') /\ OnlyAbout(Top(t).name)
      /\ named \in [Name -> Thread \cup {Nobody}]
  BY <1>1, UntouchedGrows DEF Untouched, OnlyAbout, ProjectsInv, ProjectTypes
<1>3. /\ Top(t) \in Call /\ Top(t).name \in Name /\ named[Top(t).name] = t
      /\ Stage(Top(t), projects, inst) /\ Top(t) = stack[t][1] /\ 1 \in 1..Len(stack[t])
  BY <1>1, TopKnows, TopCall DEF ProjectsInv
<1>4. Head(Top(t).todo) \in Name /\ Tail(Top(t).todo) \in Seq(Name)
  BY <1>1, <1>3, HeadTailProperties DEF Call
<1>5. PICK f \in Call : f = [Top(t) EXCEPT !.todo = Tail(@)]
  BY <1>3, <1>4 DEF Call
<1>6. f.pc = "deps" /\ f.name = Top(t).name
  BY <1>1, <1>3, <1>5 DEF Call
<1>7. Stage(f, projects, inst)
  BY <1>1, <1>3, <1>6 DEF Stage
<1>8. PICK s \in Seq(Call) : s = stack[t] /\ s # <<>>
  BY <1>1 DEF ProjectsInv, ProjectTypes
<1>9. PICK q \in Seq(Call) : q = [s EXCEPT ![1] = f] /\ q = <<f>> \o Tail(s) /\ q[1] = f /\ q # <<>>
  <2>1. /\ <<f>> \o Tail(s) = [s EXCEPT ![1] = f] /\ [s EXCEPT ![1] = f] \in Seq(Call)
        /\ [s EXCEPT ![1] = f][1] = f /\ [s EXCEPT ![1] = f] # <<>>
    BY <1>8, HeadReplaced
  <2> QED
    BY <2>1
<1>10. ThreadOK(t, s, named, projects, inst) /\ projects \in [Name -> 0..Len(inst)]
  BY <1>8, StackInvs DEF ProjectsInv, ProjectTypes
<1>11. RunGrows(inst, inst) /\ ElsewhereKept(t, s[1].name, named, named, projects, projects)
  BY DEF RunGrows, ElsewhereKept
<1>12. /\ 1 \in 1..Len(s) /\ (s[1].pc # "lock" \/ named[s[1].name] # t) /\ f.name = s[1].name
       /\ (f.pc # "lock" => named[f.name] = t)
  BY <1>1, <1>3, <1>6, <1>8
<1>13. ThreadOK(t, q, named, projects, inst)
  <2>1. ThreadOK(t, [s EXCEPT ![1] = f], named, projects, inst)
    BY <1>7, <1>10, <1>11, <1>12, TopGoesOn
  <2> QED
    BY <1>9, <2>1
<1>14. PICK g \in Call : g = Frame("start", Head(Top(t).todo))
  BY <1>4, EmptySeq DEF Frame, Call, Stages
<1>15. ThreadOK(t, <<g>> \o q, named, projects, inst) /\ <<g>> \o q \in Seq(Call)
  BY ZenonT(40), <1>6, <1>9, <1>13, <1>14, CallMade DEF Frame
<1>16. PICK r \in Seq(Call) : stack' = [stack EXCEPT ![t] = r] /\ ThreadOK(t, r, named, projects, inst)
  BY <1>5, <1>8, <1>9, <1>13, <1>14, <1>15 DEF StartDep
<1>17. CallsOK'
  <2>1. ThreadOK(t, r, named', projects', inst')
    BY <1>1, <1>16 DEF Untouched
  <2> QED
    BY <1>2, <1>3, <1>16, <2>1, OneThread
<1> QED
  BY <1>1, <1>2, <1>17, UntouchedStep

LEMMA SpawnStep == ASSUME ProjectsInv, NEW t \in Thread, Spawn(t) PROVE ProjectsInv'
<1>1. /\ stack[t] # <<>> /\ Top(t).pc = "deps" /\ Len(inst) < MaxInst /\ Finish(t, TRUE)
      /\ UNCHANGED <<crash, calls>>
  BY DEF Spawn, In
<1>2. /\ Top(t).name \in Name /\ Stage(Top(t), projects, inst)
      /\ (Current(t) # 0 => Current(t) \in 1..Len(inst)) /\ ProjectTypes /\ InstInv
  BY <1>1, TopKnows DEF ProjectsInv
<1>3. PICK n \in Name : n = Top(t).name
  BY <1>2
<1>4. PICK y \in Instance : y = [of |-> n, proc |-> "up", status |-> "running",
                                 manual |-> FALSE, auto |-> FALSE, watch |-> "wait"]
  BY DEF Instance
<1>5. PICK l \in Nat : l = Len(inst) /\ l < MaxInst
  BY <1>1, <1>2, LenProperties DEF ProjectTypes
<1>6. inst' = Append(inst, y) /\ projects' = [projects EXCEPT ![n] = l + 1]
  BY <1>3, <1>4, <1>5 DEF Spawn
<1>7. /\ inst' \in Seq(Instance) /\ Len(inst') = l + 1 /\ inst'[l + 1] = y
      /\ \A i \in 1..Len(inst) : inst'[i] = inst[i]
  BY <1>2, <1>5, <1>6, AppendProperties DEF ProjectTypes
<1>8. RunGrows(inst, inst')
  BY <1>7 DEF RunGrows
<1>9. projects' \in [Name -> 0..Len(inst')] /\ Len(inst') <= MaxInst
  <2>1. l + 1 \in 0..(l + 1) /\ \A x \in 0..l : x \in 0..(l + 1)
    OBVIOUS
  <2>2. projects \in [Name -> 0..(l + 1)]
    BY <1>2, <1>5, <2>1 DEF ProjectTypes
  <2>3. l + 1 <= MaxInst
    BY <1>5, ProjectConstants
  <2> QED
    BY <1>6, <1>7, <2>1, <2>2, <2>3
<1>10. \A m \in Name : m # Top(t).name => projects'[m] = projects[m]
  BY <1>2, <1>3, <1>6 DEF ProjectTypes
<1>11. CallsOK' /\ named' \in [Name -> Thread \cup {Nobody}]
  BY <1>1, <1>8, <1>10, WorkEnds
<1>12. ASSUME NEW i \in 1..Len(inst)
       PROVE  inst[i].proc \in {"up", "doomed"} => projects'[inst[i].of] = i
  <2> SUFFICES ASSUME inst[i].proc \in {"up", "doomed"} PROVE projects'[inst[i].of] = i
    OBVIOUS
  <2>1. projects[inst[i].of] = i /\ inst[i].of \in Name
    <3>1. inst[i] \in Instance
      BY <1>2, ElementOfSeq DEF ProjectTypes
    <3> QED
      BY <1>2, <3>1 DEF InstInv, LiveIsMapped, Alive, Instance
  <2>2. i # 0
    OBVIOUS
  <2>3. inst[i].of # n
    BY <1>1, <1>2, <1>3, <2>1, <2>2 DEF Stage
  <2> QED
    BY <1>3, <1>10, <2>1, <2>3
<1>13. ASSUME NEW i \in 1..Len(inst')
       PROVE  i \in 1..Len(inst) \/ i = l + 1
  BY <1>5, <1>7
<1>14. projects'[n] = l + 1
  BY <1>2, <1>6 DEF ProjectTypes
<1>15. LiveIsMapped'
  <2> SUFFICES ASSUME NEW i \in 1..Len(inst'), inst'[i].proc \in {"up", "doomed"}
               PROVE  projects'[inst'[i].of] = i
    BY DEF LiveIsMapped, Alive
  <2>1. CASE i \in 1..Len(inst)
    BY <1>7, <1>12, <2>1
  <2>2. CASE i = l + 1
    BY <1>4, <1>7, <1>14, <2>2
  <2> QED
    BY <1>13, <2>1, <2>2
<1>16. InstInv'
  BY SMTT(30), <1>2, <1>4, <1>7, <1>13, <1>15 DEF InstInv, StoppedIsDead, Alive
<1> QED
  BY <1>1, <1>2, <1>7, <1>9, <1>11, <1>16 DEF ProjectsInv, ProjectTypes, CallsOK
\* Steps that take no call further: other threads go on as they were, or with new calls.
LEMMA CallsKept ==
    ASSUME ProjectsInv, RunGrows(inst, inst'), UNCHANGED <<named, projects>>,
           stack' \in [Thread -> Seq(Call)],
           \A u \in Thread : \/ stack'[u] = stack[u]
                             \/ \A k \in 1..Len(stack'[u]) : stack'[u][k].pc = "lock"
    PROVE  CallsOK'
<1>1. /\ stack \in [Thread -> Seq(Call)] /\ projects \in [Name -> 0..Len(inst)]
      /\ \A u \in Thread : ThreadOK(u, stack[u], named, projects, inst)
  BY StackInvs DEF ProjectsInv, ProjectTypes
<1>2. ASSUME NEW u \in Thread PROVE ThreadOK(u, stack'[u], named, projects, inst')
  <2>1. CASE stack'[u] = stack[u]
    <3>1. PICK s \in Seq(Call) : s = stack[u]
      BY <1>1
    <3>2. ThreadOK(u, s, named, projects, inst)
      BY <1>1, <3>1
    <3>3. PICK run2 : run2 = inst' /\ RunGrows(inst, run2)
      OBVIOUS
    <3>4. \A n \in Name : named[n] = u => named[n] = u /\ projects[n] = projects[n]
      OBVIOUS
    <3>5. ThreadOK(u, s, named, projects, run2)
      BY <1>1, <3>2, <3>3, <3>4, ThreadKept
    <3> QED
      BY <2>1, <3>1, <3>3, <3>5
  <2>2. CASE \A k \in 1..Len(stack'[u]) : stack'[u][k].pc = "lock"
    BY <2>2, Fresh
  <2> QED
    BY <2>1, <2>2
<1>3. LockInv' /\ StageInv'
  BY <1>2 DEF LockInv, StageInv, ThreadOK
<1> QED
  BY <1>3 DEF CallsOK

LEMMA ExitsStep == ASSUME ProjectsInv, NEW i \in Inst, Exits(i) PROVE ProjectsInv'
<1>1. PICK c \in 1..Len(inst) : c = i
  <2>1. Len(inst) \in Nat
    BY LenProperties DEF ProjectsInv, ProjectTypes
  <2> QED
    BY <2>1, ProjectConstants DEF Exits, Inst
<1>2. Alive(c) /\ UNCHANGED <<projects, named, crash, stack, calls>>
  BY <1>1 DEF Exits
<1>3. PICK y : y = [inst[c] EXCEPT !.proc = IF inst[c].proc = "up" THEN "exited" ELSE "killed"]
  OBVIOUS
<1>4. inst[c] \in Instance /\ GoodNext(inst[c], inst[c])
  BY OldInstance
<1>5. /\ y \in Instance /\ y.manual = inst[c].manual
      /\ y.proc = IF inst[c].proc = "up" THEN "exited" ELSE "killed"
      /\ y.of = inst[c].of /\ y.status = inst[c].status /\ y.watch = inst[c].watch
      /\ y.auto = inst[c].auto
  BY <1>3, <1>4 DEF Instance
<1>6. GoodNext(inst[c], y)
  BY <1>2, <1>4, <1>5 DEF GoodNext, Alive
<1>7. inst' = [inst EXCEPT ![c] = y]
  BY <1>1, <1>3 DEF Exits
<1>8. RunGrows(inst, inst') /\ InstInv' /\ inst' \in Seq(Instance) /\ Len(inst') = Len(inst)
  BY <1>2, <1>5, <1>6, <1>7, InstanceStep
<1>9. CallsOK'
  BY <1>2, <1>8, CallsKept DEF ProjectsInv, ProjectTypes
<1> QED
  BY <1>2, <1>8, <1>9, InstanceTypes DEF ProjectsInv, ProjectTypes

\* The watcher of an instance.
LEMMA WatchStep == ASSUME ProjectsInv, NEW i \in Inst, Watching(i) PROVE ProjectsInv'
<1>1. PICK c \in 1..Len(inst) : c = i
  <2>1. Len(inst) \in Nat
    BY LenProperties DEF ProjectsInv, ProjectTypes
  <2> QED
    BY <2>1, ProjectConstants DEF Watching, Waited, recordCrash, Decide, Wake, Inst
<1>2. inst[c] \in Instance /\ GoodNext(inst[c], inst[c]) /\ inst[c].of \in Name
  BY OldInstance DEF Instance
<1>3. UNCHANGED <<projects, named, calls>>
  BY DEF Watching, Waited, recordCrash, Decide, Wake
<1>4. PICK y \in Instance : GoodNext(inst[c], y) /\ inst' = [inst EXCEPT ![c] = y]
  <2>1. CASE Waited(i)
    <3>1. PICK y : y = [inst[c] EXCEPT !.auto = autoRestart(c), !.status = "stopped",
                                       !.watch = "record"]
      OBVIOUS
    <3>2. autoRestart(c) \in BOOLEAN /\ (autoRestart(c) => ~inst[c].manual)
      BY DEF autoRestart
    <3>3. /\ y \in Instance /\ y.of = inst[c].of /\ y.proc = inst[c].proc /\ y.manual = inst[c].manual
          /\ y.status = "stopped" /\ y.watch = "record" /\ y.auto = autoRestart(c)
      BY <1>2, <3>1, <3>2 DEF Instance
    <3>4. ~Alive(c)
      BY <1>1, <2>1 DEF Waited
    <3>5. GoodNext(inst[c], y)
      BY <1>2, <3>2, <3>3, <3>4 DEF GoodNext, Alive
    <3>6. inst' = [inst EXCEPT ![c] = y]
      BY <1>1, <2>1, <3>1 DEF Waited
    <3> QED
      BY <3>3, <3>5, <3>6
  <2>2. CASE recordCrash(i) \/ Decide(i) \/ Wake(i)
    <3>1. PICK w \in {"decide", "backoff", "done"} :
             /\ inst' = [inst EXCEPT ![c].watch = w]
             /\ w = "backoff" => inst[c].auto
             /\ inst[c].watch \in {"record", "decide", "backoff"}
      BY <1>1, <2>2 DEF recordCrash, Decide, Wake
    <3>2. PICK y : y = [inst[c] EXCEPT !.watch = w]
      OBVIOUS
    <3>3. /\ y \in Instance /\ y.of = inst[c].of /\ y.proc = inst[c].proc /\ y.manual = inst[c].manual
          /\ y.status = inst[c].status /\ y.watch = w /\ y.auto = inst[c].auto
      BY <1>2, <3>1, <3>2 DEF Instance
    <3>4. GoodNext(inst[c], y)
      BY <1>2, <3>1, <3>3 DEF GoodNext
    <3>5. inst' = [inst EXCEPT ![c] = y]
      BY <3>1, <3>2
    <3> QED
      BY <3>3, <3>4, <3>5
  <2> QED
    BY <2>1, <2>2 DEF Watching
<1>5. RunGrows(inst, inst') /\ InstInv' /\ inst' \in Seq(Instance) /\ Len(inst') = Len(inst)
  BY <1>3, <1>4, InstanceStep
<1>6. crash' \in [Name -> Nat]
  <2>1. crash' = crash \/ crash' = [crash EXCEPT ![inst[c].of] = @ + 1]
    BY <1>1 DEF Watching, Waited, recordCrash, Decide, Wake
  <2> QED
    BY <1>2, <2>1 DEF ProjectsInv, ProjectTypes
<1>7. CallsOK'
  <2>1. stack \in [Thread -> Seq(Call)]
    BY DEF ProjectsInv, ProjectTypes
  <2>2. CASE UNCHANGED stack
    BY <1>3, <1>5, <2>1, <2>2, CallsKept
  <2>3. CASE Wake(i)
    <3>1. PICK g \in Call : g = Frame("start", inst[c].of) /\ g.pc = "lock"
      <4>1. Frame("start", inst[c].of) \in Call /\ Frame("start", inst[c].of).pc = "lock"
        BY <1>2, EmptySeq DEF Frame, Call, Stages
      <4> QED
        BY <4>1
    <3>2. <<g>> \in Seq(Call) /\ \A k \in 1..Len(<<g>>) : <<g>>[k].pc = "lock"
      BY <3>1
    <3>3. stack' = [stack EXCEPT ![i] = <<g>>]
      BY <1>1, <2>3, <3>1 DEF Wake
    <3>4. /\ stack' \in [Thread -> Seq(Call)]
          /\ \A u \in Thread : \/ stack'[u] = stack[u]
                               \/ \A k \in 1..Len(stack'[u]) : stack'[u][k].pc = "lock"
      BY <2>1, <3>2, <3>3
    <3> QED
      BY <1>3, <1>5, <3>4, CallsKept
  <2> QED
    BY <2>2, <2>3 DEF Watching, Waited, recordCrash, Decide
<1> QED
  BY <1>3, <1>5, <1>6, <1>7 DEF ProjectsInv, ProjectTypes, CallsOK

\* A request starts calls on threads that are idle.
LEMMA RequestStep ==
    ASSUME ProjectsInv, NEW frames, Calls(frames),
           \A t \in DOMAIN frames : frames[t] \in Seq(Call) /\ \A k \in 1..Len(frames[t]) :
                                       frames[t][k].pc = "lock"
    PROVE  ProjectsInv'
<1>1. /\ UNCHANGED <<projects, named, inst, crash>> /\ calls' = calls + 1 /\ calls < MaxCalls
      /\ stack' = [t \in Thread |-> IF t \in DOMAIN frames THEN frames[t] ELSE stack[t]]
  BY DEF Calls
<1>2. calls' \in 0..MaxCalls
  BY <1>1, ProjectConstants DEF ProjectsInv, ProjectTypes
<1>3. /\ stack' \in [Thread -> Seq(Call)]
      /\ \A u \in Thread : \/ stack'[u] = stack[u]
                           \/ \A k \in 1..Len(stack'[u]) : stack'[u][k].pc = "lock"
  BY <1>1 DEF ProjectsInv, ProjectTypes
<1>4. RunGrows(inst, inst')
  BY <1>1, UntouchedGrows
<1>5. CallsOK'
  BY <1>1, <1>3, <1>4, CallsKept
<1> QED
  BY <1>1, <1>2, <1>5 DEF ProjectsInv, ProjectTypes, CallsOK, InstInv, LiveIsMapped, StoppedIsDead, Alive

LEMMA FrameIsCall ==
    ASSUME NEW op \in {"start", "stop"}, NEW n \in Name
    PROVE  Frame(op, n) \in Call /\ Frame(op, n).pc = "lock"
BY EmptySeq DEF Frame, Call, Stages

LEMMA HandlerStep ==
    ASSUME ProjectsInv, NEW frames \in Seq(Call), \A k \in 1..Len(frames) : frames[k].pc = "lock",
           Handler(frames)
    PROVE  ProjectsInv'
<1>1. PICK z : z = [t \in {CHOOSE u \in Idle : TRUE} |-> frames]
  OBVIOUS
<1>2. Calls(z)
  BY <1>1 DEF Handler
<1>3. \A t \in DOMAIN z : z[t] \in Seq(Call) /\ \A k \in 1..Len(z[t]) : z[t][k].pc = "lock"
  BY <1>1
<1> QED
  BY <1>2, <1>3, RequestStep

LEMMA SpreadStep ==
    ASSUME ProjectsInv, NEW op \in {"start", "stop"}, NEW names \in SUBSET Name, Spread(op, names)
    PROVE  ProjectsInv'
<1> DEFINE Assign == {f \in [names -> Idle] : \A m, n \in names : f[m] = f[n] => m = n}
           f == CHOOSE g \in Assign : TRUE
<1>1. PICK z : z = [t \in {f[n] : n \in names} |-> <<Frame(op, CHOOSE n \in names : f[n] = t)>>]
  OBVIOUS
<1>2. Calls(z)
  BY <1>1 DEF Spread
<1>3. ASSUME NEW t \in DOMAIN z
      PROVE  z[t] \in Seq(Call) /\ \A k \in 1..Len(z[t]) : z[t][k].pc = "lock"
  <2>1. \E n \in names : f[n] = t
    BY <1>1
  <2>2. PICK n \in names : n = CHOOSE m \in names : f[m] = t
    BY <2>1
  <2>3. z[t] = <<Frame(op, n)>>
    BY <1>1, <2>2
  <2>4. PICK g \in Call : g = Frame(op, n) /\ g.pc = "lock"
    BY FrameIsCall
  <2>5. <<g>> \in Seq(Call) /\ \A k \in 1..Len(<<g>>) : <<g>>[k].pc = "lock"
    BY <2>4
  <2> QED
    BY <2>3, <2>4, <2>5
<1> HIDE DEF Assign, f
<1> QED
  BY <1>2, <1>3, RequestStep
LEMMA ProjectsStepInv == ProjectsInv /\ [ProjectsNext]_projectVars => ProjectsInv'
<1> SUFFICES ASSUME ProjectsInv, [ProjectsNext]_projectVars PROVE ProjectsInv'
  OBVIOUS
<1>1. ASSUME NEW n \in Name, ProjectStart(n) \/ ProjectStop(n) \/ ProjectRestart(n)
      PROVE  ProjectsInv'
  <2>1. PICK g \in Call, h \in Call : /\ g = Frame("start", n) /\ h = Frame("stop", n)
                                      /\ g.pc = "lock" /\ h.pc = "lock"
    BY FrameIsCall
  <2>2. PICK frames \in Seq(Call) : /\ Handler(frames)
                                    /\ frames = <<g>> \/ frames = <<h>> \/ frames = <<h, g>>
    <3>1. <<g>> \in Seq(Call) /\ <<h>> \in Seq(Call) /\ <<h, g>> \in Seq(Call)
      OBVIOUS
    <3> QED
      BY <1>1, <2>1, <3>1 DEF ProjectStart, ProjectStop, ProjectRestart
  <2>3. \A k \in 1..Len(frames) : frames[k].pc = "lock"
    BY <2>1, <2>2
  <2> QED
    BY <2>2, <2>3, HandlerStep
<1>2. CASE StopAll
  <2>1. {n \in Name : projects[n] # 0} \in SUBSET Name
    OBVIOUS
  <2> QED
    BY <1>2, <2>1, SpreadStep DEF StopAll
<1>3. CASE AutoStartProjects
  BY <1>3, ProjectConstants, SpreadStep DEF AutoStartProjects
<1>4. ASSUME NEW t \in Thread, Serving(t) PROVE ProjectsInv'
  BY <1>4, EnterStep, FindStep, MarkStep, KillStep, SettleStep, StartDepStep, StartFailsStep, SpawnStep
     DEF Serving
<1>5. ASSUME NEW i \in Inst, Exits(i) \/ Watching(i) PROVE ProjectsInv'
  BY <1>5, ExitsStep, WatchStep
<1>6. ASSUME NEW n \in Name, Age(n) PROVE ProjectsInv'
  <2>1. crash' \in [Name -> Nat]
    BY <1>6 DEF Age, ProjectsInv, ProjectTypes
  <2> QED
    BY ZenonT(40), <1>6, <2>1 DEF Age, ProjectsInv, ProjectTypes, LockInv, StageInv, InstInv, LiveIsMapped,
       StoppedIsDead, Alive
<1>7. CASE UNCHANGED projectVars
  BY <1>7 DEF projectVars, ProjectsInv, ProjectTypes, LockInv, StageInv, InstInv, LiveIsMapped,
     StoppedIsDead, Alive
<1> QED
  BY <1>1, <1>2, <1>3, <1>4, <1>5, <1>6, <1>7 DEF ProjectsNext

LEMMA ProjectsAlways == ProjectsSpec => []ProjectsInv
BY ProjectsInitInv, ProjectsStepInv, PTL DEF ProjectsSpec

-----------------------------------------------------------------------------
(* The runtime: each part moves by itself, so each keeps its invariant.    *)

LEMMA PartsMove == Moves => RingSpec /\ PtySpec /\ StreamSpec /\ ProjectsSpec
<1>1. Init => RingInit /\ PtyInit /\ StreamInit /\ ProjectsInit
  BY DEF Init
<1>2. [Next]_<<part, ringVars, ptyVars, streamVars, projectVars>> =>
         [RingNext]_ringVars /\ [PtyNext]_ptyVars /\ [StreamNext]_streamVars /\ [ProjectsNext]_projectVars
  BY DEF Next
<1> QED
  BY <1>1, <1>2, PTL DEF Moves, RingSpec, PtySpec, StreamSpec, ProjectsSpec

LEMMA RuntimeAlways == Moves => [](RingInv /\ PtyInv /\ StreamInv /\ ProjectsInv)
BY PartsMove, RingAlways, PtyAlways, StreamAlways, ProjectsAlways, PTL

\* The circular buffer implements the bounded log in the composed runtime too: replayed
\* and tailed output is complete up to what was evicted, and what was is counted
\* (ring.go:12, ring.go:75).
THEOREM RingIsRight == Spec => RingIsALog
BY PartsMove, RingImplementsLog, PTL DEF Spec

\* Slots of the PTY manager are neither leaked nor returned twice, at most
\* PTYMaxConcurrent shells live, and no open shell is out of everybody's reach, for any
\* number of ids, callers and PTYs (pty.go: GetOrCreate, its releaser, CloseAll, gcOnce).
THEOREM PtysAreAccounted == Spec => []PtysAccounted
<1>1. PtyInv => PtysAccounted
  BY CapHolds DEF PtyInv, PtysAccounted
<1> QED
  BY <1>1, RuntimeAlways, PTL DEF Spec

\* At most one client streams and the flag says so, and while bash lives the ring holds
\* its output complete and in order, for any number of clients and chunks (pty.go:
\* AttachStream, readLoop, waitLoop).
THEOREM StreamsAreFaithful == Spec => []StreamFaithful
<1>1. StreamInv => StreamFaithful
  BY OneServed DEF StreamInv, StreamFaithful
<1> QED
  BY <1>1, RuntimeAlways, PTL DEF Spec

\* One process per project, known to the map, and a killed process stays down, for every
\* set of projects with whatever dependencies (cyclic ones included), and every number of
\* requests (project.go: StartProject, stopProject, watchProcess).
THEOREM SupervisionIsRight == Spec => []SupervisorRight
<1>1. ProjectsInv => SupervisorRight
  BY DEF ProjectsInv, ProjectTypes, InstInv, SupervisorRight, OneProcess, KilledStaysDown, Alive
<1> QED
  BY <1>1, RuntimeAlways, PTL DEF Spec

\* The types of all parts; for a project's calls they say that a thread holds the lock of
\* every project it is at work on.
THEOREM RuntimeIsTyped == Spec => []RuntimeTypeOK
<1>1. RingInv => RingTypeOK
  BY DEF RingInv, RingTypes, RingTypeOK
<1>2. PtyInv => PtyTypeOK
  BY DEF PtyInv
<1>3. StreamInv => StreamTypeOK
  BY DEF StreamInv, StreamTypes, StreamTypeOK, Chunk
<1>4. ProjectsInv => ProjectsTypeOK
  <2> SUFFICES ASSUME ProjectsInv PROVE ProjectsTypeOK
    OBVIOUS
  <2>1. ASSUME NEW t \in Thread, NEW k \in 1..Len(stack[t])
        PROVE  /\ stack[t][k].op \in {"start", "stop"} /\ stack[t][k].pc \in Stages
               /\ stack[t][k].pc # "lock" => named[stack[t][k].name] = t
               /\ k > 1 => stack[t][k].pc \in {"lock", "deps"}
    <3>1. stack[t][k] \in Call
      BY ElementOfSeq DEF ProjectsInv, ProjectTypes
    <3> QED
      BY <3>1 DEF Call, ProjectsInv, LockInv
  <2> QED
    BY <2>1 DEF ProjectsInv, ProjectTypes, ProjectsTypeOK
<1> QED
  BY <1>1, <1>2, <1>3, <1>4, RuntimeAlways, PTL DEF Spec, RuntimeTypeOK
==============================================================================
