---------------------------- MODULE HandlerProofs ----------------------------
(***************************************************************************)
(* Proofs about the file handlers and the cache of ports.  What a handler  *)
(* answers (FileAnswers) is right for every file, tree and content,        *)
(* whatever their sizes and the limits: a handler's loop is a fold, a fold *)
(* over 1..n has a trace of n + 1 values (FoldTrace), and an invariant of  *)
(* the trace's steps says of the last value what the handler promises.     *)
(* The library states induction for an operator; here it is stated for     *)
(* sets and functions, from the fact that the natural numbers are well     *)
(* founded.  Then the inductive invariants of PortCache and of Files: what *)
(* a listing of ports may lack, and what a file holds whoever writes it.   *)
(***************************************************************************)
EXTENDS Files, PortCache, WellFoundedInduction, FunctionTheorems, FiniteSetTheorems, SequenceTheorems, TLAPS

-----------------------------------------------------------------------------
(* Induction and folds.                                                    *)

LEMMA LeastNatural ==
    ASSUME NEW T \in SUBSET Nat, T # {}
    PROVE  \E n \in T : \A m \in T : n <= m
<1>1. PICK n \in T : \A m \in T : ~(<<m, n>> \in OpToRel(<, Nat))
  BY NatLessThanWellFounded, WFMin
<1>2. \A m \in T : ~(m < n)
  BY <1>1 DEF OpToRel
<1> QED
  BY <1>2

\* What holds of 0 and of n + 1 whenever of n holds of every number.
LEMMA NaturalInduction ==
    ASSUME NEW T \in SUBSET Nat, 0 \in T, \A n \in T : n + 1 \in T
    PROVE  T = Nat
<1>1. SUFFICES ASSUME Nat \ T # {} PROVE FALSE
  OBVIOUS
<1>2. PICK n \in Nat \ T : \A m \in Nat \ T : n <= m
  BY <1>1, LeastNatural
<1>3. n # 0 /\ n - 1 \in Nat /\ n - 1 \in T
  BY <1>2
<1> QED
  BY <1>2, <1>3

LEMMA GreatestNatural ==
    ASSUME NEW T \in SUBSET Nat, T # {}, NEW b \in Nat, \A m \in T : m <= b
    PROVE  \E n \in T : \A m \in T : m <= n
<1> DEFINE Above == {k \in Nat : \A m \in T : m <= k}
<1>0. PICK n \in Above : \A k \in Above : n <= k
  <2>1. b \in Above /\ Above \subseteq Nat
    OBVIOUS
  <2> QED
    BY <2>1, LeastNatural
<1>1. n \in Nat /\ (\A m \in T : m <= n) /\ \A k \in Nat : (\A m \in T : m <= k) => n <= k
  BY <1>0
<1>2. CASE n \in T
  BY <1>1, <1>2
<1>3. CASE n \notin T
  <2>1. \A m \in T : m \in Nat /\ m < n
    BY <1>1, <1>3
  <2>3. PICK m \in T : m \in Nat /\ m < n
    BY <2>1
  <2>4. n - 1 \in Nat
    BY <1>1, <2>3
  <2>5. \A k \in T : k <= n - 1
    BY <1>1, <2>1, <2>4
  <2>2. n - 1 \in Nat /\ \A k \in T : k <= n - 1
    BY <2>4, <2>5
  <2> QED
    BY SMTT(30), <1>1, <2>2
<1> QED
  BY <1>2, <1>3

-----------------------------------------------------------------------------
(* The folds of the community modules take the elements of a set of numbers *)
(* from the greatest down: the greatest is the last thing that is folded.   *)

LEMMA MaxIs ==
    ASSUME NEW n \in Nat, NEW s \in SUBSET (1..n), s # {}
    PROVE  /\ Max(s) \in s /\ Max(s) \in 1..n /\ s \ {Max(s)} \in SUBSET (1..n)
           /\ \A k \in s : k <= Max(s)
<1>1. PICK m \in s : \A k \in s : k <= m
  <2>1. s \in SUBSET Nat /\ \A k \in s : k <= n
    OBVIOUS
  <2> QED
    BY <2>1, GreatestNatural
<1>2. \A k \in s : m >= k
  BY <1>1
<1>3. Max(s) \in s /\ \A k \in s : Max(s) >= k
  BY <1>1, <1>2 DEF Max
<1> QED
  BY <1>3

FoldsTo(g, n, base, h) ==
    \A s \in SUBSET (1..n) : g[s] = IF s = {} THEN base ELSE h[<<Max(s), g[s \ {Max(s)}]>>]

\* A step function on V determines a value for every set of numbers.
LEMMA FoldExists ==
    ASSUME NEW n \in Nat, NEW V, NEW base \in V, NEW h \in [(1..n) \X V -> V]
    PROVE  \E g \in [SUBSET (1..n) -> V] : FoldsTo(g, n, base, h)
<1> DEFINE Folds(g, m) == \A s \in SUBSET (1..m) :
               g[s] = IF s = {} THEN base ELSE h[<<Max(s), g[s \ {Max(s)}]>>]
           T == {m \in Nat : m <= n => \E g \in [SUBSET (1..m) -> V] : Folds(g, m)}
<1>1. 0 \in T
  <2>1. [s \in SUBSET (1..0) |-> base] \in [SUBSET (1..0) -> V] /\ Folds([s \in SUBSET (1..0) |-> base], 0)
    OBVIOUS
  <2> QED
    BY <2>1
<1>2. ASSUME NEW m \in T, m + 1 <= n PROVE \E g \in [SUBSET (1..(m + 1)) -> V] : Folds(g, m + 1)
  <2> DEFINE N == m + 1
  <2>0. m \in Nat /\ N \in Nat /\ N \in 1..n /\ m <= n
    BY <1>2
  <2>1. PICK g \in [SUBSET (1..m) -> V] : Folds(g, m)
    BY <1>2, <2>0
  <2> DEFINE G == [s \in SUBSET (1..N) |-> IF N \in s THEN h[<<N, g[s \ {N}]>>] ELSE g[s]]
  <2>2. \A s \in SUBSET (1..N) : IF N \in s THEN s \ {N} \in SUBSET (1..m) ELSE s \in SUBSET (1..m)
    BY <2>0
  <2>3. G \in [SUBSET (1..N) -> V]
    <3>1. ASSUME NEW s \in SUBSET (1..N) PROVE G[s] \in V
      <4>1. CASE N \in s
        <5>1. g[s \ {N}] \in V
          BY <2>1, <2>2, <4>1
        <5>2. <<N, g[s \ {N}]>> \in (1..n) \X V
          BY <5>1, <2>0
        <5>3. G[s] = h[<<N, g[s \ {N}]>>]
          BY <4>1
        <5> QED
          BY <5>2, <5>3
      <4>2. CASE N \notin s
        BY <2>1, <2>2, <4>2
      <4> QED
        BY <4>1, <4>2
    <3> QED
      BY <3>1
  <2>4. ASSUME NEW s \in SUBSET (1..N) PROVE G[s] = IF s = {} THEN base ELSE h[<<Max(s), G[s \ {Max(s)}]>>]
    <3>1. CASE N \in s
      <4>1. Max(s) = N
        <5>1. Max(s) \in s /\ N <= Max(s) /\ Max(s) \in 1..N
          BY <2>0, <3>1, MaxIs
        <5> QED
          BY <5>1, <2>0
      <4>2. s \ {N} \in SUBSET (1..N) /\ N \notin s \ {N}
        OBVIOUS
      <4>3. G[s \ {N}] = g[s \ {N}]
        BY <4>2
      <4>4. G[s] = h[<<N, g[s \ {N}]>>] /\ s # {}
        BY <3>1
      <4> QED
        BY <4>1, <4>3, <4>4
    <3>2. CASE N \notin s
      <4>1. s \in SUBSET (1..m) /\ G[s] = g[s]
        BY <2>2, <3>2
      <4>2. CASE s = {}
        BY <4>1, <4>2, <2>1
      <4>3. CASE s # {}
        <5>1. s \ {Max(s)} \in SUBSET (1..N) /\ N \notin s \ {Max(s)}
          BY <3>2
        <5>2. G[s \ {Max(s)}] = g[s \ {Max(s)}]
          BY <5>1
        <5> QED
          BY <4>1, <4>3, <5>2, <2>1
      <4> QED
        BY <4>2, <4>3
    <3> QED
      BY <3>1, <3>2
  <2> QED
    BY <2>3, <2>4
<1>3. ASSUME NEW m \in T PROVE m + 1 \in T
  <2>1. m + 1 \in Nat
    OBVIOUS
  <2>2. CASE m + 1 <= n
    BY <1>2, <2>1, <2>2
  <2>3. CASE ~(m + 1 <= n)
    BY <2>1, <2>3
  <2> QED
    BY <2>2, <2>3
<1> HIDE DEF T
<1>4. T = Nat
  <2>1. T \in SUBSET Nat
    BY DEF T
  <2> QED
    BY <1>1, <1>3, <2>1, NaturalInduction
<1>5. n \in T
  BY <1>4
<1>6. \E g \in [SUBSET (1..n) -> V] : Folds(g, n)
  <2>1. n <= n => \E g \in [SUBSET (1..n) -> V] : Folds(g, n)
    <3> HIDE DEF Folds
    <3> QED
      BY ONLY <1>5 DEF T
  <2> QED
    <3>1. n <= n
      OBVIOUS
    <3> HIDE DEF Folds
    <3> QED
      BY <2>1, <3>1
<1> QED
  BY <1>6 DEF FoldsTo

\* What holds of the empty set's value and is kept by every step holds at the end.
LEMMA FoldStays ==
    ASSUME NEW n \in Nat, NEW V, NEW g, g[{}] \in V,
           \A s \in SUBSET (1..n) : s # {} /\ g[s \ {Max(s)}] \in V => g[s] \in V
    PROVE  g[1..n] \in V
<1> DEFINE T == {m \in Nat : \A s \in SUBSET (1..n) : s \subseteq 1..m => g[s] \in V}
<1>1. 0 \in T
  <2>1. \A s \in SUBSET (1..n) : s \subseteq 1..0 => s = {}
    OBVIOUS
  <2> QED
    BY <2>1
<1>2. ASSUME NEW m \in T PROVE m + 1 \in T
  <2>1. SUFFICES ASSUME NEW s \in SUBSET (1..n), s \subseteq 1..(m + 1), s # {} PROVE g[s] \in V
    OBVIOUS
  <2>2. Max(s) \in s /\ s \ {Max(s)} \in SUBSET (1..n) /\ \A k \in s : k \in Nat /\ k <= Max(s) /\ Max(s) \in 1..(m + 1)
    BY <2>1, MaxIs
  <2>3. s \ {Max(s)} \subseteq 1..m
    BY <2>2, <2>1
  <2> QED
    BY <2>1, <2>2, <2>3
<1> HIDE DEF T
<1>3. T = Nat
  <2>1. T \in SUBSET Nat
    BY DEF T
  <2> QED
    BY <1>1, <1>2, <2>1, NaturalInduction
<1> QED
  BY <1>3 DEF T

LEMMA UpToInduction ==
    ASSUME NEW n \in Nat, NEW T, 0 \in T, \A k \in 1..n : k - 1 \in T => k \in T
    PROVE  \A k \in 0..n : k \in T
<1> DEFINE S == {k \in Nat : k <= n => k \in T}
<1>1. 0 \in S
  OBVIOUS
<1>2. ASSUME NEW k \in S PROVE k + 1 \in S
  <2>1. k + 1 <= n => k + 1 \in 1..n /\ (k + 1) - 1 = k /\ k <= n
    OBVIOUS
  <2> QED
    BY <2>1
<1>3. S \in SUBSET Nat
  OBVIOUS
<1> HIDE DEF S
<1>4. S = Nat
  BY <1>1, <1>2, <1>3, NaturalInduction
<1> QED
  BY <1>4 DEF S

\* A fold over the numbers up to n goes from value to value.
StepsBy(F, n, V, h) ==
    \A s \in SUBSET (1..n) : s # {} /\ F[s \ {Max(s)}] \in V => F[s] = h[<<Max(s), F[s \ {Max(s)}]>>]

TraceOf(F, n, V, base, h) ==
    \E a \in [0..n -> V] : a[0] = base /\ F[1..n] = a[n] /\ \A k \in 1..n : a[k] = h[<<k, a[k - 1]>>]

LEMMA FoldTrace ==
    ASSUME NEW n \in Nat, NEW V, NEW base \in V, NEW h \in [(1..n) \X V -> V], NEW F, F[{}] = base,
           StepsBy(F, n, V, h)
    PROVE  TraceOf(F, n, V, base, h)
<1> USE DEF StepsBy, TraceOf
<1> DEFINE T == {k \in 0..n : F[1..k] \in V}
<1>1. ASSUME NEW k \in 1..n
      PROVE  Max(1..k) = k /\ (1..k) \ {k} = 1..(k - 1) /\ 1..k \in SUBSET (1..n) /\ 1..k # {}
  <2>1. k \in Nat /\ k \in 1..k /\ 1..k \in SUBSET (1..k)
    OBVIOUS
  <2>2. Max(1..k) \in 1..k /\ k <= Max(1..k)
    BY <2>1, MaxIs
  <2> QED
    BY <2>1, <2>2
<1>2. 1..0 = {}
  OBVIOUS
<1>3. ASSUME NEW k \in 1..n, F[1..(k - 1)] \in V PROVE F[1..k] = h[<<k, F[1..(k - 1)]>>] /\ F[1..k] \in V
  <2>1. F[1..k] = h[<<Max(1..k), F[(1..k) \ {Max(1..k)}]>>]
    BY <1>1, <1>3
  <2>2. F[1..k] = h[<<k, F[1..(k - 1)]>>]
    BY <1>1, <2>1
  <2>3. <<k, F[1..(k - 1)]>> \in (1..n) \X V
    BY <1>3
  <2> QED
    BY <2>2, <2>3
<1>4. \A k \in 0..n : k \in T
  <2>1. 0 \in T
    BY <1>2
  <2>2. ASSUME NEW k \in 1..n, k - 1 \in T PROVE k \in T
    <3>1. F[1..(k - 1)] \in V /\ k \in 0..n
      BY <2>2
    <3>2. F[1..k] \in V
      BY <1>3, <3>1
    <3> QED
      BY <3>1, <3>2
  <2> HIDE DEF T
  <2> QED
    BY <2>1, <2>2, UpToInduction
<1>5. PICK a : a = [k \in 0..n |-> F[1..k]]
  OBVIOUS
<1>6. a \in [0..n -> V] /\ a[0] = base /\ F[1..n] = a[n]
  BY <1>2, <1>4, <1>5
<1>7. ASSUME NEW k \in 1..n PROVE a[k] = h[<<k, a[k - 1]>>]
  <2>1. k - 1 \in 0..n /\ k \in 0..n
    OBVIOUS
  <2>2. F[1..(k - 1)] \in V
    BY <1>4, <2>1
  <2> QED
    BY <1>3, <1>5, <2>1, <2>2
<1> QED
  BY <1>6, <1>7

-----------------------------------------------------------------------------
(* The finder.                                                             *)

Finding == [files : Seq(Nat), truncated : BOOLEAN]

LEMMA FindTrace ==
    ASSUME NEW q, NEW E, q.entries \in Seq(E)
    PROVE  \E a \in [0..Len(q.entries) -> Finding] :
              /\ a[0] = [files |-> <<>>, truncated |-> FALSE] /\ FindAnswer(q) = a[Len(q.entries)]
              /\ \A k \in 1..Len(q.entries) : a[k] = FindStep(q, a[k - 1], k)
<1> DEFINE n == Len(q.entries)
           d == [i \in DOMAIN q.entries |-> i]
           begin == [files |-> <<>>, truncated |-> FALSE]
           Out(k, a) == FindStep(q, a, k)
           P(it) == it = [s \in SUBSET DOMAIN d |-> IF s = {} THEN begin ELSE
                            LET x == Max(s) IN Out(d[x], it[s \ {x}])]
           h == [w \in (1..n) \X Finding |-> Out(w[1], w[2])]
           Final == CHOOSE it : P(it)
<1>1. n \in Nat /\ DOMAIN d = 1..n /\ \A k \in 1..n : d[k] = k
  OBVIOUS
<1>2. FindAnswer(q) = Final[DOMAIN d]
  BY DEF FindAnswer, FoldLeftDomain, FoldLeft, MapThenFoldSet
<1> HIDE DEF d
<1>3. \A k \in 1..n, a \in Finding : Out(k, a) \in Finding
  <2> SUFFICES ASSUME NEW k \in 1..n, NEW a \in Finding PROVE FindStep(q, a, k) \in Finding
    OBVIOUS
  <2>1. Append(a.files, k) \in Seq(Nat)
    BY DEF Finding
  <2>2. [a EXCEPT !.truncated = TRUE] \in Finding /\ [a EXCEPT !.files = Append(a.files, k)] \in Finding
    BY <2>1 DEF Finding
  <2> QED
    BY <2>2 DEF FindStep
<1>0. begin \in Finding
  BY DEF Finding
<1>4. h \in [(1..n) \X Finding -> Finding] /\ \A k \in 1..n, a \in Finding : h[<<k, a>>] = Out(k, a)
  BY <1>3
<1> HIDE DEF h, Out, n, begin
<1>5. PICK g \in [SUBSET (1..n) -> Finding] : FoldsTo(g, n, begin, h)
  BY <1>0, <1>1, <1>4, FoldExists
<1>6. P(g)
  <2>1. ASSUME NEW s \in SUBSET (1..n), s # {} PROVE g[s] = Out(d[Max(s)], g[s \ {Max(s)}])
    <3>1. Max(s) \in 1..n /\ s \ {Max(s)} \in SUBSET (1..n)
      BY <1>1, <2>1, MaxIs
    <3>2. g[s] = h[<<Max(s), g[s \ {Max(s)}]>>]
      BY <1>5, <2>1 DEF FoldsTo
    <3> QED
      BY <1>1, <1>4, <1>5, <3>1, <3>2
  <2>2. g[{}] = begin
    BY <1>5 DEF FoldsTo
  <2> QED
    BY <1>1, <1>5, <2>1, <2>2
<1>7. P(Final)
  BY <1>6
<1> HIDE DEF Final
<1>8. Final[{}] = begin
  BY <1>7
<1>9. ASSUME NEW s \in SUBSET (1..n), s # {}, Final[s \ {Max(s)}] \in Finding
      PROVE  Final[s] = h[<<Max(s), Final[s \ {Max(s)}]>>]
  <2>1. Max(s) \in 1..n
    BY <1>1, <1>9, MaxIs
  <2>2. Final[s] = Out(Max(s), Final[s \ {Max(s)}])
    BY <1>1, <1>7, <1>9, <2>1
  <2> QED
    BY <1>4, <1>9, <2>1, <2>2
<1>10. TraceOf(Final, n, Finding, begin, h)
  <2>1. StepsBy(Final, n, Finding, h)
    BY <1>9 DEF StepsBy
  <2> QED
    BY <1>0, <1>1, <1>4, <1>8, <2>1, FoldTrace
<1>11. PICK a \in [0..n -> Finding] : /\ a[0] = begin /\ Final[1..n] = a[n]
                                    /\ \A k \in 1..n : a[k] = h[<<k, a[k - 1]>>]
  BY <1>10 DEF TraceOf
<1>12. ASSUME NEW k \in 1..n PROVE a[k - 1] \in Finding /\ a[k] = Out(k, a[k - 1])
  <2>1. k - 1 \in 0..n
    BY <1>1
  <2>2. a[k - 1] \in Finding
    BY <1>11, <2>1
  <2>3. h[<<k, a[k - 1]>>] = Out(k, a[k - 1])
    BY <1>4, <2>2
  <2> QED
    BY <1>11, <2>2, <2>3
<1> QED
  BY <1>1, <1>2, <1>11, <1>12 DEF Out, n, begin

\* A listing, and an entry after all of it.
LEMMA FirstOfNone == IsFirstOf(<<>>, {})
<1>1. Len(<<>>) = 0 /\ Range(<<>>) = {} /\ 2..0 = {}
  BY DEF Range
<1> QED
  BY <1>1, AnswerConstants DEF IsFirstOf

LEMMA FirstStays ==
    ASSUME NEW k \in Nat, NEW f \in Seq(1..k), NEW D \in SUBSET (1..k), IsFirstOf(f, D), Len(f) = ListCap
    PROVE  IsFirstOf(f, D \cup {k + 1}) /\ Range(f) # D \cup {k + 1}
<1>1. ListCap \in 1..Len(f)
  BY AnswerConstants
<1>2. f[ListCap] \in 1..k /\ Range(f) \subseteq 1..k
  BY <1>1 DEF Range
<1> QED
  BY <1>2 DEF IsFirstOf

LEMMA FirstGrows ==
    ASSUME NEW k \in Nat, NEW f \in Seq(1..k), NEW D \in SUBSET (1..k), IsFirstOf(f, D), Range(f) = D, Len(f) < ListCap
    PROVE  /\ IsFirstOf(Append(f, k + 1), D \cup {k + 1}) /\ Range(Append(f, k + 1)) = D \cup {k + 1}
           /\ Append(f, k + 1) \in Seq(1..(k + 1))
<1>1. PICK g : g = Append(f, k + 1)
  OBVIOUS
<1>2. /\ Len(g) = Len(f) + 1 /\ DOMAIN g = 1..Len(g) /\ Len(f) \in Nat /\ DOMAIN f = 1..Len(f)
      /\ \A i \in 1..Len(g) : g[i] = IF i = Len(f) + 1 THEN k + 1 ELSE f[i]
  BY <1>1
<1>3. \A i \in 1..Len(f) : f[i] \in 1..k
  OBVIOUS
<1>4. Range(g) = Range(f) \cup {k + 1}
  BY SMTT(30), <1>2 DEF Range
<1>5. ASSUME NEW i \in 2..Len(g) PROVE g[i - 1] < g[i]
  <2>1. CASE i = Len(g)
    BY <1>2, <1>3, <2>1
  <2>2. CASE i # Len(g)
    <3>1. i \in 2..Len(f) /\ i - 1 \in 1..Len(f) /\ g[i] = f[i] /\ g[i - 1] = f[i - 1]
      BY SMTT(30), <1>2, <2>2
    <3> QED
      BY <3>1 DEF IsFirstOf
  <2> QED
    BY <2>1, <2>2
<1>6. g \in Seq(1..(k + 1))
  <2>1. f \in Seq(1..(k + 1)) /\ k + 1 \in 1..(k + 1)
    <3>1. \A i \in 1..Len(f) : f[i] \in 1..(k + 1)
      BY <1>3
    <3> QED
      BY <3>1
  <2> QED
    BY <1>1, <2>1
<1> QED
  BY SMTT(30), <1>1, <1>2, <1>4, <1>5, <1>6, AnswerConstants DEF IsFirstOf

LEMMA SeqOfMore == \A k \in Nat : \A f \in Seq(1..k) : f \in Seq(1..(k + 1))
<1> SUFFICES ASSUME NEW k \in Nat, NEW f \in Seq(1..k) PROVE f \in Seq(1..(k + 1))
  OBVIOUS
<1>1. \A i \in 1..Len(f) : f[i] \in 1..(k + 1)
  OBVIOUS
<1> QED
  BY <1>1

\* What is right after k entries: files are the first that are due.
ListedRight(f, truncated, k, D) ==
    /\ f \in Seq(1..k) /\ D \in SUBSET (1..k) /\ IsFirstOf(f, D)
    /\ IF truncated THEN Len(f) = ListCap ELSE Range(f) = D

FindDue(q, k) == {n \in 1..k : Matches(q.entries[n])}

LEMMA FindStepRight ==
    ASSUME NEW q, NEW k \in Nat, NEW a \in Finding, ListedRight(a.files, a.truncated, k, FindDue(q, k)),
           NEW b \in Finding, b = FindStep(q, a, k + 1)
    PROVE  ListedRight(b.files, b.truncated, k + 1, FindDue(q, k + 1))
<1>1. PICK f, D, E : f = a.files /\ D = FindDue(q, k) /\ E = FindDue(q, k + 1)
  OBVIOUS
<1>2. f \in Seq(1..k) /\ D \in SUBSET (1..k) /\ IsFirstOf(f, D) /\ f \in Seq(1..(k + 1)) /\ E \in SUBSET (1..(k + 1))
  BY <1>1, SeqOfMore DEF ListedRight, FindDue
<1>3. IF Matches(q.entries[k + 1]) THEN E = D \cup {k + 1} ELSE E = D
  BY <1>1 DEF FindDue
<1>4. CASE a.truncated \/ Len(f) >= ListCap
  <2>1. Len(f) = ListCap
    <3>1. Len(f) \in Nat /\ ListCap \in Nat
      BY <1>2, AnswerConstants
    <3> QED
      BY <1>1, <1>2, <1>4, <3>1 DEF ListedRight, IsFirstOf
  <2>2. IsFirstOf(f, E)
    BY <1>2, <1>3, <2>1, FirstStays
  <2>3. b.files = f /\ b.truncated
    BY <1>1, <1>4 DEF FindStep, Finding
  <2> QED
    BY <1>1, <1>2, <2>1, <2>2, <2>3 DEF ListedRight
<1>5. CASE ~(a.truncated \/ Len(f) >= ListCap)
  <2>0. Len(f) < ListCap /\ Range(f) = D
    <3>1. Len(f) \in Nat /\ ListCap \in Nat
      BY <1>2, AnswerConstants
    <3> QED
      BY <1>1, <1>5, <3>1 DEF ListedRight
  <2>1. CASE Matches(q.entries[k + 1])
    <3>1. b.files = Append(f, k + 1) /\ b.truncated = a.truncated
      BY <1>1, <1>5, <2>1 DEF FindStep, Finding
    <3> QED
      BY ZenonT(40), <1>1, <1>2, <1>3, <1>5, <2>0, <2>1, <3>1, FirstGrows DEF ListedRight
  <2>2. CASE ~Matches(q.entries[k + 1])
    <3>1. b = a
      BY <1>1, <1>5, <2>2 DEF FindStep
    <3> QED
      BY <1>1, <1>2, <1>3, <1>5, <2>0, <2>2, <3>1 DEF ListedRight
  <2> QED
    BY <2>1, <2>2
<1> QED
  BY <1>4, <1>5

\* A find gives the first entries whose names match, in the order of the walk, as many as
\* the limit allows, and leaves none out without saying that it is truncated, for every
\* walk and every limit (file.go: FileFindHandler).
THEOREM FindIsRight == ASSUME NEW q, NEW E, q.entries \in Seq(E) PROVE FindRight(q)
<1>1. PICK n : n = Len(q.entries) /\ n \in Nat
  OBVIOUS
<1>2. PICK a \in [0..n -> Finding] :
         /\ a[0] = [files |-> <<>>, truncated |-> FALSE] /\ FindAnswer(q) = a[n]
         /\ \A k \in 1..n : a[k] = FindStep(q, a[k - 1], k)
  BY <1>1, FindTrace
<1> DEFINE T == {k \in 0..n : ListedRight(a[k].files, a[k].truncated, k, FindDue(q, k))}
<1>3. 0 \in T
  <2>1. a[0].files = <<>> /\ ~a[0].truncated /\ FindDue(q, 0) = {} /\ <<>> \in Seq(1..0) /\ Range(<<>>) = {}
    BY <1>2 DEF FindDue, Range
  <2>2. ListedRight(a[0].files, a[0].truncated, 0, FindDue(q, 0))
    BY <2>1, FirstOfNone DEF ListedRight
  <2> QED
    BY <1>1, <2>2
<1>4. ASSUME NEW k \in 1..n, k - 1 \in T PROVE k \in T
  <2>1. PICK j : j = k - 1 /\ j \in Nat /\ k = j + 1 /\ a[j] \in Finding /\ a[k] \in Finding /\ k \in 0..n
    BY <1>1
  <2>2. a[j + 1] = FindStep(q, a[j], j + 1) /\ ListedRight(a[j].files, a[j].truncated, j, FindDue(q, j))
    BY <1>2, <1>4, <2>1
  <2>3. ListedRight(a[j + 1].files, a[j + 1].truncated, j + 1, FindDue(q, j + 1))
    BY <2>1, <2>2, FindStepRight
  <2> QED
    BY <2>1, <2>3
<1> HIDE DEF T
<1>5. \A k \in 0..n : k \in T
  BY <1>1, <1>3, <1>4, UpToInduction
<1>6. ListedRight(a[n].files, a[n].truncated, n, FindDue(q, n))
  BY <1>1, <1>5 DEF T
<1> QED
  BY <1>1, <1>2, <1>6 DEF FindRight, ListedRight, FindDue

-----------------------------------------------------------------------------
(* The lister.                                                             *)

Listed == [files : Seq(Nat), truncated : BOOLEAN, skip : Int]
Entry == [depth : Nat, dir : BOOLEAN, hidden : BOOLEAN]

\* A walk: what is deeper than the entry before it is inside that.
IsWalk(es) ==
    /\ es \in Seq(Entry)
    /\ \A n \in 2..Len(es) : es[n].depth <= es[n - 1].depth \/ es[n - 1].dir

LEMMA ListTrace ==
    ASSUME NEW q, q.entries \in Seq(Entry)
    PROVE  \E a \in [0..Len(q.entries) -> Listed] :
              /\ a[0] = [files |-> <<>>, truncated |-> FALSE, skip |-> Nowhere] /\ ListAnswer(q) = a[Len(q.entries)]
              /\ \A k \in 1..Len(q.entries) : a[k] = ListStep(q, a[k - 1], k)
<1> DEFINE n == Len(q.entries)
           d == [i \in DOMAIN q.entries |-> i]
           begin == [files |-> <<>>, truncated |-> FALSE, skip |-> Nowhere]
           Out(k, a) == ListStep(q, a, k)
           P(it) == it = [s \in SUBSET DOMAIN d |-> IF s = {} THEN begin ELSE
                            LET x == Max(s) IN Out(d[x], it[s \ {x}])]
           h == [w \in (1..n) \X Listed |-> Out(w[1], w[2])]
           Final == CHOOSE it : P(it)
<1>1. n \in Nat /\ DOMAIN d = 1..n /\ \A k \in 1..n : d[k] = k
  OBVIOUS
<1>2. ListAnswer(q) = Final[DOMAIN d]
  BY DEF ListAnswer, FoldLeftDomain, FoldLeft, MapThenFoldSet
<1> HIDE DEF d
<1>3. \A k \in 1..n, a \in Listed : Out(k, a) \in Listed
  <2> SUFFICES ASSUME NEW k \in 1..n, NEW a \in Listed PROVE ListStep(q, a, k) \in Listed
    OBVIOUS
  <2>1. q.entries[k] \in Entry
    OBVIOUS
  <2>2. q.entries[k].depth \in Int
    BY <2>1 DEF Entry
  <2>3. Nowhere \in Int
    BY DEF Nowhere
  <2>4. Append(a.files, k) \in Seq(Nat)
    BY DEF Listed
  <2>5. \A s \in Int : [a EXCEPT !.skip = s] \in Listed
    BY DEF Listed
  <2>6. \A b \in Listed : b.files = a.files =>
           [b EXCEPT !.truncated = TRUE] \in Listed /\ [b EXCEPT !.files = Append(b.files, k)] \in Listed
    BY <2>4 DEF Listed
  <2>7. [a EXCEPT !.skip = Nowhere] \in Listed /\ [a EXCEPT !.skip = Nowhere].files = a.files
    BY <2>3, <2>5 DEF Listed
  <2>8. \A s \in Int : [[a EXCEPT !.skip = Nowhere] EXCEPT !.skip = s] \in Listed
    BY <2>3 DEF Listed
  <2> QED
    BY <2>2, <2>3, <2>5, <2>6, <2>7, <2>8 DEF ListStep
<1>0. begin \in Listed
  BY DEF Listed, Nowhere
<1>4. h \in [(1..n) \X Listed -> Listed] /\ \A k \in 1..n, a \in Listed : h[<<k, a>>] = Out(k, a)
  BY <1>3
<1> HIDE DEF h, Out, n, begin
<1>5. PICK g \in [SUBSET (1..n) -> Listed] : FoldsTo(g, n, begin, h)
  BY <1>0, <1>1, <1>4, FoldExists
<1>6. P(g)
  <2>1. ASSUME NEW s \in SUBSET (1..n), s # {} PROVE g[s] = Out(d[Max(s)], g[s \ {Max(s)}])
    <3>1. Max(s) \in 1..n /\ s \ {Max(s)} \in SUBSET (1..n)
      BY <1>1, <2>1, MaxIs
    <3>2. g[s] = h[<<Max(s), g[s \ {Max(s)}]>>]
      BY <1>5, <2>1 DEF FoldsTo
    <3> QED
      BY <1>1, <1>4, <1>5, <3>1, <3>2
  <2>2. g[{}] = begin
    BY <1>5 DEF FoldsTo
  <2> QED
    BY <1>1, <1>5, <2>1, <2>2
<1>7. P(Final)
  BY <1>6
<1> HIDE DEF Final
<1>8. Final[{}] = begin
  BY <1>7
<1>9. ASSUME NEW s \in SUBSET (1..n), s # {}, Final[s \ {Max(s)}] \in Listed
      PROVE  Final[s] = h[<<Max(s), Final[s \ {Max(s)}]>>]
  <2>1. Max(s) \in 1..n
    BY <1>1, <1>9, MaxIs
  <2>2. Final[s] = Out(Max(s), Final[s \ {Max(s)}])
    BY <1>1, <1>7, <1>9, <2>1
  <2> QED
    BY <1>4, <1>9, <2>1, <2>2
<1>10. TraceOf(Final, n, Listed, begin, h)
  <2>1. StepsBy(Final, n, Listed, h)
    BY <1>9 DEF StepsBy
  <2> QED
    BY <1>0, <1>1, <1>4, <1>8, <2>1, FoldTrace
<1>11. PICK a \in [0..n -> Listed] : /\ a[0] = begin /\ Final[1..n] = a[n]
                                    /\ \A k \in 1..n : a[k] = h[<<k, a[k - 1]>>]
  BY <1>10 DEF TraceOf
<1>12. ASSUME NEW k \in 1..n PROVE a[k - 1] \in Listed /\ a[k] = Out(k, a[k - 1])
  <2>1. k - 1 \in 0..n
    BY <1>1
  <2>2. a[k - 1] \in Listed
    BY <1>11, <2>1
  <2>3. h[<<k, a[k - 1]>>] = Out(k, a[k - 1])
    BY <1>4, <2>2
  <2> QED
    BY <1>11, <2>2, <2>3
<1> QED
  BY <1>1, <1>2, <1>11, <1>12 DEF Out, n, begin

Blocked(q, e) == e.depth >= q.maxDepth \/ Hides(q, e)
Covers(es, m, k) == \A j \in (m + 1)..k : es[j].depth > es[m].depth
ListDue(q, k) ==
    {n \in 1..k : /\ ~Blocked(q, q.entries[n])
                  /\ \A m \in 1..Len(q.entries) : Within(q.entries, m, n) => ~Hides(q, q.entries[m])}

\* What is skipped is exactly what is inside a directory that is blocked.
SkipRight(q, skip, k) ==
    /\ \A m \in 1..k : Blocked(q, q.entries[m]) /\ q.entries[m].dir /\ Covers(q.entries, m, k) =>
          skip # Nowhere /\ skip <= q.entries[m].depth
    /\ skip # Nowhere =>
          \E m \in 1..k : /\ Blocked(q, q.entries[m]) /\ q.entries[m].depth = skip
                          /\ Covers(q.entries, m, k)

LEMMA WalkDepths ==
    ASSUME NEW es, IsWalk(es)
    PROVE  Len(es) \in Nat /\ \A j \in 1..Len(es) : es[j].depth \in Nat
<1>1. es \in Seq(Entry)
  BY DEF IsWalk
<1>2. \A j \in 1..Len(es) : es[j] \in Entry
  BY <1>1
<1> QED
  BY <1>1, <1>2 DEF Entry

\* One entry is inside what is skipped, ...
LEMMA SkippedStep ==
    ASSUME NEW q, IsWalk(q.entries), q.maxDepth \in Nat, NEW k \in Nat, k + 1 \in 1..Len(q.entries),
           NEW skip \in Int, SkipRight(q, skip, k), skip # Nowhere, q.entries[k + 1].depth > skip
    PROVE  SkipRight(q, skip, k + 1) /\ k + 1 \notin ListDue(q, k + 1)
<1>1. PICK es, n : es = q.entries /\ n = k + 1
  OBVIOUS
<1>2. n \in Nat /\ k \in Nat /\ n = k + 1 /\ n \in 1..Len(es) /\ \A j \in 1..Len(es) : es[j].depth \in Nat
  BY <1>1, WalkDepths
<1>3. PICK m \in 1..k : Blocked(q, es[m]) /\ es[m].depth = skip /\ Covers(es, m, k)
  BY <1>1 DEF SkipRight
<1>4. Covers(es, m, n) /\ Within(es, m, n) /\ m \in 1..n /\ m \in 1..Len(es)
  BY <1>1, <1>2, <1>3 DEF Covers, Within
<1>5. n \notin ListDue(q, n)
  <2>1. CASE Hides(q, es[m])
    BY <1>1, <1>4, <2>1 DEF ListDue
  <2>2. CASE es[m].depth >= q.maxDepth
    <3>1. es[n].depth >= q.maxDepth
      BY <1>1, <1>2, <1>3, <1>4, <2>2
    <3> QED
      BY <1>1, <3>1 DEF ListDue, Blocked
  <2> QED
    BY <1>3, <2>1, <2>2 DEF Blocked
<1>6. ASSUME NEW l \in 1..n, Blocked(q, es[l]), es[l].dir, Covers(es, l, n) PROVE skip <= es[l].depth
  <2>1. CASE l = n
    BY <1>1, <1>2, <2>1
  <2>2. CASE l # n
    <3>1. l \in 1..k /\ Covers(es, l, k)
      BY <1>2, <1>6, <2>2 DEF Covers
    <3> QED
      BY <1>1, <1>6, <3>1 DEF SkipRight
  <2> QED
    BY <2>1, <2>2
<1> QED
  BY <1>1, <1>3, <1>4, <1>5, <1>6 DEF SkipRight

\* ... or is not: then it is in nothing that is blocked.
LEMMA LookedAtStep ==
    ASSUME NEW q, IsWalk(q.entries), q.maxDepth \in Nat, NEW k \in Nat, k + 1 \in 1..Len(q.entries),
           NEW skip \in Int, SkipRight(q, skip, k), ~(skip # Nowhere /\ q.entries[k + 1].depth > skip),
           NEW next, next = IF Blocked(q, q.entries[k + 1]) /\ q.entries[k + 1].dir THEN q.entries[k + 1].depth ELSE Nowhere
    PROVE  SkipRight(q, next, k + 1) /\ (k + 1 \in ListDue(q, k + 1) <=> ~Blocked(q, q.entries[k + 1]))
<1>1. PICK es, n : es = q.entries /\ n = k + 1
  OBVIOUS
<1>2. n \in Nat /\ k \in Nat /\ n = k + 1 /\ n \in 1..Len(es) /\ Len(es) \in Nat /\ \A j \in 1..Len(es) : es[j].depth \in Nat
  BY SMTT(30), <1>1, WalkDepths
<1>3. ASSUME NEW m \in 1..k, Blocked(q, es[m]), es[m].dir, Covers(es, m, n) PROVE FALSE
  <2>1. Covers(es, m, k) /\ es[n].depth > es[m].depth
    BY <1>2, <1>3 DEF Covers
  <2>2. skip # Nowhere /\ skip <= es[m].depth
    BY <1>1, <1>3, <2>1 DEF SkipRight
  <2>3. m \in 1..Len(es) /\ es[m].depth \in Nat /\ es[n].depth \in Nat
    BY <1>2
  <2> QED
    BY SMTT(30), <1>1, <2>1, <2>2, <2>3
<1>4. ASSUME NEW m \in 1..Len(es), Within(es, m, n), Hides(q, es[m]) PROVE FALSE
  <2>1. m \in 1..k /\ Covers(es, m, n) /\ m + 1 \in 2..Len(es) /\ m + 1 \in (m + 1)..n
    BY SMTT(30), <1>2, <1>4 DEF Within, Covers
  <2>2. es[m + 1].depth > es[m].depth /\ (m + 1) - 1 = m
    BY SMTT(30), <2>1 DEF Covers
  <2>3. es[m + 1].depth <= es[m].depth \/ es[m].dir
    BY <1>1, <2>1, <2>2 DEF IsWalk
  <2>4. es[m].dir
    BY <1>2, <2>1, <2>2, <2>3
  <2> QED
    BY <1>3, <1>4, <2>1, <2>4 DEF Blocked
<1>5. n \in ListDue(q, n) <=> ~Blocked(q, es[n])
  BY <1>1, <1>2, <1>4 DEF ListDue
<1>6. ASSUME NEW m \in 1..n, Blocked(q, es[m]), es[m].dir, Covers(es, m, n) PROVE next # Nowhere /\ next <= es[m].depth
  <2>1. m = n
    BY <1>2, <1>3, <1>6
  <2>2. next = es[n].depth /\ es[n].depth \in Nat
    BY <1>1, <1>2, <1>6, <2>1
  <2> QED
    BY <2>1, <2>2 DEF Nowhere
<1>7. next # Nowhere => \E m \in 1..n : Blocked(q, es[m]) /\ es[m].depth = next /\ Covers(es, m, n)
  <2>1. Covers(es, n, n)
    BY <1>2 DEF Covers
  <2> QED
    BY <1>1, <1>2, <2>1
<1> QED
  BY <1>1, <1>5, <1>6, <1>7 DEF SkipRight

ListRightAt(q, a, k) ==
    /\ ListedRight(a.files, a.truncated, k, ListDue(q, k))
    /\ IF a.truncated THEN Range(a.files) # ListDue(q, k) ELSE SkipRight(q, a.skip, k)

LEMMA ListStepRight ==
    ASSUME NEW q, IsWalk(q.entries), q.maxDepth \in Nat, NEW k \in Nat, k + 1 \in 1..Len(q.entries),
           NEW a \in Listed, ListRightAt(q, a, k), NEW b \in Listed, b = ListStep(q, a, k + 1)
    PROVE  ListRightAt(q, b, k + 1)
<1>1. PICK f, D, E, e : f = a.files /\ D = ListDue(q, k) /\ E = ListDue(q, k + 1) /\ e = q.entries[k + 1]
  OBVIOUS
<1>2. /\ f \in Seq(1..k) /\ D \in SUBSET (1..k) /\ IsFirstOf(f, D) /\ f \in Seq(1..(k + 1)) /\ E \in SUBSET (1..(k + 1))
      /\ E \cap 1..k = D
  <2>1. f \in Seq(1..k) /\ D \in SUBSET (1..k) /\ IsFirstOf(f, D)
    BY <1>1 DEF ListRightAt, ListedRight
  <2>2. E \in SUBSET (1..(k + 1)) /\ E \cap 1..k = D
    BY <1>1 DEF ListDue
  <2> QED
    BY <2>1, <2>2, SeqOfMore
<1>3. (k + 1 \in E => E = D \cup {k + 1}) /\ (k + 1 \notin E => E = D)
  <2>1. 1..(k + 1) = (1..k) \cup {k + 1}
    OBVIOUS
  <2> QED
    BY <1>2, <2>1
<1>4. Len(f) \in Nat /\ ListCap \in Nat /\ Range(f) \subseteq 1..k
  BY <1>2, AnswerConstants DEF Range
<1>5. CASE a.truncated
  <2>1. b = a /\ Len(f) = ListCap /\ Range(f) # D
    BY <1>1, <1>5 DEF ListStep, ListRightAt, ListedRight
  <2>2. IsFirstOf(f, E) /\ Range(f) # E
    BY <1>2, <1>3, <1>4, <2>1, FirstStays
  <2> QED
    BY <1>1, <1>2, <1>5, <2>1, <2>2 DEF ListRightAt, ListedRight
<1>6. CASE ~a.truncated /\ a.skip # Nowhere /\ e.depth > a.skip
  <2>1. b = a /\ SkipRight(q, a.skip, k) /\ Range(f) = D
    BY <1>1, <1>6 DEF ListStep, ListRightAt, ListedRight
  <2>2. SkipRight(q, a.skip, k + 1) /\ k + 1 \notin E
    BY <1>1, <1>6, <2>1, SkippedStep DEF Listed
  <2> QED
    BY <1>1, <1>2, <1>3, <1>6, <2>1, <2>2 DEF ListRightAt, ListedRight
<1>7. CASE ~a.truncated /\ ~(a.skip # Nowhere /\ e.depth > a.skip)
  <2>0. SkipRight(q, a.skip, k) /\ Range(f) = D /\ a.skip \in Int
    BY <1>1, <1>7 DEF ListRightAt, ListedRight, Listed
  <2>1. PICK next : next = IF Blocked(q, e) /\ e.dir THEN e.depth ELSE Nowhere
    OBVIOUS
  <2>2. SkipRight(q, next, k + 1) /\ (k + 1 \in E <=> ~Blocked(q, e))
    BY <1>1, <1>7, <2>0, <2>1, LookedAtStep
  <2>3. CASE Blocked(q, e)
    <3>1. b.files = f /\ ~b.truncated /\ b.skip = next
      BY <1>1, <1>7, <2>1, <2>3 DEF ListStep, Blocked, Listed
    <3> QED
      BY <1>1, <1>2, <1>3, <2>0, <2>2, <2>3, <3>1 DEF ListRightAt, ListedRight
  <2>4. CASE ~Blocked(q, e) /\ Len(f) >= ListCap
    <3>1. b.files = f /\ b.truncated
      BY <1>1, <1>7, <2>4 DEF ListStep, Blocked, Listed
    <3>2. Len(f) = ListCap
      BY <1>2, <1>4, <2>4 DEF IsFirstOf
    <3>3. IsFirstOf(f, E) /\ Range(f) # E
      BY <1>2, <1>3, <2>2, <2>4, <3>2, FirstStays
    <3> QED
      BY <1>1, <1>2, <3>1, <3>2, <3>3 DEF ListRightAt, ListedRight
  <2>5. CASE ~Blocked(q, e) /\ ~(Len(f) >= ListCap)
    <3>0. PICK c : c = [a EXCEPT !.skip = Nowhere] /\ c \in Listed /\ c.files = f /\ ~c.truncated /\ c.skip = Nowhere
      <4>1. PICK c : c = [a EXCEPT !.skip = Nowhere]
        OBVIOUS
      <4>2. Nowhere \in Int
        BY DEF Nowhere
      <4>3. c \in Listed /\ c.skip = Nowhere
        BY <4>1, <4>2 DEF Listed
      <4>4. c.files = f /\ c.truncated = a.truncated
        BY <1>1, <4>1 DEF Listed
      <4> QED
        BY <1>7, <4>1, <4>3, <4>4
    <3>1. b.files = Append(f, k + 1) /\ ~b.truncated /\ b.skip = next
      <4>1. b = [c EXCEPT !.files = Append(c.files, k + 1)]
        BY <1>1, <1>7, <2>5, <3>0 DEF ListStep, Blocked
      <4>2. next = Nowhere
        BY <2>1, <2>5
      <4> QED
        BY <3>0, <4>1, <4>2 DEF Listed
    <3>2. IsFirstOf(Append(f, k + 1), E) /\ Range(Append(f, k + 1)) = E /\ Append(f, k + 1) \in Seq(1..(k + 1))
      <4>1. E = D \cup {k + 1} /\ Len(f) < ListCap
        BY <1>3, <1>4, <2>2, <2>5
      <4> QED
        BY <1>2, <2>0, <4>1, FirstGrows
    <3> QED
      BY <1>1, <1>2, <2>2, <3>1, <3>2 DEF ListRightAt, ListedRight
  <2> QED
    BY <2>3, <2>4, <2>5
<1> QED
  BY <1>1, <1>5, <1>6, <1>7

\* A listing is the first entries that are neither too deep nor hidden nor inside something
\* hidden, and is truncated exactly when there are more of them than the limit, for every
\* walk, depth and limit (file.go: FileListHandler).
THEOREM ListIsRight == ASSUME NEW q, IsWalk(q.entries), q.maxDepth \in Nat PROVE ListRight(q)
<1>1. PICK n : n = Len(q.entries) /\ n \in Nat /\ q.entries \in Seq(Entry)
  BY DEF IsWalk
<1>2. PICK a \in [0..n -> Listed] :
         /\ a[0] = [files |-> <<>>, truncated |-> FALSE, skip |-> Nowhere] /\ ListAnswer(q) = a[n]
         /\ \A k \in 1..n : a[k] = ListStep(q, a[k - 1], k)
  BY <1>1, ListTrace
<1> DEFINE T == {k \in 0..n : ListRightAt(q, a[k], k)}
<1>3. 0 \in T
  <2>1. /\ a[0].files = <<>> /\ ~a[0].truncated /\ a[0].skip = Nowhere
        /\ ListDue(q, 0) = {} /\ <<>> \in Seq(1..0) /\ Range(<<>>) = {}
    BY <1>2 DEF ListDue, Range
  <2>2. SkipRight(q, Nowhere, 0)
    BY DEF SkipRight
  <2>3. ListedRight(a[0].files, a[0].truncated, 0, ListDue(q, 0))
    BY <2>1, FirstOfNone DEF ListedRight
  <2>4. ListRightAt(q, a[0], 0)
    BY <2>1, <2>2, <2>3 DEF ListRightAt
  <2> QED
    BY <1>1, <2>4
<1>4. ASSUME NEW k \in 1..n, k - 1 \in T PROVE k \in T
  <2>1. PICK j : j = k - 1 /\ j \in Nat /\ k = j + 1 /\ a[j] \in Listed /\ a[k] \in Listed /\ k \in 0..n
    BY <1>1
  <2>2. a[j + 1] = ListStep(q, a[j], j + 1) /\ ListRightAt(q, a[j], j)
    BY <1>2, <1>4, <2>1
  <2>3. ListRightAt(q, a[j + 1], j + 1)
    BY <1>1, <2>1, <2>2, ListStepRight
  <2> QED
    BY <2>1, <2>3
<1> HIDE DEF T
<1>5. \A k \in 0..n : k \in T
  BY <1>1, <1>3, <1>4, UpToInduction
<1>6. ListRightAt(q, a[n], n)
  BY <1>1, <1>5 DEF T
<1>7. ListDue(q, n) = {k \in 1..n : /\ q.entries[k].depth < q.maxDepth /\ ~Hides(q, q.entries[k])
                                    /\ \A m \in 1..n : Within(q.entries, m, k) => ~Hides(q, q.entries[m])}
  <2>1. \A k \in 1..n : q.entries[k].depth \in Nat
    BY <1>1, WalkDepths
  <2> QED
    BY <1>1, <2>1 DEF ListDue, Blocked
<1>8. IsFirstOf(ListAnswer(q).files, ListDue(q, n)) /\ (ListAnswer(q).truncated <=> Range(ListAnswer(q).files) # ListDue(q, n))
  BY <1>2, <1>6 DEF ListRightAt, ListedRight
<1> QED
  BY <1>1, <1>7, <1>8 DEF ListRight

-----------------------------------------------------------------------------
(* The reader.                                                             *)

Page == [first : Nat, last : Nat, bytes : Nat, truncated : BOOLEAN, total : Nat]

LEMMA ReadTrace ==
    ASSUME NEW q, q.lines \in Seq(Nat)
    PROVE  \E a \in [0..Len(q.lines) -> Page] :
              /\ a[0] = [first |-> 0, last |-> 0, bytes |-> 0, truncated |-> FALSE, total |-> TotalLines(q)] /\ ReadAnswer(q) = a[Len(q.lines)]
              /\ \A k \in 1..Len(q.lines) : a[k] = EmitLine(q, a[k - 1], k)
<1> DEFINE n == Len(q.lines)
           d == [i \in DOMAIN q.lines |-> i]
           begin == [first |-> 0, last |-> 0, bytes |-> 0, truncated |-> FALSE, total |-> TotalLines(q)]
           Out(k, a) == EmitLine(q, a, k)
           P(it) == it = [s \in SUBSET DOMAIN d |-> IF s = {} THEN begin ELSE
                            LET x == Max(s) IN Out(d[x], it[s \ {x}])]
           h == [w \in (1..n) \X Page |-> Out(w[1], w[2])]
           Final == CHOOSE it : P(it)
<1>1. n \in Nat /\ DOMAIN d = 1..n /\ \A k \in 1..n : d[k] = k
  OBVIOUS
<1>2. ReadAnswer(q) = Final[DOMAIN d]
  BY DEF ReadAnswer, FoldLeftDomain, FoldLeft, MapThenFoldSet
<1> HIDE DEF d
<1>3. \A k \in 1..n, a \in Page : Out(k, a) \in Page
  <2> SUFFICES ASSUME NEW k \in 1..n, NEW a \in Page PROVE EmitLine(q, a, k) \in Page
    OBVIOUS
  <2>1. q.lines[k] \in Nat /\ k \in Nat
    OBVIOUS
  <2>2. [a EXCEPT !.truncated = TRUE] \in Page
    BY DEF Page
  <2>3. [a EXCEPT !.first = IF @ = 0 THEN k ELSE @, !.last = k, !.bytes = @ + q.lines[k]] \in Page
    <3>1. PICK f : f = IF a.first = 0 THEN k ELSE a.first
      OBVIOUS
    <3>2. f \in Nat /\ a.bytes + q.lines[k] \in Nat
      BY SMTT(30), <2>1, <3>1 DEF Page
    <3>3. [a EXCEPT !.first = f, !.last = k, !.bytes = a.bytes + q.lines[k]] \in Page
      BY <2>1, <3>2 DEF Page
    <3> QED
      BY <3>1, <3>3
  <2> QED
    BY <2>2, <2>3 DEF EmitLine
<1>0. begin \in Page
  BY DEF Page, TotalLines
<1>4. h \in [(1..n) \X Page -> Page] /\ \A k \in 1..n, a \in Page : h[<<k, a>>] = Out(k, a)
  BY <1>3
<1> HIDE DEF h, Out, n, begin
<1>5. PICK g \in [SUBSET (1..n) -> Page] : FoldsTo(g, n, begin, h)
  BY <1>0, <1>1, <1>4, FoldExists
<1>6. P(g)
  <2>1. ASSUME NEW s \in SUBSET (1..n), s # {} PROVE g[s] = Out(d[Max(s)], g[s \ {Max(s)}])
    <3>1. Max(s) \in 1..n /\ s \ {Max(s)} \in SUBSET (1..n)
      BY <1>1, <2>1, MaxIs
    <3>2. g[s] = h[<<Max(s), g[s \ {Max(s)}]>>]
      BY <1>5, <2>1 DEF FoldsTo
    <3> QED
      BY <1>1, <1>4, <1>5, <3>1, <3>2
  <2>2. g[{}] = begin
    BY <1>5 DEF FoldsTo
  <2> QED
    BY <1>1, <1>5, <2>1, <2>2
<1>7. P(Final)
  BY <1>6
<1> HIDE DEF Final
<1>8. Final[{}] = begin
  BY <1>7
<1>9. ASSUME NEW s \in SUBSET (1..n), s # {}, Final[s \ {Max(s)}] \in Page
      PROVE  Final[s] = h[<<Max(s), Final[s \ {Max(s)}]>>]
  <2>1. Max(s) \in 1..n
    BY <1>1, <1>9, MaxIs
  <2>2. Final[s] = Out(Max(s), Final[s \ {Max(s)}])
    BY <1>1, <1>7, <1>9, <2>1
  <2> QED
    BY <1>4, <1>9, <2>1, <2>2
<1>10. TraceOf(Final, n, Page, begin, h)
  <2>1. StepsBy(Final, n, Page, h)
    BY <1>9 DEF StepsBy
  <2> QED
    BY <1>0, <1>1, <1>4, <1>8, <2>1, FoldTrace
<1>11. PICK a \in [0..n -> Page] : /\ a[0] = begin /\ Final[1..n] = a[n]
                                    /\ \A k \in 1..n : a[k] = h[<<k, a[k - 1]>>]
  BY <1>10 DEF TraceOf
<1>12. ASSUME NEW k \in 1..n PROVE a[k - 1] \in Page /\ a[k] = Out(k, a[k - 1])
  <2>1. k - 1 \in 0..n
    BY <1>1
  <2>2. a[k - 1] \in Page
    BY <1>11, <2>1
  <2>3. h[<<k, a[k - 1]>>] = Out(k, a[k - 1])
    BY <1>4, <2>2
  <2> QED
    BY <1>11, <2>2, <2>3
<1> QED
  BY <1>1, <1>2, <1>11, <1>12 DEF Out, n, begin

LEMMA SizeTrace ==
    ASSUME NEW ls \in Seq(Nat), NEW from, NEW to
    PROVE  \E a \in [0..Len(ls) -> Nat] :
              /\ a[0] = 0 /\ Size(ls, from, to) = a[Len(ls)]
              /\ \A k \in 1..Len(ls) : a[k] = IF k \in from..to THEN a[k - 1] + ls[k] ELSE a[k - 1]
<1> DEFINE n == Len(ls)
           d == [i \in DOMAIN ls |-> i]
           begin == 0
           Out(k, a) == IF k \in from..to THEN a + ls[k] ELSE a
           P(it) == it = [s \in SUBSET DOMAIN d |-> IF s = {} THEN begin ELSE
                            LET x == Max(s) IN Out(d[x], it[s \ {x}])]
           h == [w \in (1..n) \X Nat |-> Out(w[1], w[2])]
           Final == CHOOSE it : P(it)
<1>1. n \in Nat /\ DOMAIN d = 1..n /\ \A k \in 1..n : d[k] = k
  OBVIOUS
<1>2. Size(ls, from, to) = Final[DOMAIN d]
  BY DEF Size, FoldLeftDomain, FoldLeft, MapThenFoldSet
<1> HIDE DEF d
<1>3. \A k \in 1..n, a \in Nat : Out(k, a) \in Nat
  OBVIOUS
<1>0. begin \in Nat
  OBVIOUS
<1>4. h \in [(1..n) \X Nat -> Nat] /\ \A k \in 1..n, a \in Nat : h[<<k, a>>] = Out(k, a)
  BY <1>3
<1> HIDE DEF h, Out, n, begin
<1>5. PICK g \in [SUBSET (1..n) -> Nat] : FoldsTo(g, n, begin, h)
  BY <1>0, <1>1, <1>4, FoldExists
<1>6. P(g)
  <2>1. ASSUME NEW s \in SUBSET (1..n), s # {} PROVE g[s] = Out(d[Max(s)], g[s \ {Max(s)}])
    <3>1. Max(s) \in 1..n /\ s \ {Max(s)} \in SUBSET (1..n)
      BY <1>1, <2>1, MaxIs
    <3>2. g[s] = h[<<Max(s), g[s \ {Max(s)}]>>]
      BY <1>5, <2>1 DEF FoldsTo
    <3> QED
      BY <1>1, <1>4, <1>5, <3>1, <3>2
  <2>2. g[{}] = begin
    BY <1>5 DEF FoldsTo
  <2> QED
    BY <1>1, <1>5, <2>1, <2>2
<1>7. P(Final)
  BY <1>6
<1> HIDE DEF Final
<1>8. Final[{}] = begin
  BY <1>7
<1>9. ASSUME NEW s \in SUBSET (1..n), s # {}, Final[s \ {Max(s)}] \in Nat
      PROVE  Final[s] = h[<<Max(s), Final[s \ {Max(s)}]>>]
  <2>1. Max(s) \in 1..n
    BY <1>1, <1>9, MaxIs
  <2>2. Final[s] = Out(Max(s), Final[s \ {Max(s)}])
    BY <1>1, <1>7, <1>9, <2>1
  <2> QED
    BY <1>4, <1>9, <2>1, <2>2
<1>10. TraceOf(Final, n, Nat, begin, h)
  <2>1. StepsBy(Final, n, Nat, h)
    BY <1>9 DEF StepsBy
  <2> QED
    BY <1>0, <1>1, <1>4, <1>8, <2>1, FoldTrace
<1>11. PICK a \in [0..n -> Nat] : /\ a[0] = begin /\ Final[1..n] = a[n]
                                    /\ \A k \in 1..n : a[k] = h[<<k, a[k - 1]>>]
  BY <1>10 DEF TraceOf
<1>12. ASSUME NEW k \in 1..n PROVE a[k - 1] \in Nat /\ a[k] = Out(k, a[k - 1])
  <2>1. k - 1 \in 0..n
    BY <1>1
  <2>2. a[k - 1] \in Nat
    BY <1>11, <2>1
  <2>3. h[<<k, a[k - 1]>>] = Out(k, a[k - 1])
    BY <1>4, <2>2
  <2> QED
    BY <1>11, <2>2, <2>3
<1> QED
  BY <1>1, <1>2, <1>11, <1>12 DEF Out, n, begin

LEMMA SizeOfNone ==
    ASSUME NEW ls \in Seq(Nat), NEW i \in Int, NEW j \in Int, j < i
    PROVE  Size(ls, i, j) = 0
<1>1. PICK n : n = Len(ls) /\ n \in Nat
  OBVIOUS
<1>2. PICK a \in [0..n -> Nat] : /\ a[0] = 0 /\ Size(ls, i, j) = a[n]
                                 /\ \A k \in 1..n : a[k] = IF k \in i..j THEN a[k - 1] + ls[k] ELSE a[k - 1]
  <2>1. \E a \in [0..Len(ls) -> Nat] :
           /\ a[0] = 0 /\ Size(ls, i, j) = a[Len(ls)]
           /\ \A k \in 1..Len(ls) : a[k] = IF k \in i..j THEN a[k - 1] + ls[k] ELSE a[k - 1]
    BY ZenonT(40), SizeTrace
  <2> QED
    BY <1>1, <2>1
<1> DEFINE T == {k \in 0..n : a[k] = 0}
<1>3. 0 \in T
  BY <1>1, <1>2
<1>4. ASSUME NEW k \in 1..n, k - 1 \in T PROVE k \in T
  <2>1. k \notin i..j /\ k \in 0..n /\ a[k - 1] = 0
    BY <1>1, <1>4
  <2> QED
    BY <1>2, <2>1
<1> HIDE DEF T
<1>5. \A k \in 0..n : k \in T
  BY <1>1, <1>3, <1>4, UpToInduction
<1>6. a[n] = 0
  BY <1>1, <1>5 DEF T
<1> QED
  BY <1>2, <1>6

LEMMA SizeOfMore ==
    ASSUME NEW ls \in Seq(Nat), NEW i \in Nat \ {0}, NEW j \in i..Len(ls)
    PROVE  Size(ls, i, j) = Size(ls, i, j - 1) + ls[j] /\ Size(ls, i, j - 1) \in Nat
<1>1. PICK n : n = Len(ls) /\ n \in Nat
  OBVIOUS
<1>2. PICK a \in [0..n -> Nat] : /\ a[0] = 0 /\ Size(ls, i, j) = a[n]
                                 /\ \A k \in 1..n : a[k] = IF k \in i..j THEN a[k - 1] + ls[k] ELSE a[k - 1]
  <2>1. \E a \in [0..Len(ls) -> Nat] :
           /\ a[0] = 0 /\ Size(ls, i, j) = a[Len(ls)]
           /\ \A k \in 1..Len(ls) : a[k] = IF k \in i..j THEN a[k - 1] + ls[k] ELSE a[k - 1]
    BY ZenonT(40), SizeTrace
  <2> QED
    BY <1>1, <2>1
<1>3. PICK b \in [0..n -> Nat] : /\ b[0] = 0 /\ Size(ls, i, j - 1) = b[n]
                                 /\ \A k \in 1..n : b[k] = IF k \in i..(j - 1) THEN b[k - 1] + ls[k] ELSE b[k - 1]
  BY <1>1, SizeTrace
<1>4. j \in 1..n /\ i <= j /\ \A k \in 1..n : ls[k] \in Nat
  BY <1>1
<1> DEFINE T == {k \in 0..n : a[k] = IF k < j THEN b[k] ELSE b[k] + ls[j]}
<1>5. 0 \in T
  BY <1>1, <1>2, <1>3, <1>4
<1>6. ASSUME NEW k \in 1..n, k - 1 \in T PROVE k \in T
  <2>1. /\ k \in 0..n /\ k - 1 \in 0..n /\ a[k - 1] = IF k - 1 < j THEN b[k - 1] ELSE b[k - 1] + ls[j]
        /\ a[k - 1] \in Nat /\ b[k - 1] \in Nat /\ a[k] \in Nat /\ b[k] \in Nat /\ ls[k] \in Nat /\ ls[j] \in Nat
    <3>1. k \in 0..n /\ k - 1 \in 0..n
      BY <1>1
    <3>2. a[k - 1] \in Nat /\ b[k - 1] \in Nat /\ a[k] \in Nat /\ b[k] \in Nat
      BY <1>2, <1>3, <3>1
    <3> QED
      BY <1>4, <1>6, <3>1, <3>2
  <2>2. CASE k < j
    BY SMTT(30), <1>2, <1>3, <1>4, <2>1, <2>2
  <2>3. CASE k = j
    BY <1>2, <1>3, <1>4, <2>1, <2>3
  <2>4. CASE k > j
    BY <1>2, <1>3, <1>4, <2>1, <2>4
  <2> QED
    BY <1>4, <2>2, <2>3, <2>4
<1> HIDE DEF T
<1>7. \A k \in 0..n : k \in T
  BY <1>1, <1>5, <1>6, UpToInduction
<1>8. a[n] = b[n] + ls[j]
  BY <1>1, <1>4, <1>7 DEF T
<1> QED
  BY SMTT(30), <1>1, <1>2, <1>3, <1>8

\* The last line a page of the first k lines may have.
PageEnd(q, k) == IF q.end = 0 THEN k ELSE MinOf(q.end, k)
IsPage(q, r, k) ==
    /\ r.total = Len(q.lines)
    /\ IF q.start > PageEnd(q, k) THEN r.first = 0 /\ r.last = 0 /\ r.bytes = 0 /\ ~r.truncated
       ELSE /\ r.first = q.start /\ r.last \in q.start..PageEnd(q, k)
            /\ r.truncated <=> r.last < PageEnd(q, k)
            /\ r.truncated => r.bytes >= ReadCap
            /\ r.bytes = Size(q.lines, q.start, r.last) /\ Size(q.lines, q.start, r.last - 1) < ReadCap

LEMMA ReadStepRight ==
    ASSUME NEW q, q.lines \in Seq(Nat), q.start \in Nat \ {0}, q.end \in Nat, NEW k \in Nat, k + 1 \in 1..Len(q.lines),
           NEW r \in Page, IsPage(q, r, k), NEW s \in Page, s = EmitLine(q, r, k + 1)
    PROVE  IsPage(q, s, k + 1)
<1>1. PICK n, m, c : n = k + 1 /\ m = q.start /\ c = PageEnd(q, k) /\ n \in Nat /\ m \in Nat \ {0} /\ c \in Nat
  BY DEF PageEnd, MinOf
<1>2. ReadCap \in Nat \ {0} /\ q.lines[n] \in Nat
  BY SMTT(30), <1>1, AnswerConstants
<1>3. CASE n < m \/ (q.end # 0 /\ n > q.end)
  <2>1. s = r
    BY <1>1, <1>3 DEF EmitLine
  <2>2. PageEnd(q, n) = c \/ (n < m /\ c < m /\ PageEnd(q, n) < m)
    BY <1>1, <1>3 DEF PageEnd, MinOf
  <2> QED
    BY <1>1, <2>1, <2>2 DEF IsPage
<1>4. CASE ~(n < m \/ (q.end # 0 /\ n > q.end))
  <2>1. PageEnd(q, n) = n /\ c = k /\ m <= n
    BY <1>1, <1>4 DEF PageEnd, MinOf
  <2>2. CASE r.bytes >= ReadCap
    <3>1. m <= k
      BY <1>1, <1>2, <2>1, <2>2 DEF IsPage
    <3>2. s.truncated /\ s.first = r.first /\ s.last = r.last /\ s.bytes = r.bytes /\ s.total = r.total
      BY <1>1, <1>4, <2>2 DEF EmitLine, Page
    <3>3. r.last \in m..n /\ r.last < n
      BY <1>1, <2>1, <3>1 DEF IsPage
    <3> QED
      BY <1>1, <2>1, <2>2, <3>1, <3>2, <3>3 DEF IsPage
  <2>3. CASE ~(r.bytes >= ReadCap)
    <3>1. /\ s.first = (IF r.first = 0 THEN n ELSE r.first) /\ s.last = n /\ s.bytes = r.bytes + q.lines[n]
          /\ s.truncated = r.truncated /\ s.total = r.total
      BY <1>1, <1>4, <2>3 DEF EmitLine, Page
    <3>2. ~r.truncated /\ s.first = m /\ r.bytes = Size(q.lines, m, n - 1)
      <4>1. CASE m > k
        <5>1. m = n /\ r.first = 0 /\ r.bytes = 0 /\ ~r.truncated
          BY <1>1, <2>1, <4>1 DEF IsPage
        <5>2. Size(q.lines, m, n - 1) = 0
          BY <1>1, <5>1, SizeOfNone
        <5> QED
          BY <3>1, <5>1, <5>2
      <4>2. CASE ~(m > k)
        <5>1. /\ r.first = m /\ r.last \in m..k /\ (r.truncated <=> r.last < k) /\ (r.truncated => r.bytes >= ReadCap)
              /\ r.bytes = Size(q.lines, m, r.last)
          BY <1>1, <2>1, <4>2 DEF IsPage
        <5>2. ~r.truncated /\ r.last = k /\ n - 1 = k
          BY <1>1, <2>3, <4>2, <5>1
        <5> QED
          BY <1>1, <3>1, <5>1, <5>2
      <4> QED
        BY <4>1, <4>2
    <3>3. Size(q.lines, m, n) = Size(q.lines, m, n - 1) + q.lines[n]
      <4>1. n \in m..Len(q.lines)
        BY <1>1, <2>1
      <4> QED
        BY <1>1, <4>1, SizeOfMore
    <3>4. r.bytes < ReadCap
      BY <1>2, <2>3 DEF Page
    <3> QED
      BY <1>1, <2>1, <3>1, <3>2, <3>3, <3>4 DEF IsPage
  <2> QED
    BY <2>2, <2>3
<1> QED
  BY <1>3, <1>4

\* A page starts where it was asked to, is cut only at the limit, says so exactly then, goes
\* over it by less than a line and knows the file's length, for every file, range and limit
\* (file.go: FileReadHandler).
THEOREM ReadIsRight ==
    ASSUME NEW q, q.lines \in Seq(Nat), q.start \in Nat \ {0}, q.end \in Nat
    PROVE  ReadRight(q)
<1>1. PICK n : n = Len(q.lines) /\ n \in Nat
  OBVIOUS
<1>2. PICK a \in [0..n -> Page] :
         /\ a[0] = [first |-> 0, last |-> 0, bytes |-> 0, truncated |-> FALSE, total |-> TotalLines(q)]
         /\ ReadAnswer(q) = a[n]
         /\ \A k \in 1..n : a[k] = EmitLine(q, a[k - 1], k)
  BY <1>1, ReadTrace
<1> DEFINE T == {k \in 0..n : IsPage(q, a[k], k)}
<1>3. 0 \in T
  <2>1. a[0].first = 0 /\ a[0].last = 0 /\ a[0].bytes = 0 /\ ~a[0].truncated /\ a[0].total = Len(q.lines)
    BY <1>2 DEF TotalLines
  <2>2. q.start > PageEnd(q, 0)
    BY DEF PageEnd, MinOf
  <2> QED
    BY <1>1, <2>1, <2>2 DEF IsPage
<1>4. ASSUME NEW k \in 1..n, k - 1 \in T PROVE k \in T
  <2>1. PICK j : j = k - 1 /\ j \in Nat /\ k = j + 1 /\ a[j] \in Page /\ a[k] \in Page /\ k \in 0..n
    BY <1>1
  <2>2. a[j + 1] = EmitLine(q, a[j], j + 1) /\ IsPage(q, a[j], j)
    BY <1>2, <1>4, <2>1
  <2>3. IsPage(q, a[j + 1], j + 1)
    BY <1>1, <2>1, <2>2, ReadStepRight
  <2> QED
    BY <2>1, <2>3
<1> HIDE DEF T
<1>5. \A k \in 0..n : k \in T
  BY <1>1, <1>3, <1>4, UpToInduction
<1>6. IsPage(q, a[n], n)
  BY <1>1, <1>5 DEF T
<1>7. (IF q.end = 0 THEN Len(q.lines) ELSE MinOf(q.end, Len(q.lines))) = PageEnd(q, n)
  BY <1>1 DEF PageEnd
<1> QED
  BY <1>1, <1>2, <1>6, <1>7 DEF ReadRight, IsPage

-----------------------------------------------------------------------------
(* The searcher.                                                           *)

SearchedFile == [binary : BOOLEAN, protected : BOOLEAN, lines : Seq(BOOLEAN)]
Given(q) == {a \in [matches : Seq(Nat \X Nat), total : Nat, truncated : BOOLEAN] : Len(a.matches) <= q.max}

LinesAt(file, m) == {k \in 1..m : file.lines[k]}
PlacesIn(n, file, m) == {<<n, k>> : k \in LinesAt(file, m)}

\* f: the lines of the first m that match, in their order.
LinesGiven(f, n, file, m) ==
    /\ f \in Seq(1..m) /\ \A i, j \in 1..Len(f) : i < j => f[i] < f[j]
    /\ \A k \in LinesAt(file, m) : \E i \in 1..Len(f) : f[i] = k
    /\ \A i \in 1..Len(f) : f[i] \in LinesAt(file, m)
    /\ IsFiniteSet(PlacesIn(n, file, m)) /\ Cardinality(PlacesIn(n, file, m)) = Len(f)

LEMMA LookedLines ==
    ASSUME NEW q, NEW file \in SearchedFile
    PROVE  /\ Looked(q, file) \in Seq(BOOLEAN) /\ Len(Looked(q, file)) \in 0..Len(file.lines)
           /\ ~q.context => Looked(q, file) = file.lines
<1>1. file.lines \in Seq(BOOLEAN) /\ Len(file.lines) \in Nat
  BY DEF SearchedFile
<1>2. PICK m : m = MinOf(Len(file.lines), ReadCap) /\ m \in 0..Len(file.lines)
  BY <1>1, AnswerConstants DEF MinOf
<1>3. SubSeq(file.lines, 1, m) \in Seq(BOOLEAN) /\ Len(SubSeq(file.lines, 1, m)) = m
  <2>1. m \in Int /\ \A i \in 1..m : file.lines[i] \in BOOLEAN
    BY <1>1, <1>2
  <2>2. SubSeq(file.lines, 1, m) \in Seq(BOOLEAN) /\ Len(SubSeq(file.lines, 1, m)) = IF 1 <= m THEN m - 1 + 1 ELSE 0
    BY <2>1, SubSeqProperties
  <2> QED
    BY <1>2, <2>2
<1>4. Looked(q, file) = IF q.context THEN SubSeq(file.lines, 1, m) ELSE file.lines
  BY <1>2 DEF Looked
<1>5. CASE q.context
  BY <1>2, <1>3, <1>4, <1>5
<1>6. CASE ~q.context
  BY <1>1, <1>4, <1>6
<1> QED
  BY <1>5, <1>6

LEMMA LinesTrace ==
    ASSUME NEW q, NEW file, Looked(q, file) \in Seq(BOOLEAN)
    PROVE  \E a \in [0..Len(Looked(q, file)) -> Seq(Nat)] :
              /\ a[0] = <<>> /\ MatchingLines(q, file) = a[Len(Looked(q, file))]
              /\ \A k \in 1..Len(Looked(q, file)) : a[k] = IF file.lines[k] THEN Append(a[k - 1], k) ELSE a[k - 1]
<1> DEFINE n == Len(Looked(q, file))
           d == [i \in DOMAIN Looked(q, file) |-> i]
           begin == <<>>
           Out(k, a) == IF file.lines[k] THEN Append(a, k) ELSE a
           P(it) == it = [s \in SUBSET DOMAIN d |-> IF s = {} THEN begin ELSE
                            LET x == Max(s) IN Out(d[x], it[s \ {x}])]
           h == [w \in (1..n) \X Seq(Nat) |-> Out(w[1], w[2])]
           Final == CHOOSE it : P(it)
<1>1. n \in Nat /\ DOMAIN d = 1..n /\ \A k \in 1..n : d[k] = k
  OBVIOUS
<1>2. MatchingLines(q, file) = Final[DOMAIN d]
  BY DEF MatchingLines, FoldLeftDomain, FoldLeft, MapThenFoldSet
<1> HIDE DEF d
<1>3. \A k \in 1..n, a \in Seq(Nat) : Out(k, a) \in Seq(Nat)
  OBVIOUS
<1>0. begin \in Seq(Nat)
  OBVIOUS
<1>4. h \in [(1..n) \X Seq(Nat) -> Seq(Nat)] /\ \A k \in 1..n, a \in Seq(Nat) : h[<<k, a>>] = Out(k, a)
  BY <1>3
<1> HIDE DEF h, Out, n, begin
<1>5. PICK g \in [SUBSET (1..n) -> Seq(Nat)] : FoldsTo(g, n, begin, h)
  BY <1>0, <1>1, <1>4, FoldExists
<1>6. P(g)
  <2>1. ASSUME NEW s \in SUBSET (1..n), s # {} PROVE g[s] = Out(d[Max(s)], g[s \ {Max(s)}])
    <3>1. Max(s) \in 1..n /\ s \ {Max(s)} \in SUBSET (1..n)
      BY <1>1, <2>1, MaxIs
    <3>2. g[s] = h[<<Max(s), g[s \ {Max(s)}]>>]
      BY <1>5, <2>1 DEF FoldsTo
    <3> QED
      BY <1>1, <1>4, <1>5, <3>1, <3>2
  <2>2. g[{}] = begin
    BY <1>5 DEF FoldsTo
  <2> QED
    BY <1>1, <1>5, <2>1, <2>2
<1>7. P(Final)
  BY <1>6
<1> HIDE DEF Final
<1>8. Final[{}] = begin
  BY <1>7
<1>9. ASSUME NEW s \in SUBSET (1..n), s # {}, Final[s \ {Max(s)}] \in Seq(Nat)
      PROVE  Final[s] = h[<<Max(s), Final[s \ {Max(s)}]>>]
  <2>1. Max(s) \in 1..n
    BY <1>1, <1>9, MaxIs
  <2>2. Final[s] = Out(Max(s), Final[s \ {Max(s)}])
    BY <1>1, <1>7, <1>9, <2>1
  <2> QED
    BY <1>4, <1>9, <2>1, <2>2
<1>10. TraceOf(Final, n, Seq(Nat), begin, h)
  <2>1. StepsBy(Final, n, Seq(Nat), h)
    BY <1>9 DEF StepsBy
  <2> QED
    BY <1>0, <1>1, <1>4, <1>8, <2>1, FoldTrace
<1>11. PICK a \in [0..n -> Seq(Nat)] : /\ a[0] = begin /\ Final[1..n] = a[n]
                                    /\ \A k \in 1..n : a[k] = h[<<k, a[k - 1]>>]
  BY <1>10 DEF TraceOf
<1>12. ASSUME NEW k \in 1..n PROVE a[k - 1] \in Seq(Nat) /\ a[k] = Out(k, a[k - 1])
  <2>1. k - 1 \in 0..n
    BY <1>1
  <2>2. a[k - 1] \in Seq(Nat)
    BY <1>11, <2>1
  <2>3. h[<<k, a[k - 1]>>] = Out(k, a[k - 1])
    BY <1>4, <2>2
  <2> QED
    BY <1>11, <2>2, <2>3
<1> QED
  BY <1>1, <1>2, <1>11, <1>12 DEF Out, n, begin

LEMMA GrepTrace ==
    ASSUME NEW q, q.files \in Seq(SearchedFile), q.max \in Nat,
           \A k \in 1..Len(q.files), a \in Given(q) : GrepStep(q, a, k) \in Given(q)
    PROVE  \E a \in [0..Len(q.files) -> Given(q)] :
              /\ a[0] = [matches |-> <<>>, total |-> 0, truncated |-> FALSE] /\ GrepAnswer(q) = a[Len(q.files)]
              /\ \A k \in 1..Len(q.files) : a[k] = GrepStep(q, a[k - 1], k)
<1> DEFINE n == Len(q.files)
           d == [i \in DOMAIN q.files |-> i]
           begin == [matches |-> <<>>, total |-> 0, truncated |-> FALSE]
           Out(k, a) == GrepStep(q, a, k)
           P(it) == it = [s \in SUBSET DOMAIN d |-> IF s = {} THEN begin ELSE
                            LET x == Max(s) IN Out(d[x], it[s \ {x}])]
           h == [w \in (1..n) \X Given(q) |-> Out(w[1], w[2])]
           Final == CHOOSE it : P(it)
<1>1. n \in Nat /\ DOMAIN d = 1..n /\ \A k \in 1..n : d[k] = k
  OBVIOUS
<1>2. GrepAnswer(q) = Final[DOMAIN d]
  BY DEF GrepAnswer, FoldLeftDomain, FoldLeft, MapThenFoldSet
<1> HIDE DEF d
<1>3. \A k \in 1..n, a \in Given(q) : Out(k, a) \in Given(q)
  OBVIOUS
<1>0. begin \in Given(q)
  <2>1. <<>> \in Seq(Nat \X Nat) /\ Len(<<>>) = 0
    OBVIOUS
  <2> QED
    BY <2>1 DEF Given
<1>4. h \in [(1..n) \X Given(q) -> Given(q)] /\ \A k \in 1..n, a \in Given(q) : h[<<k, a>>] = Out(k, a)
  BY <1>3
<1> HIDE DEF h, Out, n, begin
<1>5. PICK g \in [SUBSET (1..n) -> Given(q)] : FoldsTo(g, n, begin, h)
  BY <1>0, <1>1, <1>4, FoldExists
<1>6. P(g)
  <2>1. ASSUME NEW s \in SUBSET (1..n), s # {} PROVE g[s] = Out(d[Max(s)], g[s \ {Max(s)}])
    <3>1. Max(s) \in 1..n /\ s \ {Max(s)} \in SUBSET (1..n)
      BY <1>1, <2>1, MaxIs
    <3>2. g[s] = h[<<Max(s), g[s \ {Max(s)}]>>]
      BY <1>5, <2>1 DEF FoldsTo
    <3> QED
      BY <1>1, <1>4, <1>5, <3>1, <3>2
  <2>2. g[{}] = begin
    BY <1>5 DEF FoldsTo
  <2> QED
    BY <1>1, <1>5, <2>1, <2>2
<1>7. P(Final)
  BY <1>6
<1> HIDE DEF Final
<1>8. Final[{}] = begin
  BY <1>7
<1>9. ASSUME NEW s \in SUBSET (1..n), s # {}, Final[s \ {Max(s)}] \in Given(q)
      PROVE  Final[s] = h[<<Max(s), Final[s \ {Max(s)}]>>]
  <2>1. Max(s) \in 1..n
    BY <1>1, <1>9, MaxIs
  <2>2. Final[s] = Out(Max(s), Final[s \ {Max(s)}])
    BY <1>1, <1>7, <1>9, <2>1
  <2> QED
    BY <1>4, <1>9, <2>1, <2>2
<1>10. TraceOf(Final, n, Given(q), begin, h)
  <2>1. StepsBy(Final, n, Given(q), h)
    BY <1>9 DEF StepsBy
  <2> QED
    BY <1>0, <1>1, <1>4, <1>8, <2>1, FoldTrace
<1>11. PICK a \in [0..n -> Given(q)] : /\ a[0] = begin /\ Final[1..n] = a[n]
                                    /\ \A k \in 1..n : a[k] = h[<<k, a[k - 1]>>]
  BY <1>10 DEF TraceOf
<1>12. ASSUME NEW k \in 1..n PROVE a[k - 1] \in Given(q) /\ a[k] = Out(k, a[k - 1])
  <2>1. k - 1 \in 0..n
    BY <1>1
  <2>2. a[k - 1] \in Given(q)
    BY <1>11, <2>1
  <2>3. h[<<k, a[k - 1]>>] = Out(k, a[k - 1])
    BY <1>4, <2>2
  <2> QED
    BY <1>11, <2>2, <2>3
<1> QED
  BY <1>1, <1>2, <1>11, <1>12 DEF Out, n, begin

LEMMA LinesStep ==
    ASSUME NEW file, NEW n, NEW m \in Nat, NEW f, LinesGiven(f, n, file, m),
           NEW g, g = IF file.lines[m + 1] THEN Append(f, m + 1) ELSE f
    PROVE  LinesGiven(g, n, file, m + 1)
<1>1. /\ f \in Seq(1..m) /\ Len(f) \in Nat /\ \A i \in 1..Len(f) : f[i] \in 1..m /\ f[i] \in LinesAt(file, m)
      /\ f \in Seq(1..(m + 1))
  BY SMTT(30), SeqOfMore DEF LinesGiven
<1>2. CASE file.lines[m + 1]
  <2>1. LinesAt(file, m + 1) = LinesAt(file, m) \cup {m + 1}
    BY <1>2 DEF LinesAt
  <2>2. /\ g \in Seq(1..(m + 1)) /\ Len(g) = Len(f) + 1 /\ g[Len(f) + 1] = m + 1
        /\ \A i \in 1..Len(f) : g[i] = f[i]
    BY <1>1, <1>2
  <2>3. ASSUME NEW i \in 1..Len(g), NEW j \in 1..Len(g), i < j PROVE g[i] < g[j]
    <3>1. CASE j = Len(f) + 1
      BY SMTT(30), <1>1, <2>2, <2>3, <3>1
    <3>2. CASE j # Len(f) + 1
      <4>1. i \in 1..Len(f) /\ j \in 1..Len(f)
        BY SMTT(30), <1>1, <2>2, <2>3, <3>2
      <4> QED
        BY <2>2, <2>3, <4>1 DEF LinesGiven
    <3> QED
      BY <3>1, <3>2
  <2>4. \A k \in LinesAt(file, m + 1) : \E i \in 1..Len(g) : g[i] = k
    BY SMTT(30), <1>1, <2>1, <2>2 DEF LinesGiven
  <2>5. \A i \in 1..Len(g) : g[i] \in LinesAt(file, m + 1)
    BY <1>1, <2>1, <2>2
  <2>6. PlacesIn(n, file, m + 1) = PlacesIn(n, file, m) \cup {<<n, m + 1>>} /\ <<n, m + 1>> \notin PlacesIn(n, file, m)
    BY <2>1 DEF PlacesIn, LinesAt
  <2>7. IsFiniteSet(PlacesIn(n, file, m + 1)) /\ Cardinality(PlacesIn(n, file, m + 1)) = Len(g)
    <3>1. PICK S, x : S = PlacesIn(n, file, m) /\ x = <<n, m + 1>>
      OBVIOUS
    <3>2. IsFiniteSet(S) /\ Cardinality(S) = Len(f) /\ x \notin S /\ PlacesIn(n, file, m + 1) = S \cup {x}
      BY <2>6, <3>1 DEF LinesGiven
    <3>3. IsFiniteSet(S \cup {x}) /\ Cardinality(S \cup {x}) = Cardinality(S) + 1
      BY <3>2, FS_AddElement
    <3> QED
      BY <2>2, <3>2, <3>3
  <2> QED
    BY <2>2, <2>3, <2>4, <2>5, <2>7 DEF LinesGiven
<1>3. CASE ~file.lines[m + 1]
  <2>1. LinesAt(file, m + 1) = LinesAt(file, m)
    BY <1>3 DEF LinesAt
  <2>2. PlacesIn(n, file, m + 1) = PlacesIn(n, file, m)
    BY <2>1 DEF PlacesIn
  <2> QED
    BY <1>1, <1>3, <2>1, <2>2 DEF LinesGiven
<1> QED
  BY <1>2, <1>3

LEMMA LinesFound ==
    ASSUME NEW q, NEW file \in SearchedFile, NEW n
    PROVE  LinesGiven(MatchingLines(q, file), n, file, Len(Looked(q, file)))
<1>1. Looked(q, file) \in Seq(BOOLEAN)
  BY LookedLines
<1>2. PICK m : m = Len(Looked(q, file)) /\ m \in Nat
  BY <1>1
<1>3. PICK a \in [0..m -> Seq(Nat)] :
         /\ a[0] = <<>> /\ MatchingLines(q, file) = a[m]
         /\ \A k \in 1..m : a[k] = IF file.lines[k] THEN Append(a[k - 1], k) ELSE a[k - 1]
  BY <1>1, <1>2, LinesTrace
<1> DEFINE T == {k \in 0..m : LinesGiven(a[k], n, file, k)}
<1>4. 0 \in T
  <2>1. LinesAt(file, 0) = {} /\ <<>> \in Seq(1..0) /\ Len(<<>>) = 0 /\ 1..0 = {}
    BY DEF LinesAt
  <2>2. PlacesIn(n, file, 0) = {}
    BY <2>1 DEF PlacesIn
  <2>3. LinesGiven(<<>>, n, file, 0)
    BY <2>1, <2>2, FS_EmptySet DEF LinesGiven
  <2> QED
    BY <1>2, <1>3, <2>3
<1>5. ASSUME NEW k \in 1..m, k - 1 \in T PROVE k \in T
  <2>1. PICK j : j = k - 1 /\ j \in Nat /\ k = j + 1 /\ k \in 0..m
    BY <1>2
  <2>2. a[j + 1] = (IF file.lines[j + 1] THEN Append(a[j], j + 1) ELSE a[j]) /\ LinesGiven(a[j], n, file, j)
    BY <1>3, <1>5, <2>1
  <2>3. LinesGiven(a[j + 1], n, file, j + 1)
    BY <2>1, <2>2, LinesStep
  <2> QED
    BY <2>1, <2>3
<1> HIDE DEF T
<1>6. \A k \in 0..m : k \in T
  BY <1>2, <1>4, <1>5, UpToInduction
<1> QED
  BY <1>2, <1>3, <1>6 DEF T

\* What the search of one file gives: the first of its matching lines, as many as there is room for.
FoundIn(q, n, file, room, got, M, c) ==
    /\ LinesGiven(M, n, file, Len(Looked(q, file))) /\ Len(M) \in Nat
    /\ c \in 0..Len(M) /\ c <= room /\ (c < Len(M) => c = room)
    /\ Len(got.hits) = c /\ got.count = Len(M) /\ \A i \in 1..c : got.hits[i] = M[i]

LEMMA FileSearched ==
    ASSUME NEW q, NEW file \in SearchedFile, NEW n, NEW room \in Nat, ~file.binary,
           NEW got, got = GrepFile(q, file, room)
    PROVE  \E M, c : FoundIn(q, n, file, room, got, M, c)
<1>1. PICK M : M = MatchingLines(q, file)
  OBVIOUS
<1>2. LinesGiven(M, n, file, Len(Looked(q, file)))
  BY <1>1, LinesFound
<1>3. M \in Seq(1..Len(Looked(q, file))) /\ Len(M) \in Nat
  BY <1>2 DEF LinesGiven
<1>4. PICK c : c = MinOf(room, Len(M)) /\ c \in 0..Len(M) /\ c <= room /\ (c < Len(M) => c = room)
  BY <1>3 DEF MinOf
<1>5. got.hits = SubSeq(M, 1, c) /\ got.count = Len(M)
  BY <1>1, <1>4 DEF GrepFile
<1>6. Len(SubSeq(M, 1, c)) = c /\ \A i \in 1..c : SubSeq(M, 1, c)[i] = M[i]
  <2>1. c \in Int /\ \A i \in 1..c : M[i] \in 1..Len(Looked(q, file))
    BY <1>3, <1>4
  <2>2. /\ Len(SubSeq(M, 1, c)) = IF 1 <= c THEN c - 1 + 1 ELSE 0
        /\ \A i \in 1..(c - 1 + 1) : SubSeq(M, 1, c)[i] = M[1 + i - 1]
    BY <2>1, SubSeqProperties
  <2> QED
    BY <1>4, <2>2
<1>7. FoundIn(q, n, file, room, got, M, c)
  BY <1>2, <1>3, <1>4, <1>5, <1>6 DEF FoundIn
<1> QED
  BY <1>7

\* b: what is given once file n was searched as well, of whose matching lines M the first c are given.
SearchedTo(q, n, a, b, M, c) ==
    /\ LinesGiven(M, n, q.files[n], Len(Looked(q, q.files[n]))) /\ Len(M) \in Nat /\ c \in 0..Len(M)
    /\ (c < Len(M) => c = q.max - Len(a.matches)) /\ b \in Given(q)
    /\ Len(b.matches) = Len(a.matches) + c /\ b.total = a.total + Len(M)
    /\ (b.truncated <=> Len(b.matches) >= q.max)
    /\ \A i \in 1..Len(a.matches) : b.matches[i] = a.matches[i]
    /\ \A i \in 1..c : b.matches[Len(a.matches) + i] = <<n, M[i]>>

LEMMA SearchedStep ==
    ASSUME NEW q, q.files \in Seq(SearchedFile), q.max \in Nat, NEW n \in 1..Len(q.files), NEW a \in Given(q),
           NEW b, b = GrepStep(q, a, n), ~a.truncated, Searchable(q.files[n])
    PROVE  \E M, c : SearchedTo(q, n, a, b, M, c)
<1>0. PICK file : file = q.files[n]
  OBVIOUS
<1>1. file \in SearchedFile /\ ~file.binary /\ ~file.protected
  BY <1>0 DEF Searchable
<1>2. PICK l, room, x : l = Len(a.matches) /\ room = q.max - l /\ x = a.matches
  OBVIOUS
<1>2a. x \in Seq(Nat \X Nat) /\ l \in Nat /\ l = Len(x) /\ room \in Nat /\ a.total \in Nat
  BY <1>2 DEF Given
<1>3. PICK got : got = GrepFile(q, file, room)
  OBVIOUS
<1>3a. \E M, c : FoundIn(q, n, file, room, got, M, c)
  BY <1>1, <1>2a, <1>3, FileSearched
<1>3b. PICK M, c : FoundIn(q, n, file, room, got, M, c)
  BY <1>3a
<1>4. /\ LinesGiven(M, n, file, Len(Looked(q, file))) /\ Len(M) \in Nat
      /\ c \in 0..Len(M) /\ c <= room /\ (c < Len(M) => c = room)
      /\ Len(got.hits) = c /\ got.count = Len(M) /\ \A i \in 1..c : got.hits[i] = M[i]
  BY <1>3b DEF FoundIn
<1>5. PICK y : y = [k \in 1..c |-> <<n, got.hits[k]>>]
  OBVIOUS
<1>6. b = [matches |-> x \o y, total |-> a.total + Len(M), truncated |-> Len(x \o y) >= q.max]
  <2>1. b = LET g == GrepFile(q, file, q.max - Len(a.matches))
                all == a.matches \o [k \in 1..Len(g.hits) |-> <<n, g.hits[k]>>]
            IN [matches |-> all, total |-> a.total + g.count, truncated |-> Len(all) >= q.max]
    BY <1>0, <1>1 DEF GrepStep
  <2> QED
    BY <1>2, <1>3, <1>4, <1>5, <2>1
<1>7. y \in Seq(Nat \X Nat) /\ Len(y) = c /\ \A i \in 1..c : y[i] = <<n, M[i]>>
  <2>1. ASSUME NEW i \in 1..c PROVE M[i] \in Nat /\ y[i] = <<n, M[i]>> /\ y[i] \in Nat \X Nat
    <3>1. M \in Seq(1..Len(Looked(q, file))) /\ i \in 1..Len(M) /\ n \in Nat
      BY <1>4 DEF LinesGiven
    <3>2. M[i] \in 1..Len(Looked(q, file))
      BY <3>1
    <3>3. M[i] \in Nat
      BY <3>2
    <3> QED
      BY <1>4, <1>5, <3>1, <3>3
  <2>2. c \in Nat /\ DOMAIN y = 1..c
    BY <1>4, <1>5
  <2>3. y \in [1..c -> Nat \X Nat]
    BY <1>5, <2>1
  <2> QED
    BY <2>1, <2>2, <2>3
<1>8. /\ x \o y \in Seq(Nat \X Nat) /\ Len(x \o y) = l + c
      /\ \A i \in 1..(l + c) : (x \o y)[i] = IF i <= l THEN x[i] ELSE y[i - l]
  BY ZenonT(40), <1>2a, <1>7, ConcatProperties
<1>9. b.matches = x \o y /\ b.total = a.total + Len(M) /\ b.truncated = (Len(x \o y) >= q.max)
  BY <1>6
<1>10. b \in Given(q)
  <2>0. PICK max, d : max = q.max /\ max \in Nat /\ d = Len(M) /\ d \in Nat
    BY <1>4
  <2>0a. c \in Nat /\ c <= room
    BY <1>4
  <2>0b. room = max - l
    BY <1>2, <2>0
  <2>1. l + c <= q.max /\ a.total + Len(M) \in Nat
    <3>1. l + c <= max /\ a.total + d \in Nat
      BY SMTT(30), <1>2a, <2>0, <2>0a, <2>0b
    <3> QED
      BY <2>0, <3>1
  <2>2. PICK z, t, w : z = x \o y /\ t = a.total + Len(M) /\ w = (Len(x \o y) >= q.max)
    OBVIOUS
  <2>3. b = [matches |-> z, total |-> t, truncated |-> w] /\ z \in Seq(Nat \X Nat) /\ Len(z) = l + c
    BY <1>6, <1>8, <2>2
  <2>4. w \in BOOLEAN /\ t \in Nat
    BY <2>1, <2>2
  <2>5. b \in [matches : Seq(Nat \X Nat), total : Nat, truncated : BOOLEAN] /\ b.matches = z
    BY <2>3, <2>4
  <2> QED
    BY <2>1, <2>3, <2>5 DEF Given
<1>11. \A i \in 1..l : b.matches[i] = x[i]
  BY <1>2a, <1>4, <1>8, <1>9
<1>12. ASSUME NEW i \in 1..c PROVE b.matches[l + i] = <<n, M[i]>>
  <2>1. l + i \in 1..(l + c) /\ ~(l + i <= l) /\ (l + i) - l = i
    BY SMTT(30), <1>2a, <1>4
  <2> QED
    BY <1>7, <1>8, <1>9, <2>1
<1>13. SearchedTo(q, n, a, b, M, c)
  BY <1>0, <1>2, <1>4, <1>8, <1>9, <1>10, <1>11, <1>12 DEF SearchedTo
<1> QED
  BY <1>13

LEMMA PassedOverStep ==
    ASSUME NEW q, q.files \in Seq(SearchedFile), q.max \in Nat, NEW n \in 1..Len(q.files), NEW a \in Given(q),
           NEW b, b = GrepStep(q, a, n), a.truncated \/ ~Searchable(q.files[n])
    PROVE  /\ b \in Given(q) /\ b.matches = a.matches /\ b.total = a.total
           /\ b.truncated <=> a.truncated \/ (q.files[n].binary /\ ~q.files[n].protected /\ Len(a.matches) >= q.max)
<1>1. PICK file : file = q.files[n] /\ file \in SearchedFile
  BY SMTT(30)
<1>2. CASE a.truncated \/ file.protected
  BY <1>1, <1>2 DEF GrepStep
<1>3. CASE ~a.truncated /\ ~file.protected /\ file.binary
  <2>1. GrepFile(q, file, q.max - Len(a.matches)) = [hits |-> <<>>, count |-> 0]
    BY <1>3 DEF GrepFile
  <2>2. a.matches \in Seq(Nat \X Nat) /\ a.total \in Nat
    BY DEF Given
  <2>3. PICK got : got = [hits |-> <<>>, count |-> 0]
    OBVIOUS
  <2>4. PICK joined : joined = a.matches \o [k \in 1..Len(got.hits) |-> <<n, got.hits[k]>>]
    OBVIOUS
  <2>5. b = [matches |-> a.matches, total |-> a.total + 0, truncated |-> Len(a.matches) >= q.max]
    <3>1. b = LET g == GrepFile(q, file, q.max - Len(a.matches))
                  all == a.matches \o [k \in 1..Len(g.hits) |-> <<n, g.hits[k]>>]
              IN [matches |-> all, total |-> a.total + g.count, truncated |-> Len(all) >= q.max]
      BY ZenonT(40), <1>1, <1>3 DEF GrepStep
    <3>2. b = [matches |-> joined, total |-> a.total + got.count, truncated |-> Len(joined) >= q.max]
      BY <2>1, <2>3, <2>4, <3>1
    <3>3. [k \in 1..Len(got.hits) |-> <<n, got.hits[k]>>] = <<>> /\ got.count = 0
      BY <2>3
    <3>4. joined = a.matches
      BY <2>2, <2>4, <3>3, ConcatEmptySeq
    <3> QED
      BY <3>2, <3>3, <3>4
  <2>6. b.matches = a.matches /\ b.total = a.total /\ b.truncated = (Len(a.matches) >= q.max)
    BY <2>2, <2>5
  <2>7. b \in Given(q)
    BY <2>2, <2>5 DEF Given
  <2> QED
    BY <1>1, <1>3, <2>6, <2>7
<1> QED
  BY <1>1, <1>2, <1>3 DEF Searchable

LEMMA GrepTyped ==
    ASSUME NEW q, q.files \in Seq(SearchedFile), q.max \in Nat, NEW n \in 1..Len(q.files), NEW a \in Given(q)
    PROVE  GrepStep(q, a, n) \in Given(q)
<1>1. PICK b : b = GrepStep(q, a, n)
  OBVIOUS
<1>2. CASE ~a.truncated /\ Searchable(q.files[n])
  <2>1. PICK M, c : SearchedTo(q, n, a, b, M, c)
    BY <1>1, <1>2, SearchedStep
  <2> QED
    BY <1>1, <2>1 DEF SearchedTo
<1>3. CASE a.truncated \/ ~Searchable(q.files[n])
  BY <1>1, <1>3, PassedOverStep
<1> QED
  BY <1>2, <1>3

\* What matches in the first m files.
MatchesTo(q, m) ==
    {p \in (1..m) \X Nat : /\ Searchable(q.files[p[1]]) /\ p[2] \in 1..Len(q.files[p[1]].lines)
                           /\ q.files[p[1]].lines[p[2]]}

IsGiven(a, p) == \E i \in 1..Len(a.matches) : a.matches[i] = p

GrepRightAt(q, a, m) ==
    /\ \A i \in 1..Len(a.matches) : a.matches[i] \in MatchesTo(q, m)
    /\ a.total >= Len(a.matches) /\ (a.truncated <=> Len(a.matches) = q.max)
    /\ \A i, j \in 1..Len(a.matches) : i < j => Before(a.matches[i], a.matches[j])
    /\ ~q.context =>
         /\ ~a.truncated => /\ IsFiniteSet(MatchesTo(q, m)) /\ a.total = Cardinality(MatchesTo(q, m))
                            /\ \A p \in MatchesTo(q, m) : IsGiven(a, p)
         /\ a.truncated => \A p \in MatchesTo(q, m) :
                             IsGiven(a, p) \/ \A i \in 1..Len(a.matches) : Before(a.matches[i], p)

LEMMA MatchesGrow ==
    ASSUME NEW q, q.files \in Seq(SearchedFile), NEW m \in Nat, m + 1 \in 1..Len(q.files)
    PROVE  /\ MatchesTo(q, m) \subseteq MatchesTo(q, m + 1)
           /\ \A p \in MatchesTo(q, m) : p[1] <= m /\ p[1] \in Nat /\ p[2] \in Nat
           /\ ~Searchable(q.files[m + 1]) => MatchesTo(q, m + 1) = MatchesTo(q, m)
           /\ Searchable(q.files[m + 1]) =>
                MatchesTo(q, m + 1) = MatchesTo(q, m) \cup PlacesIn(m + 1, q.files[m + 1], Len(q.files[m + 1].lines))
<1>1. ASSUME NEW p \in MatchesTo(q, m) PROVE p[1] <= m /\ p[1] \in Nat /\ p[2] \in Nat /\ p \in MatchesTo(q, m + 1)
  <2>1. p \in (1..m) \X Nat
    BY DEF MatchesTo
  <2>2. p[1] \in 1..m /\ p[2] \in Nat /\ p \in (1..(m + 1)) \X Nat
    BY <2>1
  <2> QED
    BY <2>2 DEF MatchesTo
<1>2. ASSUME NEW p \in MatchesTo(q, m + 1), p \notin MatchesTo(q, m)
      PROVE  /\ Searchable(q.files[m + 1])
             /\ p \in PlacesIn(m + 1, q.files[m + 1], Len(q.files[m + 1].lines))
  <2>1. p \in (1..(m + 1)) \X Nat
    BY DEF MatchesTo
  <2>2. p[1] \in 1..(m + 1) /\ p[2] \in Nat /\ p = <<p[1], p[2]>>
    BY <2>1
  <2>3. p[1] = m + 1
    <3>1. SUFFICES ASSUME p[1] # m + 1 PROVE FALSE
      OBVIOUS
    <3>2. p \in (1..m) \X Nat
      BY <2>1, <2>2, <3>1
    <3> QED
      BY <1>2, <3>2 DEF MatchesTo
  <2>4. /\ Searchable(q.files[m + 1]) /\ p[2] \in 1..Len(q.files[m + 1].lines)
        /\ q.files[m + 1].lines[p[2]]
    BY <2>3 DEF MatchesTo
  <2>5. p[2] \in LinesAt(q.files[m + 1], Len(q.files[m + 1].lines))
    BY <2>4 DEF LinesAt
  <2> QED
    BY <2>2, <2>3, <2>4, <2>5 DEF PlacesIn
<1>3. ASSUME NEW p \in PlacesIn(m + 1, q.files[m + 1], Len(q.files[m + 1].lines)), Searchable(q.files[m + 1])
      PROVE  p \in MatchesTo(q, m + 1)
  <2>1. PICK k : k \in LinesAt(q.files[m + 1], Len(q.files[m + 1].lines)) /\ p = <<m + 1, k>>
    BY DEF PlacesIn
  <2>2. k \in 1..Len(q.files[m + 1].lines) /\ q.files[m + 1].lines[k]
    BY <2>1 DEF LinesAt
  <2>3. p[1] = m + 1 /\ p[2] = k /\ p \in (1..(m + 1)) \X Nat
    BY <2>1, <2>2
  <2> QED
    BY <1>3, <2>2, <2>3 DEF MatchesTo
<1> QED
  BY <1>1, <1>2, <1>3

LEMMA GrepPassed ==
    ASSUME NEW q, q.files \in Seq(SearchedFile), q.max \in Nat, NEW m \in Nat, m + 1 \in 1..Len(q.files),
           NEW a \in Given(q), GrepRightAt(q, a, m), NEW b, b = GrepStep(q, a, m + 1),
           a.truncated \/ ~Searchable(q.files[m + 1])
    PROVE  GrepRightAt(q, b, m + 1)
<1>1. /\ b.matches = a.matches /\ b.total = a.total
      /\ b.truncated <=> a.truncated \/ (Len(a.matches) >= q.max /\ b.truncated)
  BY PassedOverStep
<1>2. Len(a.matches) \in Nat /\ Len(a.matches) <= q.max
  BY DEF Given
<1>2a. a.truncated <=> Len(a.matches) = q.max
  BY DEF GrepRightAt
<1>3. b.truncated <=> a.truncated
  <2>1. CASE a.truncated
    BY <1>1, <2>1
  <2>2. CASE ~a.truncated
    <3>1. ~(Len(a.matches) >= q.max)
      BY <1>2, <1>2a, <2>2
    <3> QED
      BY <1>1, <2>2, <3>1
  <2> QED
    BY <2>1, <2>2
<1>4. \A p : IsGiven(b, p) <=> IsGiven(a, p)
  BY <1>1 DEF IsGiven
<1>5. \A i \in 1..Len(a.matches) : a.matches[i] \in MatchesTo(q, m)
  BY DEF GrepRightAt
<1>6. CASE ~Searchable(q.files[m + 1])
  <2>1. MatchesTo(q, m + 1) = MatchesTo(q, m)
    BY <1>6, MatchesGrow
  <2> QED
    BY <1>1, <1>3, <1>4, <2>1 DEF GrepRightAt
<1>7. CASE a.truncated /\ Searchable(q.files[m + 1])
  <2>1. \A i \in 1..Len(b.matches) : b.matches[i] \in MatchesTo(q, m + 1)
    BY <1>1, <1>5, MatchesGrow
  <2>2. ASSUME ~q.context, NEW p \in MatchesTo(q, m + 1)
        PROVE  IsGiven(b, p) \/ \A i \in 1..Len(b.matches) : Before(b.matches[i], p)
    <3>1. CASE p \in MatchesTo(q, m)
      BY <1>1, <1>4, <1>7, <2>2, <3>1 DEF GrepRightAt
    <3>2. CASE p \in PlacesIn(m + 1, q.files[m + 1], Len(q.files[m + 1].lines))
      <4>1. p[1] = m + 1
        BY <3>2 DEF PlacesIn
      <4>2. ASSUME NEW i \in 1..Len(b.matches) PROVE Before(b.matches[i], p)
        <5>1. b.matches[i] \in MatchesTo(q, m)
          BY <1>1, <1>5
        <5>2. b.matches[i][1] <= m /\ b.matches[i][1] \in Nat
          BY <5>1, MatchesGrow
        <5> QED
          BY <4>1, <5>2 DEF Before
      <4> QED
        BY <4>2
    <3> QED
      BY <1>7, <2>2, <3>1, <3>2, MatchesGrow
  <2> QED
    BY <1>1, <1>3, <1>7, <2>1, <2>2 DEF GrepRightAt
<1> QED
  BY <1>6, <1>7

LEMMA GrepSearched ==
    ASSUME NEW q, q.files \in Seq(SearchedFile), q.max \in Nat, NEW m \in Nat, m + 1 \in 1..Len(q.files),
           NEW a \in Given(q), GrepRightAt(q, a, m), NEW b, b = GrepStep(q, a, m + 1),
           ~a.truncated, Searchable(q.files[m + 1])
    PROVE  GrepRightAt(q, b, m + 1)
<1>1. PICK M, c : SearchedTo(q, m + 1, a, b, M, c)
  BY SearchedStep
<1>2. PICK file, l, n : file = q.files[m + 1] /\ l = Len(a.matches) /\ n = Len(Looked(q, file))
  OBVIOUS
<1>2a. file \in SearchedFile
  BY <1>2
<1>3. /\ LinesGiven(M, m + 1, file, n) /\ Len(M) \in Nat /\ c \in 0..Len(M) /\ b \in Given(q)
      /\ Len(b.matches) = l + c /\ b.total = a.total + Len(M)
      /\ \A i \in 1..l : b.matches[i] = a.matches[i]
      /\ \A i \in 1..c : b.matches[l + i] = <<m + 1, M[i]>>
  BY <1>1, <1>2 DEF SearchedTo
<1>3a. (c < Len(M) => c = q.max - l) /\ (b.truncated <=> l + c >= q.max)
  BY <1>1, <1>2 DEF SearchedTo
<1>4. l \in Nat /\ a.total \in Nat /\ Len(b.matches) <= q.max
  BY <1>2, <1>3 DEF Given
<1>5. /\ \A i \in 1..Len(M) : M[i] \in LinesAt(file, n) /\ M[i] \in 1..n
      /\ \A i, j \in 1..Len(M) : i < j => M[i] < M[j]
      /\ \A k \in LinesAt(file, n) : \E i \in 1..Len(M) : M[i] = k
  BY <1>3 DEF LinesGiven, LinesAt
<1>6. n \in 0..Len(file.lines) /\ Len(file.lines) \in Nat /\ (~q.context => n = Len(file.lines))
  <2>1. n \in 0..Len(file.lines) /\ (~q.context => Looked(q, file) = file.lines)
    BY <1>2, <1>2a, LookedLines
  <2>2. Len(file.lines) \in Nat
    BY <1>2a DEF SearchedFile
  <2> QED
    BY <1>2, <2>1, <2>2
<1>7. PICK P : P = PlacesIn(m + 1, file, Len(file.lines))
  OBVIOUS
<1>8. /\ MatchesTo(q, m + 1) = MatchesTo(q, m) \cup P /\ \A p \in MatchesTo(q, m) : p[1] <= m /\ p[1] \in Nat
  BY <1>2, <1>7, MatchesGrow
<1>9. ASSUME NEW i \in 1..(l + c)
      PROVE  \/ i \in 1..l
             \/ \E j \in 1..c : i = l + j /\ b.matches[i] = <<m + 1, M[j]>> /\ j \in 1..Len(M)
  <2>1. CASE i <= l
    BY <1>4, <2>1
  <2>2. CASE i > l
    <3>0. c \in Nat /\ c <= Len(M)
      BY <1>3
    <3>1. PICK j : j \in 1..c /\ i = l + j
      <4>1. i - l \in 1..c /\ i = l + (i - l)
        BY <1>4, <2>2, <3>0
      <4> QED
        BY <4>1
    <3>2. b.matches[i] = <<m + 1, M[j]>> /\ j \in 1..Len(M)
      BY SMTT(30), <1>3, <3>0, <3>1
    <3> QED
      BY <3>1, <3>2
  <2> QED
    BY <1>3, <1>4, <2>1, <2>2
<1>10. ASSUME NEW i \in 1..l PROVE b.matches[i] \in MatchesTo(q, m) /\ b.matches[i][1] <= m /\ b.matches[i][1] \in Nat
  <2>1. b.matches[i] \in MatchesTo(q, m)
    BY <1>2, <1>3 DEF GrepRightAt
  <2> QED
    BY <1>8, <2>1
<1>11. ASSUME NEW j \in 1..Len(M) PROVE <<m + 1, M[j]>> \in P
  <2>1. M[j] \in LinesAt(file, Len(file.lines))
    BY SMTT(30), <1>5, <1>6 DEF LinesAt
  <2> QED
    BY <1>7, <2>1 DEF PlacesIn
<1>12. \A i \in 1..Len(b.matches) : b.matches[i] \in MatchesTo(q, m + 1)
  <2>1. ASSUME NEW i \in 1..(l + c) PROVE b.matches[i] \in MatchesTo(q, m) \cup P
    <3>1. CASE i \in 1..l
      BY <1>10, <3>1
    <3>2. CASE i \notin 1..l
      <4>1. PICK j \in 1..c : b.matches[i] = <<m + 1, M[j]>> /\ j \in 1..Len(M)
        BY <1>9, <3>2
      <4> QED
        BY <1>11, <4>1
    <3> QED
      BY <3>1, <3>2
  <2> QED
    BY <1>3, <1>8, <2>1
<1>13. ASSUME NEW i \in 1..Len(b.matches), NEW j \in 1..Len(b.matches), i < j
       PROVE  Before(b.matches[i], b.matches[j])
  <2>1. CASE j \in 1..l
    <3>1. i \in 1..l
      BY <1>4, <1>13, <2>1
    <3>2. Before(a.matches[i], a.matches[j])
      BY <1>2, <1>13, <2>1, <3>1 DEF GrepRightAt
    <3> QED
      BY <1>3, <2>1, <3>1, <3>2
  <2>2. CASE j \notin 1..l
    <3>1. PICK y \in 1..c : j = l + y /\ b.matches[j] = <<m + 1, M[y]>> /\ y \in 1..Len(M)
      BY <1>3, <1>9, <2>2
    <3>2. CASE i \in 1..l
      BY SMTT(30), <1>10, <3>1, <3>2 DEF Before
    <3>3. CASE i \notin 1..l
      <4>1. PICK x \in 1..c : i = l + x /\ b.matches[i] = <<m + 1, M[x]>> /\ x \in 1..Len(M)
        BY <1>3, <1>9, <3>3
      <4>2. x < y
        BY <1>4, <1>13, <3>1, <4>1
      <4>3. M[x] < M[y]
        BY <1>5, <3>1, <4>1, <4>2
      <4> QED
        BY SMTT(30), <3>1, <4>1, <4>3 DEF Before
    <3> QED
      BY <3>2, <3>3
  <2> QED
    BY <2>1, <2>2
<1>14. b.total >= Len(b.matches) /\ (b.truncated <=> Len(b.matches) = q.max)
  <2>1. a.total >= l
    BY <1>2 DEF GrepRightAt
  <2>2. b.total >= Len(b.matches)
    BY <1>3, <1>4, <2>1
  <2> QED
    BY <1>3, <1>3a, <1>4, <2>2
<1>15. ASSUME NEW i \in 1..l PROVE IsGiven(b, a.matches[i])
  <2>1. i \in 1..Len(b.matches)
    BY <1>3, <1>4
  <2> QED
    BY <1>3, <2>1 DEF IsGiven
<1>16. ASSUME ~q.context, NEW p \in MatchesTo(q, m) PROVE IsGiven(b, p)
  <2>1. IsGiven(a, p)
    BY <1>16 DEF GrepRightAt
  <2> QED
    BY <1>2, <1>15, <2>1 DEF IsGiven
<1>17. ASSUME ~q.context, NEW p \in P
       PROVE  IsGiven(b, p) \/ (b.truncated /\ \A i \in 1..Len(b.matches) : Before(b.matches[i], p))
  <2>1. PICK k \in LinesAt(file, n) : p = <<m + 1, k>>
    BY <1>6, <1>7, <1>17 DEF PlacesIn
  <2>2. PICK y \in 1..Len(M) : M[y] = k
    BY <1>5
  <2>3. CASE y <= c
    <3>1. y \in 1..c /\ l + y \in 1..Len(b.matches)
      BY <1>3, <1>4, <2>3
    <3>2. b.matches[l + y] = p
      BY <1>3, <2>1, <2>2, <3>1
    <3> QED
      BY <3>1, <3>2 DEF IsGiven
  <2>4. CASE y > c
    <3>1. c < Len(M)
      BY <1>3, <2>4
    <3>2. b.truncated
      BY <1>3, <1>3a, <1>4, <3>1
    <3>3. ASSUME NEW i \in 1..Len(b.matches) PROVE Before(b.matches[i], p)
      <4>1. CASE i \in 1..l
        BY <1>10, <2>1, <4>1 DEF Before
      <4>2. CASE i \notin 1..l
        <5>1. PICK x \in 1..c : b.matches[i] = <<m + 1, M[x]>> /\ x \in 1..Len(M)
          BY <1>3, <1>9, <4>2
        <5>2. M[x] < M[y]
          <6>1. x < y
            BY <1>3, <2>4, <5>1
          <6> QED
            BY <1>5, <5>1, <6>1
        <5> QED
          BY <2>1, <2>2, <5>1, <5>2 DEF Before
      <4> QED
        BY <4>1, <4>2
    <3> QED
      BY <3>2, <3>3
  <2> QED
    BY <1>3, <2>3, <2>4
<1>18. ASSUME ~q.context
       PROVE  IsFiniteSet(MatchesTo(q, m + 1)) /\ b.total = Cardinality(MatchesTo(q, m + 1))
  <2>1. PICK S : S = MatchesTo(q, m)
    OBVIOUS
  <2>2. IsFiniteSet(S) /\ a.total = Cardinality(S)
    BY <1>18, <2>1 DEF GrepRightAt
  <2>3. IsFiniteSet(P) /\ Cardinality(P) = Len(M)
    BY <1>3, <1>6, <1>7, <1>18 DEF LinesGiven
  <2>4. \A p \in P : p[1] = m + 1
    BY <1>7 DEF PlacesIn
  <2>5. S \cap P = {}
    BY <1>8, <2>1, <2>4
  <2>6. IsFiniteSet(S \cup P) /\ Cardinality(S \cup P) = Cardinality(S) + Cardinality(P) - Cardinality(S \cap P)
    BY <2>2, <2>3, FS_Union
  <2>7. Cardinality(S \cup P) = a.total + Len(M)
    <3>1. Cardinality(S \cap P) = 0
      BY <2>5, FS_EmptySet
    <3>2. PICK d : d = Len(M) /\ d \in Nat
      BY <1>3
    <3>3. Cardinality(S \cup P) = a.total + d - 0
      BY <2>2, <2>3, <2>6, <3>1, <3>2
    <3> QED
      BY <1>4, <3>2, <3>3
  <2> QED
    BY <1>3, <1>8, <2>1, <2>6, <2>7
<1> QED
  <2>1. ~q.context => \A p \in MatchesTo(q, m + 1) : IsGiven(b, p) \/ (b.truncated /\ \A i \in 1..Len(b.matches) : Before(b.matches[i], p))
    BY <1>8, <1>16, <1>17
  <2> QED
    BY <1>12, <1>13, <1>14, <1>18, <2>1 DEF GrepRightAt

\* Matches come once each, in the order of the walk, none past the limit; without context
\* none before the last one given is missing and an answer that is not truncated counts
\* them all, for every tree, limit and mix of binary and protected files (file.go: grepFile,
\* FileGrepHandler).
THEOREM GrepIsRight ==
    ASSUME NEW q, q.files \in Seq(SearchedFile), q.max \in Nat \ {0}
    PROVE  GrepRight(q)
<1>1. PICK n : n = Len(q.files) /\ n \in Nat
  OBVIOUS
<1>2. PICK a \in [0..n -> Given(q)] :
         /\ a[0] = [matches |-> <<>>, total |-> 0, truncated |-> FALSE] /\ GrepAnswer(q) = a[n]
         /\ \A k \in 1..n : a[k] = GrepStep(q, a[k - 1], k)
  BY <1>1, GrepTyped, GrepTrace
<1> DEFINE T == {k \in 0..n : GrepRightAt(q, a[k], k)}
<1>3. 0 \in T
  <2>1. MatchesTo(q, 0) = {} /\ Len(a[0].matches) = 0 /\ 1..0 = {} /\ a[0].total = 0 /\ ~a[0].truncated
    BY <1>2 DEF MatchesTo
  <2>2. GrepRightAt(q, a[0], 0)
    BY <2>1, FS_EmptySet DEF GrepRightAt
  <2> QED
    BY <1>1, <2>2
<1>4. ASSUME NEW k \in 1..n, k - 1 \in T PROVE k \in T
  <2>1. PICK m : m = k - 1 /\ m \in Nat /\ k = m + 1 /\ m \in 0..n /\ m + 1 \in 0..n /\ m + 1 \in 1..Len(q.files)
    BY <1>1
  <2>2. PICK x, y : x = a[m] /\ y = a[m + 1]
    OBVIOUS
  <2>3. y = GrepStep(q, x, m + 1) /\ GrepRightAt(q, x, m) /\ x \in Given(q)
    BY <1>2, <1>4, <2>1, <2>2
  <2>4. GrepRightAt(q, y, m + 1)
    BY <2>1, <2>3, GrepPassed, GrepSearched
  <2> QED
    BY <2>1, <2>2, <2>4
<1> HIDE DEF T
<1>5. \A k \in 0..n : k \in T
  BY <1>1, <1>3, <1>4, UpToInduction
<1>6. GrepRightAt(q, a[n], n) /\ a[n] \in Given(q)
  BY <1>1, <1>2, <1>5 DEF T
<1>7. PICK g : g = GrepAnswer(q) /\ GrepRightAt(q, g, n) /\ g \in Given(q)
  BY <1>2, <1>6
<1>8. Matching(q) = MatchesTo(q, n)
  <2>1. ASSUME NEW p \in Matching(q) PROVE p \in MatchesTo(q, n)
    <3>1. PICK m, k : /\ m \in 1..n /\ k \in 1..Len(q.files[m].lines) /\ Searchable(q.files[m])
                        /\ q.files[m].lines[k] /\ p = <<m, k>>
      BY <1>1 DEF Matching
    <3>2. q.files[m] \in SearchedFile
      BY <1>1, <3>1
    <3>3. Len(q.files[m].lines) \in Nat
      BY <3>2 DEF SearchedFile
    <3>4. p[1] = m /\ p[2] = k /\ p \in (1..n) \X Nat
      BY <3>1, <3>3
    <3> QED
      BY <3>1, <3>4 DEF MatchesTo
  <2>2. ASSUME NEW p \in MatchesTo(q, n) PROVE p \in Matching(q)
    <3>1. p \in (1..n) \X Nat
      BY DEF MatchesTo
    <3>2. PICK m, k : m = p[1] /\ k = p[2] /\ m \in 1..n /\ p = <<m, k>>
      BY <3>1
    <3>3. Searchable(q.files[m]) /\ k \in 1..Len(q.files[m].lines) /\ q.files[m].lines[k]
      BY <3>2 DEF MatchesTo
    <3>4. k \in {l \in 1..Len(q.files[m].lines) : q.files[m].lines[l]} /\ m \in {j \in 1..Len(q.files) : Searchable(q.files[j])}
      BY <1>1, <3>2, <3>3
    <3>5. p \in {<<m, x>> : x \in {l \in 1..Len(q.files[m].lines) : q.files[m].lines[l]}}
      BY <3>2, <3>4
    <3> QED
      BY SMTT(30), <3>4, <3>5 DEF Matching
  <2> QED
    BY <2>1, <2>2
<1>9. PICK given : given = {g.matches[i] : i \in 1..Len(g.matches)}
  OBVIOUS
<1>10. Len(g.matches) \in Nat /\ Len(g.matches) <= q.max /\ \A p : p \in given <=> IsGiven(g, p)
  BY SMTT(30), <1>7, <1>9 DEF Given, IsGiven
<1>11. given \subseteq Matching(q) /\ g.total >= Len(g.matches) /\ (g.truncated <=> Len(g.matches) = q.max)
  BY <1>7, <1>8, <1>9 DEF GrepRightAt
<1>12. ASSUME NEW i \in 2..Len(g.matches) PROVE Before(g.matches[i - 1], g.matches[i])
  <2>1. i - 1 \in 1..Len(g.matches) /\ i \in 1..Len(g.matches) /\ i - 1 < i
    BY <1>10
  <2> QED
    BY <1>7, <2>1 DEF GrepRightAt
<1>13. ASSUME ~q.context, NEW m \in Matching(q) \ given PROVE g.truncated /\ \A p \in given : Before(p, m)
  <2>1. m \in MatchesTo(q, n) /\ ~IsGiven(g, m)
    BY <1>8, <1>10
  <2>2. g.truncated /\ \A i \in 1..Len(g.matches) : Before(g.matches[i], m)
    BY <1>7, <1>13, <2>1 DEF GrepRightAt
  <2> QED
    BY <1>9, <2>2
<1>14. ~q.context /\ ~g.truncated => g.total = Cardinality(Matching(q))
  BY <1>7, <1>8 DEF GrepRightAt
<1> QED
  BY <1>7, <1>9, <1>10, <1>11, <1>12, <1>13, <1>14 DEF GrepRight

-----------------------------------------------------------------------------
(* The editor.                                                             *)

Cursor == [at : SUBSET Nat, next : Nat]
Covered(H, lo, k) == \E h \in H : h <= k /\ k < h + lo

CursorRun(c, old, a) ==
    /\ a[0] = [at |-> {}, next |-> 1] /\ Hits(c, old) = a[Len(c)].at
    /\ \A k \in 1..Len(c) : a[k] = IF k >= a[k - 1].next /\ Occurs(c, old, k)
                             THEN [at |-> a[k - 1].at \cup {k}, next |-> k + Len(old)] ELSE a[k - 1]

LEMMA HitsTrace ==
    ASSUME NEW c, NEW S, c \in Seq(S), NEW old, Len(old) \in Nat
    PROVE  \E a \in [0..Len(c) -> Cursor] : CursorRun(c, old, a)
<1> DEFINE n == Len(c)
           d == [i \in DOMAIN c |-> i]
           begin == [at |-> {}, next |-> 1]
           Out(k, a) == IF k >= a.next /\ Occurs(c, old, k) THEN [at |-> a.at \cup {k}, next |-> k + Len(old)] ELSE a
           P(it) == it = [s \in SUBSET DOMAIN d |-> IF s = {} THEN begin ELSE
                            LET x == Max(s) IN Out(d[x], it[s \ {x}])]
           h == [w \in (1..n) \X Cursor |-> Out(w[1], w[2])]
           Final == CHOOSE it : P(it)
<1>1. n \in Nat /\ DOMAIN d = 1..n /\ \A k \in 1..n : d[k] = k
  OBVIOUS
<1>2. Hits(c, old) = Final[DOMAIN d].at
  BY DEF Hits, FoldLeftDomain, FoldLeft, MapThenFoldSet
<1> HIDE DEF d
<1>3. \A k \in 1..n, a \in Cursor : Out(k, a) \in Cursor
  <2> SUFFICES ASSUME NEW k \in 1..n, NEW a \in Cursor
              PROVE  [at |-> a.at \cup {k}, next |-> k + Len(old)] \in Cursor
    OBVIOUS
  <2>1. k \in Nat /\ k + Len(old) \in Nat
    OBVIOUS
  <2> QED
    BY <2>1 DEF Cursor
<1>0. begin \in Cursor
  BY DEF Cursor
<1>4. h \in [(1..n) \X Cursor -> Cursor] /\ \A k \in 1..n, a \in Cursor : h[<<k, a>>] = Out(k, a)
  BY <1>3
<1> HIDE DEF h, Out, n, begin
<1>5. PICK g \in [SUBSET (1..n) -> Cursor] : FoldsTo(g, n, begin, h)
  BY <1>0, <1>1, <1>4, FoldExists
<1>6. P(g)
  <2>1. ASSUME NEW s \in SUBSET (1..n), s # {} PROVE g[s] = Out(d[Max(s)], g[s \ {Max(s)}])
    <3>1. Max(s) \in 1..n /\ s \ {Max(s)} \in SUBSET (1..n)
      BY <1>1, <2>1, MaxIs
    <3>2. g[s] = h[<<Max(s), g[s \ {Max(s)}]>>]
      BY <1>5, <2>1 DEF FoldsTo
    <3> QED
      BY <1>1, <1>4, <1>5, <3>1, <3>2
  <2>2. g[{}] = begin
    BY <1>5 DEF FoldsTo
  <2> QED
    BY <1>1, <1>5, <2>1, <2>2
<1>7. P(Final)
  BY <1>6
<1> HIDE DEF Final
<1>8. Final[{}] = begin
  BY <1>7
<1>9. ASSUME NEW s \in SUBSET (1..n), s # {}, Final[s \ {Max(s)}] \in Cursor
      PROVE  Final[s] = h[<<Max(s), Final[s \ {Max(s)}]>>]
  <2>1. Max(s) \in 1..n
    BY <1>1, <1>9, MaxIs
  <2>2. Final[s] = Out(Max(s), Final[s \ {Max(s)}])
    BY <1>1, <1>7, <1>9, <2>1
  <2> QED
    BY <1>4, <1>9, <2>1, <2>2
<1>10. TraceOf(Final, n, Cursor, begin, h)
  <2>1. StepsBy(Final, n, Cursor, h)
    BY <1>9 DEF StepsBy
  <2> QED
    BY <1>0, <1>1, <1>4, <1>8, <2>1, FoldTrace
<1>11. PICK a \in [0..n -> Cursor] : /\ a[0] = begin /\ Final[1..n] = a[n]
                                    /\ \A k \in 1..n : a[k] = h[<<k, a[k - 1]>>]
  BY <1>10 DEF TraceOf
<1>12. ASSUME NEW k \in 1..n PROVE a[k - 1] \in Cursor /\ a[k] = Out(k, a[k - 1])
  <2>1. k - 1 \in 0..n
    BY <1>1
  <2>2. a[k - 1] \in Cursor
    BY <1>11, <2>1
  <2>3. h[<<k, a[k - 1]>>] = Out(k, a[k - 1])
    BY <1>4, <2>2
  <2> QED
    BY <1>11, <2>2, <2>3
<1>13. CursorRun(c, old, a)
  BY <1>1, <1>2, <1>11, <1>12 DEF Out, n, begin, CursorRun
<1> QED
  BY <1>11, <1>13 DEF n

ReplacedRun(c, e, a) ==
    /\ a[0] = <<>> /\ Replaced(c, e) = a[Len(c)]
    /\ \A k \in 1..Len(c) : a[k] = IF k \in Hits(c, e.old) THEN a[k - 1] \o e.new
                             ELSE IF Covered(Hits(c, e.old), Len(e.old), k) THEN a[k - 1]
                             ELSE Append(a[k - 1], c[k])

LEMMA ReplacedTrace ==
    ASSUME NEW c, NEW S, c \in Seq(S), NEW e, e.new \in Seq(S)
    PROVE  \E a \in [0..Len(c) -> Seq(S)] : ReplacedRun(c, e, a)
<1> DEFINE n == Len(c)
           d == [i \in DOMAIN c |-> i]
           begin == <<>>
           Out(k, a) == IF k \in Hits(c, e.old) THEN a \o e.new
                        ELSE IF Covered(Hits(c, e.old), Len(e.old), k) THEN a ELSE Append(a, c[k])
           P(it) == it = [s \in SUBSET DOMAIN d |-> IF s = {} THEN begin ELSE
                            LET x == Max(s) IN Out(d[x], it[s \ {x}])]
           h == [w \in (1..n) \X Seq(S) |-> Out(w[1], w[2])]
           Final == CHOOSE it : P(it)
<1>1. n \in Nat /\ DOMAIN d = 1..n /\ \A k \in 1..n : d[k] = k
  OBVIOUS
<1>2. Replaced(c, e) = Final[DOMAIN d]
  BY DEF Replaced, Covered, FoldLeftDomain, FoldLeft, MapThenFoldSet
<1> HIDE DEF d
<1>3. \A k \in 1..n, a \in Seq(S) : Out(k, a) \in Seq(S)
  <2> SUFFICES ASSUME NEW k \in 1..n, NEW a \in Seq(S) PROVE a \o e.new \in Seq(S) /\ Append(a, c[k]) \in Seq(S)
    OBVIOUS
  <2>1. c[k] \in S
    OBVIOUS
  <2> QED
    BY <2>1
<1>0. begin \in Seq(S)
  OBVIOUS
<1>4. h \in [(1..n) \X Seq(S) -> Seq(S)] /\ \A k \in 1..n, a \in Seq(S) : h[<<k, a>>] = Out(k, a)
  BY <1>3
<1> HIDE DEF h, Out, n, begin
<1>5. PICK g \in [SUBSET (1..n) -> Seq(S)] : FoldsTo(g, n, begin, h)
  BY <1>0, <1>1, <1>4, FoldExists
<1>6. P(g)
  <2>1. ASSUME NEW s \in SUBSET (1..n), s # {} PROVE g[s] = Out(d[Max(s)], g[s \ {Max(s)}])
    <3>1. Max(s) \in 1..n /\ s \ {Max(s)} \in SUBSET (1..n)
      BY <1>1, <2>1, MaxIs
    <3>2. g[s] = h[<<Max(s), g[s \ {Max(s)}]>>]
      BY <1>5, <2>1 DEF FoldsTo
    <3> QED
      BY <1>1, <1>4, <1>5, <3>1, <3>2
  <2>2. g[{}] = begin
    BY <1>5 DEF FoldsTo
  <2> QED
    BY <1>1, <1>5, <2>1, <2>2
<1>7. P(Final)
  BY <1>6
<1> HIDE DEF Final
<1>8. Final[{}] = begin
  BY <1>7
<1>9. ASSUME NEW s \in SUBSET (1..n), s # {}, Final[s \ {Max(s)}] \in Seq(S)
      PROVE  Final[s] = h[<<Max(s), Final[s \ {Max(s)}]>>]
  <2>1. Max(s) \in 1..n
    BY <1>1, <1>9, MaxIs
  <2>2. Final[s] = Out(Max(s), Final[s \ {Max(s)}])
    BY <1>1, <1>7, <1>9, <2>1
  <2> QED
    BY <1>4, <1>9, <2>1, <2>2
<1>10. TraceOf(Final, n, Seq(S), begin, h)
  <2>1. StepsBy(Final, n, Seq(S), h)
    BY <1>9 DEF StepsBy
  <2> QED
    BY <1>0, <1>1, <1>4, <1>8, <2>1, FoldTrace
<1>11. PICK a \in [0..n -> Seq(S)] : /\ a[0] = begin /\ Final[1..n] = a[n]
                                    /\ \A k \in 1..n : a[k] = h[<<k, a[k - 1]>>]
  BY <1>10 DEF TraceOf
<1>12. ASSUME NEW k \in 1..n PROVE a[k - 1] \in Seq(S) /\ a[k] = Out(k, a[k - 1])
  <2>1. k - 1 \in 0..n
    BY <1>1
  <2>2. a[k - 1] \in Seq(S)
    BY <1>11, <2>1
  <2>3. h[<<k, a[k - 1]>>] = Out(k, a[k - 1])
    BY <1>4, <2>2
  <2> QED
    BY <1>11, <2>2, <2>3
<1>13. ASSUME NEW k \in 1..n
       PROVE  a[k] = IF k \in Hits(c, e.old) THEN a[k - 1] \o e.new
                     ELSE IF Covered(Hits(c, e.old), Len(e.old), k) THEN a[k - 1] ELSE Append(a[k - 1], c[k])
  BY <1>12 DEF Out
<1>14. a[0] = <<>> /\ Replaced(c, e) = a[n]
  BY <1>1, <1>2, <1>11 DEF begin
<1>15. ReplacedRun(c, e, a)
  BY <1>13, <1>14 DEF n, ReplacedRun
<1> QED
  BY <1>11, <1>15 DEF n

ClearOf(H, lo, k) == \A h \in H : h < k => h + lo <= k

\* H: the occurrences that begin where the one before them has ended.
Greedy(c, old, H) ==
    /\ H \subseteq 1..Len(c)
    /\ \A k \in 1..Len(c) : k \in H <=> Occurs(c, old, k) /\ ClearOf(H, Len(old), k)

HitsAt(c, old, a, k) ==
    /\ a.at \subseteq 1..k /\ (a.next = 1 \/ \E h \in a.at : a.next = h + Len(old))
    /\ \A h \in a.at : h + Len(old) <= a.next
    /\ \A j \in 1..k : j \in a.at <=> Occurs(c, old, j) /\ ClearOf(a.at, Len(old), j)

LEMMA HitsStep ==
    ASSUME NEW c, NEW old, Len(old) \in Nat \ {0}, NEW k \in Nat, NEW a \in Cursor, HitsAt(c, old, a, k),
           NEW b, b = IF k + 1 >= a.next /\ Occurs(c, old, k + 1)
                      THEN [at |-> a.at \cup {k + 1}, next |-> k + 1 + Len(old)] ELSE a
    PROVE  HitsAt(c, old, b, k + 1)
<1>1. PICK lo, H, x : lo = Len(old) /\ H = a.at /\ x = a.next /\ lo \in Nat /\ lo >= 1
  OBVIOUS
<1>2. /\ H \in SUBSET Nat /\ x \in Nat /\ H \subseteq 1..k /\ (x = 1 \/ \E h \in H : x = h + lo)
      /\ \A h \in H : h + lo <= x
  BY <1>1 DEF HitsAt, Cursor
<1>3. \A j \in 1..k : j \in H <=> Occurs(c, old, j) /\ ClearOf(H, lo, j)
  BY <1>1 DEF HitsAt
<1>4. ClearOf(H, lo, k + 1) <=> k + 1 >= x
  <2>1. ASSUME k + 1 >= x, NEW h \in H, h < k + 1 PROVE h + lo <= k + 1
    <3>1. h + lo <= x /\ h \in Nat
      BY <1>2
    <3> QED
      BY <1>1, <1>2, <2>1, <3>1
  <2>2. ASSUME ClearOf(H, lo, k + 1) PROVE k + 1 >= x
    <3>1. CASE x = 1
      BY <3>1
    <3>2. CASE x # 1
      <4>1. PICK h \in H : x = h + lo /\ h < k + 1
        BY <1>2, <3>2
      <4> QED
        BY <1>2, <2>2, <4>1 DEF ClearOf
    <3> QED
      BY <3>1, <3>2
  <2> QED
    BY <2>1, <2>2 DEF ClearOf
<1>5. k + 1 \notin H /\ H \subseteq 1..(k + 1)
  BY <1>2
<1>6. ASSUME NEW j \in 1..(k + 1) PROVE j \in 1..k \/ j = k + 1
  BY <1>6
<1>7. CASE k + 1 >= x /\ Occurs(c, old, k + 1)
  <2>1. PICK G : G = H \cup {k + 1}
    OBVIOUS
  <2>2. b.at = G /\ b.next = k + 1 + lo
    BY <1>1, <1>7, <2>1
  <2>3. ASSUME NEW j \in 1..(k + 1) PROVE ClearOf(G, lo, j) <=> ClearOf(H, lo, j)
    <3>1. ~(k + 1 < j)
      OBVIOUS
    <3> QED
      BY <2>1, <3>1 DEF ClearOf
  <2>4. ASSUME NEW j \in 1..(k + 1) PROVE j \in G <=> Occurs(c, old, j) /\ ClearOf(G, lo, j)
    <3>1. CASE j = k + 1
      BY <1>4, <1>7, <2>1, <2>3, <3>1
    <3>2. CASE j # k + 1
      BY <1>3, <1>6, <2>1, <2>3, <3>2
    <3> QED
      BY <3>1, <3>2
  <2>5. ASSUME NEW h \in G PROVE h + lo <= k + 1 + lo
    <3>1. h \in 1..(k + 1)
      BY <1>5, <2>1
    <3> QED
      BY <1>1, <3>1
  <2>6. G \subseteq 1..(k + 1) /\ k + 1 \in G
    BY <1>5, <2>1
  <2> QED
    BY <1>1, <2>2, <2>4, <2>5, <2>6 DEF HitsAt
<1>8. CASE ~(k + 1 >= x /\ Occurs(c, old, k + 1))
  <2>1. b = a
    BY <1>1, <1>8
  <2>2. ASSUME NEW j \in 1..(k + 1) PROVE j \in H <=> Occurs(c, old, j) /\ ClearOf(H, lo, j)
    <3>1. CASE j = k + 1
      BY <1>4, <1>5, <1>8, <3>1
    <3>2. CASE j # k + 1
      BY <1>3, <1>6, <3>2
    <3> QED
      BY <3>1, <3>2
  <2> QED
    BY <1>1, <1>2, <1>5, <2>1, <2>2 DEF HitsAt
<1> QED
  BY <1>7, <1>8

LEMMA HitsGreedy ==
    ASSUME NEW c, NEW S, c \in Seq(S), NEW old, Len(old) \in Nat \ {0}
    PROVE  Greedy(c, old, Hits(c, old))
<1>1. PICK n : n = Len(c) /\ n \in Nat
  OBVIOUS
<1>2a. PICK a \in [0..Len(c) -> Cursor] : CursorRun(c, old, a)
  BY HitsTrace
<1>2. /\ a \in [0..n -> Cursor] /\ a[0] = [at |-> {}, next |-> 1] /\ Hits(c, old) = a[n].at
      /\ \A k \in 1..n : a[k] = IF k >= a[k - 1].next /\ Occurs(c, old, k)
                                THEN [at |-> a[k - 1].at \cup {k}, next |-> k + Len(old)] ELSE a[k - 1]
  BY <1>1, <1>2a DEF CursorRun
<1> DEFINE T == {k \in 0..n : HitsAt(c, old, a[k], k)}
<1>3. 0 \in T
  <2>1. HitsAt(c, old, a[0], 0)
    BY <1>2 DEF HitsAt
  <2> QED
    BY <1>1, <2>1
<1>4. ASSUME NEW k \in 1..n, k - 1 \in T PROVE k \in T
  <2>1. PICK j : j = k - 1 /\ j \in Nat /\ k = j + 1 /\ j \in 0..n /\ j + 1 \in 0..n
    BY <1>1
  <2>2. HitsAt(c, old, a[j], j) /\ a[j] \in Cursor
    BY <1>2, <1>4, <2>1
  <2>3. a[j + 1] = IF j + 1 >= a[j].next /\ Occurs(c, old, j + 1)
                   THEN [at |-> a[j].at \cup {j + 1}, next |-> j + 1 + Len(old)] ELSE a[j]
    BY <1>2, <2>1
  <2>4. HitsAt(c, old, a[j + 1], j + 1)
    BY <2>1, <2>2, <2>3, HitsStep
  <2> QED
    BY <2>1, <2>4
<1> HIDE DEF T
<1>5. \A k \in 0..n : k \in T
  BY <1>1, <1>3, <1>4, UpToInduction
<1>6. HitsAt(c, old, a[n], n)
  BY <1>1, <1>5 DEF T
<1> QED
  BY <1>1, <1>2, <1>6 DEF HitsAt, Greedy

\* e: how far what was given of the first k symbols reaches.
EndOf(H, lo, k, e) ==
    /\ e \in Nat /\ e >= k /\ (e = k \/ \E h \in H : h <= k /\ e = h + lo - 1)
    /\ \A h \in H : h <= k => h + lo - 1 <= e

EndMove(H, lo, k, e) ==
    /\ k + 1 \in H => e = k /\ EndOf(H, lo, k + 1, k + lo)
    /\ k + 1 \notin H /\ Covered(H, lo, k + 1) => EndOf(H, lo, k + 1, e)
    /\ ~Covered(H, lo, k + 1) => k + 1 \notin H /\ e = k /\ EndOf(H, lo, k + 1, k + 1)

LEMMA EndMoves ==
    ASSUME NEW c, NEW old, Len(c) \in Nat, Len(old) \in Nat \ {0}, NEW H, Greedy(c, old, H),
           NEW k \in Nat, k + 1 \in 1..Len(c), NEW e, EndOf(H, Len(old), k, e)
    PROVE  EndMove(H, Len(old), k, e)
<1>1. PICK lo : lo = Len(old) /\ lo \in Nat /\ lo >= 1
  OBVIOUS
<1>2. \A h \in H : h \in Nat
  BY DEF Greedy
<1>3. /\ e \in Nat /\ e >= k /\ (e = k \/ \E h \in H : h <= k /\ e = h + lo - 1)
      /\ \A h \in H : h <= k => h + lo - 1 <= e
  BY <1>1 DEF EndOf
<1>4. ASSUME k + 1 \in H PROVE e = k /\ EndOf(H, lo, k + 1, k + lo)
  <2>1. ASSUME NEW h \in H, h <= k PROVE h + lo <= k + 1
    <3>1. ClearOf(H, lo, k + 1)
      BY <1>1, <1>4 DEF Greedy
    <3> QED
      BY <1>2, <2>1, <3>1 DEF ClearOf
  <2>2. e = k
    BY <1>1, <1>2, <1>3, <2>1
  <2>3. ASSUME NEW h \in H, h <= k + 1 PROVE h + lo - 1 <= k + lo
    BY <1>1, <1>2, <2>3
  <2>4. k + lo \in Nat /\ k + lo >= k + 1 /\ k + lo = (k + 1) + lo - 1
    BY <1>1
  <2> QED
    BY <1>4, <2>2, <2>3, <2>4 DEF EndOf
<1>5. ASSUME k + 1 \notin H, Covered(H, lo, k + 1) PROVE EndOf(H, lo, k + 1, e)
  <2>1. PICK h \in H : h <= k + 1 /\ k + 1 < h + lo
    BY <1>5 DEF Covered
  <2>2. h <= k /\ k + 1 <= h + lo - 1
    BY <1>1, <1>2, <1>5, <2>1
  <2>3. e >= k + 1
    BY <1>1, <1>2, <1>3, <2>1, <2>2
  <2>4. ASSUME NEW g \in H, g <= k + 1 PROVE g <= k
    BY <1>2, <1>5, <2>4
  <2>5. \E g \in H : g <= k + 1 /\ e = g + lo - 1
    BY <1>2, <1>3, <2>3
  <2> QED
    BY <1>3, <2>3, <2>4, <2>5 DEF EndOf
<1>6. ASSUME ~Covered(H, lo, k + 1) PROVE k + 1 \notin H /\ e = k /\ EndOf(H, lo, k + 1, k + 1)
  <2>1. k + 1 \notin H
    <3>1. k + 1 <= k + 1 /\ k + 1 < (k + 1) + lo
      BY <1>1
    <3> QED
      BY <1>6, <3>1 DEF Covered
  <2>2. ASSUME NEW h \in H, h <= k + 1 PROVE h + lo <= k + 1
    BY <1>1, <1>2, <1>6, <2>2 DEF Covered
  <2>3. e = k
    BY <1>1, <1>2, <1>3, <2>2
  <2>4. ASSUME NEW h \in H, h <= k + 1 PROVE h + lo - 1 <= k + 1
    BY <1>1, <1>2, <2>2, <2>4
  <2>5. k + 1 \in Nat /\ k + 1 >= k + 1
    OBVIOUS
  <2>6. EndOf(H, lo, k + 1, k + 1)
    BY <2>4, <2>5 DEF EndOf
  <2> QED
    BY <2>1, <2>3, <2>6
<1>7. EndMove(H, lo, k, e)
  BY <1>4, <1>5, <1>6 DEF EndMove
<1> QED
  BY <1>1, <1>7

LEMMA EndAtLast ==
    ASSUME NEW c, NEW old, Len(c) \in Nat, Len(old) \in Nat \ {0}, NEW H, Greedy(c, old, H),
           NEW e, EndOf(H, Len(old), Len(c), e)
    PROVE  e = Len(c)
<1>1. e \in Nat /\ e >= Len(c) /\ (e = Len(c) \/ \E h \in H : e = h + Len(old) - 1)
  BY DEF EndOf
<1>2. ASSUME NEW h \in H PROVE h + Len(old) - 1 <= Len(c)
  <2>1. Occurs(c, old, h)
    BY DEF Greedy
  <2> QED
    BY <2>1 DEF Occurs
<1> QED
  BY <1>1, <1>2

\* The occurrences at which the first k symbols were replaced.
FirstHits(H, k) == {h \in H : h <= k}

LEMMA FirstHitsGrow ==
    ASSUME NEW n \in Nat, NEW H \in SUBSET (1..n), NEW k \in Nat
    PROVE  /\ IsFiniteSet(FirstHits(H, k)) /\ Cardinality(FirstHits(H, k)) \in Nat
           /\ k + 1 \notin H => FirstHits(H, k + 1) = FirstHits(H, k)
           /\ k + 1 \in H => Cardinality(FirstHits(H, k + 1)) = Cardinality(FirstHits(H, k)) + 1
<1>1. PICK F : F = FirstHits(H, k)
  OBVIOUS
<1>1a. F = {h \in H : h <= k}
  BY <1>1 DEF FirstHits
<1>2. F \in SUBSET (1..n) /\ \A h \in H : h \in Nat
  <2>1. ASSUME NEW h \in H PROVE h \in 1..n /\ h \in Nat
    <3>1. h \in 1..n
      OBVIOUS
    <3> QED
      BY <3>1
  <2>2. ASSUME NEW h \in F PROVE h \in 1..n
    BY <1>1a, <2>1, <2>2
  <2> QED
    BY <2>1, <2>2
<1>3. IsFiniteSet(F) /\ Cardinality(F) \in Nat
  <2>1. IsFiniteSet(1..n)
    BY FS_Interval
  <2>2. IsFiniteSet(F)
    BY <1>2, <2>1, FS_Subset
  <2> QED
    BY <2>2, FS_CardinalityType
<1>4. ASSUME k + 1 \notin H PROVE FirstHits(H, k + 1) = F
  <2>1. \A h \in H : h <= k + 1 <=> h <= k
    BY <1>2, <1>4
  <2> QED
    BY <1>1a, <2>1 DEF FirstHits
<1>5. ASSUME k + 1 \in H PROVE Cardinality(FirstHits(H, k + 1)) = Cardinality(F) + 1
  <2>1. \A h \in H : h <= k + 1 <=> (h <= k \/ h = k + 1)
    BY <1>2
  <2>2. PICK G : G = {h \in H : h <= k + 1}
    OBVIOUS
  <2>3. G = F \cup {k + 1} /\ k + 1 \notin F
    <3>1. \A h : h \in G <=> h \in H /\ h <= k + 1
      BY <2>2
    <3>2. \A h : h \in F <=> h \in H /\ h <= k
      BY <1>1a
    <3>3. k + 1 <= k + 1 /\ ~(k + 1 <= k)
      OBVIOUS
    <3> HIDE DEF FirstHits
    <3> QED
      BY <1>5, <2>1, <3>1, <3>2, <3>3
  <2>4. FirstHits(H, k + 1) = G
    BY <2>2 DEF FirstHits
  <2> QED
    BY <1>3, <2>3, <2>4, FS_AddElement
<1> QED
  BY <1>1, <1>3, <1>4, <1>5

\* What was given of the first k symbols, p of them with d replacements, is as much longer as those are.
LengthAt(H, lo, ln, k, d, p) == \E e : EndOf(H, lo, k, e) /\ p + d * lo = e + d * ln

LEMMA OneMore == \A d, x \in Nat : (d + 1) * x = d * x + x /\ d * x \in Nat
  OBVIOUS

LEMMA LengthStep ==
    ASSUME NEW H, NEW lo \in Nat, NEW ln \in Nat, NEW k \in Nat, NEW d \in Nat, NEW p \in Nat,
           LengthAt(H, lo, ln, k, d, p), \A e : EndOf(H, lo, k, e) => EndMove(H, lo, k, e)
    PROVE  /\ k + 1 \in H => LengthAt(H, lo, ln, k + 1, d + 1, p + ln)
           /\ k + 1 \notin H /\ Covered(H, lo, k + 1) => LengthAt(H, lo, ln, k + 1, d, p)
           /\ ~Covered(H, lo, k + 1) => LengthAt(H, lo, ln, k + 1, d, p + 1)
<1>1. PICK e : EndOf(H, lo, k, e) /\ p + d * lo = e + d * ln
  BY DEF LengthAt
<1>2. PICK u, v : u = d * lo /\ v = d * ln /\ u \in Nat /\ v \in Nat /\ (d + 1) * lo = u + lo /\ (d + 1) * ln = v + ln
  BY OneMore
<1>3. p + u = e + v
  BY <1>1, <1>2
<1>4. EndMove(H, lo, k, e)
  BY <1>1
<1>5. ASSUME k + 1 \in H PROVE LengthAt(H, lo, ln, k + 1, d + 1, p + ln)
  <2>1. e = k /\ EndOf(H, lo, k + 1, k + lo)
    BY <1>4, <1>5 DEF EndMove
  <2>2. (p + ln) + (u + lo) = (k + lo) + (v + ln)
    BY <1>2, <1>3, <2>1
  <2>3. (p + ln) + (d + 1) * lo = (k + lo) + (d + 1) * ln
    BY <1>2, <2>2
  <2> QED
    BY <2>1, <2>3 DEF LengthAt
<1>6. ASSUME k + 1 \notin H, Covered(H, lo, k + 1) PROVE LengthAt(H, lo, ln, k + 1, d, p)
  BY <1>1, <1>4, <1>6 DEF EndMove, LengthAt
<1>7. ASSUME ~Covered(H, lo, k + 1) PROVE LengthAt(H, lo, ln, k + 1, d, p + 1)
  <2>1. e = k /\ EndOf(H, lo, k + 1, k + 1)
    BY <1>4, <1>7 DEF EndMove
  <2>2. (p + 1) + u = (k + 1) + v
    BY <1>2, <1>3, <2>1
  <2>3. (p + 1) + d * lo = (k + 1) + d * ln
    BY <1>2, <2>2
  <2> QED
    BY <2>1, <2>3 DEF LengthAt
<1> QED
  BY <1>5, <1>6, <1>7

LEMMA ReplacedLength ==
    ASSUME NEW S, NEW c, c \in Seq(S), NEW e, e.old \in Seq(S), e.old # <<>>, e.new \in Seq(S)
    PROVE  /\ Len(Replaced(c, e)) + Count(c, e) * Len(e.old) = Len(c) + Count(c, e) * Len(e.new)
           /\ Replaced(c, e) \in Seq(S)
<1>1. PICK n, lo, ln, H : n = Len(c) /\ lo = Len(e.old) /\ ln = Len(e.new) /\ H = Hits(c, e.old)
  OBVIOUS
<1>2. n \in Nat /\ lo \in Nat \ {0} /\ ln \in Nat
  BY <1>1
<1>3. Greedy(c, e.old, H) /\ H \in SUBSET (1..n)
  <2>1. Greedy(c, e.old, H)
    BY <1>1, <1>2, HitsGreedy
  <2> QED
    BY <1>1, <2>1 DEF Greedy
<1>4. PICK a \in [0..n -> Seq(S)] : ReplacedRun(c, e, a)
  BY <1>1, ReplacedTrace
<1>5. /\ a[0] = <<>> /\ Replaced(c, e) = a[n]
      /\ \A k \in 1..n : a[k] = IF k \in H THEN a[k - 1] \o e.new
                                ELSE IF Covered(H, lo, k) THEN a[k - 1] ELSE Append(a[k - 1], c[k])
  BY <1>1, <1>4 DEF ReplacedRun
<1> DEFINE D(k) == Cardinality(FirstHits(H, k))
           T == {k \in 0..n : LengthAt(H, lo, ln, k, D(k), Len(a[k]))}
<1>6. 0 \in T
  <2>1. \A h \in H : ~(h <= 0)
    BY <1>3
  <2>2. FirstHits(H, 0) = {}
    BY <2>1 DEF FirstHits
  <2>3. D(0) = 0
    BY <2>2, FS_EmptySet
  <2>4. EndOf(H, lo, 0, 0)
    BY <2>1 DEF EndOf
  <2>5. Len(a[0]) = 0 /\ 0 + 0 * lo = 0 + 0 * ln
    BY <1>2, <1>5
  <2>6. LengthAt(H, lo, ln, 0, 0, 0)
    BY <2>4, <2>5 DEF LengthAt
  <2> QED
    BY <1>2, <2>3, <2>5, <2>6
<1>7. ASSUME NEW j \in 1..n, j - 1 \in T PROVE j \in T
  <2>1. PICK k : k = j - 1 /\ k \in Nat /\ j = k + 1 /\ k \in 0..n /\ k + 1 \in 0..n /\ k + 1 \in 1..n
    BY <1>2
  <2>2. PICK x, y : x = a[k] /\ y = a[k + 1] /\ x \in Seq(S)
    BY <2>1
  <2>3. y = IF k + 1 \in H THEN x \o e.new ELSE IF Covered(H, lo, k + 1) THEN x ELSE Append(x, c[k + 1])
    BY <1>5, <2>1, <2>2
  <2>4. D(k) \in Nat /\ D(k + 1) = IF k + 1 \in H THEN D(k) + 1 ELSE D(k)
    BY <1>2, <1>3, <2>1, FirstHitsGrow
  <2>5a. Len(x) \in Nat
    BY <2>2
  <2> HIDE DEF D
  <2>5. PICK d, p : d = D(k) /\ p = Len(x) /\ d \in Nat /\ p \in Nat
    BY <2>4, <2>5a
  <2>6. LengthAt(H, lo, ln, k, d, p)
    BY <1>7, <2>1, <2>2, <2>5
  <2>7. ASSUME NEW z, EndOf(H, lo, k, z) PROVE EndMove(H, lo, k, z)
    <3>1. EndMove(H, Len(e.old), k, z)
      BY <1>1, <1>2, <1>3, <2>1, <2>7, EndMoves
    <3> QED
      BY <1>1, <3>1
  <2> HIDE DEF T
  <2>8. /\ k + 1 \in H => LengthAt(H, lo, ln, k + 1, d + 1, p + ln)
        /\ k + 1 \notin H /\ Covered(H, lo, k + 1) => LengthAt(H, lo, ln, k + 1, d, p)
        /\ ~Covered(H, lo, k + 1) => LengthAt(H, lo, ln, k + 1, d, p + 1)
    BY <1>2, <2>1, <2>5, <2>6, <2>7, LengthStep
  <2>9. Len(y) = IF k + 1 \in H THEN p + ln ELSE IF Covered(H, lo, k + 1) THEN p ELSE p + 1
    <3>1. c[k + 1] \in S
      BY <1>1, <2>1
    <3>2. Len(x \o e.new) = p + ln /\ Len(Append(x, c[k + 1])) = p + 1
      BY <1>1, <2>2, <2>5, <3>1, ConcatProperties, AppendProperties
    <3> QED
      BY <2>3, <2>5, <3>2
  <2>10. ~Covered(H, lo, k + 1) => k + 1 \notin H
    <3>1. k + 1 <= k + 1 /\ k + 1 < (k + 1) + lo
      BY <1>2, <2>1
    <3> QED
      BY <3>1 DEF Covered
  <2>11. LengthAt(H, lo, ln, k + 1, D(k + 1), Len(y))
    BY <2>4, <2>5, <2>8, <2>9, <2>10
  <2> QED
    BY <2>1, <2>2, <2>11 DEF T
<1> HIDE DEF T
<1>8. \A k \in 0..n : k \in T
  BY <1>2, <1>6, <1>7, UpToInduction
<1>9. LengthAt(H, lo, ln, n, D(n), Len(a[n])) /\ a[n] \in Seq(S)
  BY <1>2, <1>4, <1>8 DEF T
<1>10. PICK z : EndOf(H, lo, n, z) /\ Len(a[n]) + D(n) * lo = z + D(n) * ln
  BY <1>9 DEF LengthAt
<1>11. z = n
  <2>1. EndOf(H, Len(e.old), Len(c), z)
    BY <1>1, <1>10
  <2> QED
    BY <1>1, <1>2, <1>3, <2>1, EndAtLast
<1>12. D(n) = Count(c, e)
  <2>1. \A h \in H : h <= n
    BY <1>2, <1>3
  <2>2. FirstHits(H, n) = H
    BY <2>1 DEF FirstHits
  <2> QED
    BY <1>1, <2>2 DEF Count
<1> HIDE DEF D
<1> QED
  BY <1>1, <1>5, <1>9, <1>10, <1>11, <1>12

PrefixOf(f, g) == Len(f) <= Len(g) /\ \A i \in 1..Len(f) : g[i] = f[i]

LEMMA StepsArePrefixes ==
    ASSUME NEW n \in Nat, NEW S, NEW a \in [0..n -> Seq(S)], \A k \in 1..n : PrefixOf(a[k - 1], a[k])
    PROVE  \A k \in 0..n : PrefixOf(a[k], a[n])
<1> DEFINE T == {m \in 0..n : \A k \in 0..m : PrefixOf(a[k], a[m])}
<1>0. \A k \in 0..n : Len(a[k]) \in Nat
  OBVIOUS
<1>1. ASSUME NEW m \in 0..n PROVE PrefixOf(a[m], a[m])
  BY <1>0 DEF PrefixOf
<1>2. 0 \in T
  <2>1. \A k \in 0..0 : k = 0
    OBVIOUS
  <2> QED
    BY <1>1, <2>1
<1>3. ASSUME NEW j \in 1..n, j - 1 \in T PROVE j \in T
  <2>1. PICK m : m = j - 1 /\ m \in Nat /\ m \in 0..n /\ m + 1 = j /\ j \in 0..n
    OBVIOUS
  <2>2. ASSUME NEW k \in 0..j PROVE PrefixOf(a[k], a[j])
    <3>1. CASE k = j
      BY <1>1, <2>1, <3>1
    <3>2. CASE k # j
      <4>1. k \in 0..m /\ k \in 0..n
        BY <2>1, <3>2
      <4>2. PrefixOf(a[k], a[m]) /\ PrefixOf(a[m], a[j])
        BY <1>3, <2>1, <4>1
      <4>3. PICK x, y, z : x = Len(a[k]) /\ y = Len(a[m]) /\ z = Len(a[j]) /\ x \in Nat /\ y \in Nat /\ z \in Nat
        BY <1>0, <2>1, <4>1
      <4>4. x <= y /\ y <= z /\ (\A i \in 1..x : a[m][i] = a[k][i]) /\ (\A i \in 1..y : a[j][i] = a[m][i])
        BY <4>2, <4>3 DEF PrefixOf
      <4>5. x <= z /\ \A i \in 1..x : a[j][i] = a[k][i]
        BY <4>3, <4>4
      <4> QED
        BY <4>3, <4>5 DEF PrefixOf
    <3> QED
      BY <3>1, <3>2
  <2> QED
    BY <2>1, <2>2
<1> HIDE DEF T
<1>4. \A k \in 0..n : k \in T
  BY <1>2, <1>3, UpToInduction
<1>5. n \in T
  BY <1>4
<1> QED
  BY <1>5 DEF T

LEMMA SeqOfUnion == \A A, B : \A f : f \in Seq(A) \/ f \in Seq(B) => f \in Seq(A \cup B)
<1> SUFFICES ASSUME NEW A, NEW B, NEW f, f \in Seq(A) \/ f \in Seq(B) PROVE f \in Seq(A \cup B)
  OBVIOUS
<1>1. CASE f \in Seq(A)
  <2>1. Len(f) \in Nat /\ \A i \in 1..Len(f) : f[i] \in A \cup B
    BY <1>1
  <2>2. f \in [1..Len(f) -> A \cup B]
    BY <1>1, <2>1
  <2> QED
    BY <2>1, <2>2
<1>2. CASE f \in Seq(B)
  <2>1. Len(f) \in Nat /\ \A i \in 1..Len(f) : f[i] \in A \cup B
    BY <1>2
  <2>2. f \in [1..Len(f) -> A \cup B]
    BY <1>2, <2>1
  <2> QED
    BY <2>1, <2>2
<1> QED
  BY <1>1, <1>2

\* out is what was made of c on the way a; b is the way back.
Undoing(c, old, new, A, B, H, G, out, a, b) ==
    /\ c \in Seq(A) /\ old \in Seq(A) /\ new \in Seq(B) /\ A \cap B = {} /\ old # <<>> /\ new # <<>>
    /\ out \in Seq(A \cup B) /\ Greedy(c, old, H) /\ Greedy(out, new, G)
    /\ a \in [0..Len(c) -> Seq(A \cup B)] /\ \A k \in 0..Len(c) : PrefixOf(a[k], out)
    /\ \A k \in 1..Len(c) : a[k] = IF k \in H THEN a[k - 1] \o new
                                   ELSE IF Covered(H, Len(old), k) THEN a[k - 1] ELSE Append(a[k - 1], c[k])
    /\ \A j \in 1..Len(out) : b[j] = IF j \in G THEN b[j - 1] \o old
                                     ELSE IF Covered(G, Len(new), j) THEN b[j - 1] ELSE Append(b[j - 1], out[j])

\* p symbols were made of the first k: back from there is c as far as it was replaced.
UndoneAt(c, old, new, H, G, b, p, k) ==
    \E e : /\ EndOf(H, Len(old), k, e) /\ b[p] = SubSeq(c, 1, e)
           /\ \A j \in G : j <= p => j + Len(new) <= p + 1

LEMMA UndoneBlock ==
    ASSUME NEW c, NEW old, NEW new, NEW A, NEW B, NEW H, NEW G, NEW out, NEW a, NEW b,
           Undoing(c, old, new, A, B, H, G, out, a, b), NEW k \in Nat, k + 1 \in 1..Len(c), k + 1 \in H,
           UndoneAt(c, old, new, H, G, b, Len(a[k]), k)
    PROVE  UndoneAt(c, old, new, H, G, b, Len(a[k + 1]), k + 1)
<1>1. PICK n, m, lo, ln, x, y, p : /\ n = Len(c) /\ m = Len(out) /\ lo = Len(old) /\ ln = Len(new)
                                   /\ x = a[k] /\ y = a[k + 1] /\ p = Len(x)
  OBVIOUS
<1>2. /\ c \in Seq(A) /\ old \in Seq(A) /\ new \in Seq(B) /\ out \in Seq(A \cup B) /\ new \in Seq(A \cup B)
      /\ Greedy(c, old, H) /\ Greedy(out, new, G) /\ old # <<>> /\ new # <<>>
  BY SeqOfUnion DEF Undoing
<1>3. n \in Nat /\ m \in Nat /\ lo \in Nat /\ lo >= 1 /\ ln \in Nat /\ ln >= 1
  BY <1>1, <1>2
<1>4. x \in Seq(A \cup B) /\ y \in Seq(A \cup B) /\ PrefixOf(y, out) /\ p \in Nat
  <2>1. k \in 0..Len(c) /\ k + 1 \in 0..Len(c)
    BY <1>1, <1>3
  <2>2. a \in [0..Len(c) -> Seq(A \cup B)] /\ \A j \in 0..Len(c) : PrefixOf(a[j], out)
    BY DEF Undoing
  <2>3. x \in Seq(A \cup B) /\ y \in Seq(A \cup B) /\ PrefixOf(y, out)
    BY <1>1, <2>1, <2>2
  <2> QED
    BY <1>1, <2>3
<1>5. y = x \o new
  <2>1. (k + 1) - 1 = k
    OBVIOUS
  <2> QED
    BY <1>1, <2>1 DEF Undoing
<1>6. Len(y) = p + ln /\ \A i \in 1..ln : y[p + i] = new[i]
  <2>1. Len(y) = p + ln /\ \A i \in 1..(p + ln) : y[i] = IF i <= p THEN x[i] ELSE new[i - p]
    BY <1>1, <1>2, <1>4, <1>5, ConcatProperties
  <2>2. ASSUME NEW i \in 1..ln PROVE y[p + i] = new[i]
    <3>1. p + i \in 1..(p + ln) /\ ~(p + i <= p) /\ (p + i) - p = i
      BY <1>3, <1>4
    <3> QED
      BY <2>1, <3>1
  <2> QED
    BY <2>1, <2>2
<1>7. p + ln <= m /\ \A i \in 1..ln : out[p + i] = new[i]
  <2>1. p + ln <= m /\ \A i \in 1..(p + ln) : out[i] = y[i]
    BY <1>1, <1>4, <1>6 DEF PrefixOf
  <2>2. \A i \in 1..ln : p + i \in 1..(p + ln)
    BY <1>3, <1>4
  <2> QED
    BY <1>6, <2>1, <2>2
<1>8. Occurs(out, new, p + 1)
  <2>1. PICK g : g = SubSeq(out, p + 1, p + ln)
    OBVIOUS
  <2>2. p + 1 \in Int /\ p + ln \in Int /\ \A i \in (p + 1)..(p + ln) : out[i] \in A \cup B
    <3>1. \A i \in (p + 1)..(p + ln) : i \in 1..m
      BY <1>3, <1>4, <1>7
    <3> QED
      BY <1>1, <1>2, <1>3, <1>4, <3>1
  <2>3. /\ g \in Seq(A \cup B) /\ Len(g) = IF p + 1 <= p + ln THEN (p + ln) - (p + 1) + 1 ELSE 0
        /\ \A i \in 1..((p + ln) - (p + 1) + 1) : g[i] = out[(p + 1) + i - 1]
    BY SMTT(30), <2>1, <2>2, SubSeqProperties
  <2>4. (p + ln) - (p + 1) + 1 = ln /\ p + 1 <= p + ln /\ \A i \in 1..ln : (p + 1) + i - 1 = p + i
    BY <1>3, <1>4
  <2>5. Len(g) = ln /\ \A i \in 1..ln : g[i] = out[p + i]
    BY <2>3, <2>4
  <2>6. g = new
    <3>1. Len(g) = Len(new) /\ \A i \in 1..Len(g) : g[i] = new[i]
      BY <1>1, <1>7, <2>5
    <3> QED
      BY <1>2, <2>3, <3>1, SeqEqual
  <2>7. (p + 1) + ln - 1 = p + ln
    BY <1>3, <1>4
  <2> QED
    BY <1>1, <1>7, <2>1, <2>6, <2>7 DEF Occurs
<1>9. PICK e : EndOf(H, lo, k, e) /\ b[p] = SubSeq(c, 1, e) /\ \A j \in G : j <= p => j + ln <= p + 1
  BY <1>1 DEF UndoneAt
<1>10. G \subseteq 1..m /\ \A j \in 1..m : j \in G <=> Occurs(out, new, j) /\ ClearOf(G, ln, j)
  BY <1>1, <1>2 DEF Greedy
<1>11. \A j \in G : j \in Nat
  BY <1>10
<1>12. p + 1 \in G
  <2>1. ClearOf(G, ln, p + 1)
    BY <1>4, <1>9, <1>11 DEF ClearOf
  <2>2. p + 1 \in 1..m
    BY <1>3, <1>4, <1>7
  <2> QED
    BY <1>8, <1>10, <2>1, <2>2
<1>13. ASSUME NEW i \in 2..ln PROVE p + i \notin G /\ Covered(G, ln, p + i)
  <2>1. p + 1 < p + i /\ ~(p + 1 + ln <= p + i) /\ p + 1 <= p + i /\ p + i < p + 1 + ln /\ p + i \in 1..m
    BY SMTT(30), <1>3, <1>4, <1>7
  <2>2. ~ClearOf(G, ln, p + i)
    BY <1>12, <2>1 DEF ClearOf
  <2> QED
    BY <1>10, <1>12, <2>1, <2>2 DEF Covered
<1>14. e = k /\ EndOf(H, lo, k + 1, k + lo)
  <2>1. EndMove(H, lo, k, e)
    <3>1. EndMove(H, Len(old), k, e)
      BY <1>1, <1>2, <1>3, <1>9, EndMoves
    <3> QED
      BY <1>1, <3>1
  <2> QED
    BY <2>1 DEF EndMove
<1>15. k + lo <= n /\ SubSeq(c, k + 1, k + lo) = old
  <2>1. Occurs(c, old, k + 1)
    BY <1>2 DEF Greedy
  <2>2. (k + 1) + lo - 1 = k + lo
    BY <1>3
  <2> QED
    BY <1>1, <2>1, <2>2 DEF Occurs
<1>16. SubSeq(c, 1, k) \o old = SubSeq(c, 1, k + lo)
  <2>1. 1 \in 1..(Len(c) + 1) /\ k \in (1 - 1)..Len(c) /\ k + lo \in k..Len(c)
    BY <1>1, <1>3, <1>15
  <2>2. SubSeq(c, 1, k) \o SubSeq(c, k + 1, k + lo) = SubSeq(c, 1, k + lo)
    BY <1>2, <2>1, ConcatAdjacentSubSeq
  <2> QED
    BY <1>15, <2>2
<1>17. ASSUME NEW j \in 1..m
       PROVE  b[j] = IF j \in G THEN b[j - 1] \o old ELSE IF Covered(G, ln, j) THEN b[j - 1] ELSE Append(b[j - 1], out[j])
  BY <1>1 DEF Undoing
<1> DEFINE T == {i \in 0..ln : i = 0 \/ b[p + i] = SubSeq(c, 1, k + lo)}
<1>18. 0 \in T
  BY <1>3
<1>19. ASSUME NEW i \in 1..ln, i - 1 \in T PROVE i \in T
  <2>1. p + i \in 1..m /\ (p + i) - 1 = p + (i - 1) /\ i \in 0..ln
    BY <1>3, <1>4, <1>7
  <2>2. CASE i = 1
    <3>1. p + 1 \in 1..m /\ (p + 1) - 1 = p
      BY <1>4, <2>1, <2>2
    <3>2. b[p + 1] = b[p] \o old
      BY <1>12, <1>17, <3>1
    <3> QED
      BY <1>9, <1>14, <1>16, <2>1, <2>2, <3>2
  <2>3. CASE i # 1
    <3>1. i \in 2..ln /\ i - 1 # 0
      BY <1>3, <2>3
    <3>2. b[p + i] = b[(p + i) - 1]
      BY <1>13, <1>17, <2>1, <3>1
    <3> QED
      BY <1>19, <2>1, <3>1, <3>2
  <2> QED
    BY <2>2, <2>3
<1> HIDE DEF T
<1>20. \A i \in 0..ln : i \in T
  BY <1>3, <1>18, <1>19, UpToInduction
<1>21. b[p + ln] = SubSeq(c, 1, k + lo)
  <2>1. ln \in 0..ln /\ ln # 0
    BY <1>3
  <2> QED
    BY <1>20, <2>1 DEF T
<1>22. ASSUME NEW j \in G, j <= p + ln PROVE j + ln <= (p + ln) + 1
  <2>1. CASE j <= p
    BY <1>3, <1>4, <1>9, <1>11, <2>1
  <2>2. CASE j = p + 1
    BY <1>3, <1>4, <2>2
  <2>3. CASE j > p + 1
    <3>1. PICK i : i = j - p
      OBVIOUS
    <3>2. i \in 2..ln /\ j = p + i
      BY SMTT(30), <1>3, <1>4, <1>11, <1>22, <2>3, <3>1
    <3> QED
      BY <1>13, <3>2
  <2>4. j <= p \/ j = p + 1 \/ j > p + 1
    BY <1>4, <1>11
  <2> QED
    BY <2>1, <2>2, <2>3, <2>4
<1> QED
  BY <1>1, <1>6, <1>14, <1>21, <1>22 DEF UndoneAt

LEMMA UndoneInside ==
    ASSUME NEW c, NEW old, NEW new, NEW A, NEW B, NEW H, NEW G, NEW out, NEW a, NEW b,
           Undoing(c, old, new, A, B, H, G, out, a, b), NEW k \in Nat, k + 1 \in 1..Len(c),
           k + 1 \notin H, Covered(H, Len(old), k + 1), UndoneAt(c, old, new, H, G, b, Len(a[k]), k)
    PROVE  UndoneAt(c, old, new, H, G, b, Len(a[k + 1]), k + 1)
<1>1. (k + 1) - 1 = k
  OBVIOUS
<1>2. a[k + 1] = a[k]
  BY <1>1 DEF Undoing
<1>3. PICK e : /\ EndOf(H, Len(old), k, e) /\ b[Len(a[k])] = SubSeq(c, 1, e)
               /\ \A j \in G : j <= Len(a[k]) => j + Len(new) <= Len(a[k]) + 1
  BY DEF UndoneAt
<1>4. EndOf(H, Len(old), k + 1, e)
  <2>1. Len(c) \in Nat /\ Len(old) \in Nat \ {0} /\ Greedy(c, old, H)
    BY DEF Undoing
  <2>2. EndMove(H, Len(old), k, e)
    BY <1>3, <2>1, EndMoves
  <2> QED
    BY <2>2 DEF EndMove
<1> QED
  BY <1>2, <1>3, <1>4 DEF UndoneAt

LEMMA UndonePlain ==
    ASSUME NEW c, NEW old, NEW new, NEW A, NEW B, NEW H, NEW G, NEW out, NEW a, NEW b,
           Undoing(c, old, new, A, B, H, G, out, a, b), NEW k \in Nat, k + 1 \in 1..Len(c),
           ~Covered(H, Len(old), k + 1), UndoneAt(c, old, new, H, G, b, Len(a[k]), k)
    PROVE  UndoneAt(c, old, new, H, G, b, Len(a[k + 1]), k + 1)
<1>1. PICK n, m, lo, ln, x, y, p : /\ n = Len(c) /\ m = Len(out) /\ lo = Len(old) /\ ln = Len(new)
                                   /\ x = a[k] /\ y = a[k + 1] /\ p = Len(x)
  OBVIOUS
<1>2. /\ c \in Seq(A) /\ old \in Seq(A) /\ new \in Seq(B) /\ out \in Seq(A \cup B) /\ A \cap B = {}
      /\ Greedy(c, old, H) /\ Greedy(out, new, G) /\ old # <<>> /\ new # <<>>
  BY DEF Undoing
<1>3. n \in Nat /\ m \in Nat /\ lo \in Nat /\ lo >= 1 /\ ln \in Nat /\ ln >= 1
  BY <1>1, <1>2
<1>4. x \in Seq(A \cup B) /\ y \in Seq(A \cup B) /\ PrefixOf(y, out) /\ p \in Nat
  <2>1. k \in 0..Len(c) /\ k + 1 \in 0..Len(c)
    BY <1>1, <1>3
  <2>2. a \in [0..Len(c) -> Seq(A \cup B)] /\ \A j \in 0..Len(c) : PrefixOf(a[j], out)
    BY DEF Undoing
  <2>3. x \in Seq(A \cup B) /\ y \in Seq(A \cup B) /\ PrefixOf(y, out)
    BY <1>1, <2>1, <2>2
  <2> QED
    BY <1>1, <2>3
<1>5. PICK e : EndOf(H, lo, k, e) /\ b[p] = SubSeq(c, 1, e) /\ \A j \in G : j <= p => j + ln <= p + 1
  BY <1>1 DEF UndoneAt
<1>6. k + 1 \notin H /\ e = k /\ EndOf(H, lo, k + 1, k + 1)
  <2>1. EndMove(H, Len(old), k, e)
    BY <1>1, <1>2, <1>3, <1>5, EndMoves
  <2> QED
    BY <1>1, <2>1 DEF EndMove
<1>7. c[k + 1] \in A /\ y = Append(x, c[k + 1])
  <2>1. (k + 1) - 1 = k
    OBVIOUS
  <2>2. y = Append(x, c[k + 1])
    BY <1>1, <1>6, <2>1 DEF Undoing
  <2> QED
    BY <1>2, <2>2
<1>8. p + 1 \in 1..m /\ out[p + 1] = c[k + 1] /\ Len(y) = p + 1
  <2>1. c[k + 1] \in A \cup B
    BY <1>7
  <2>2. Len(y) = p + 1 /\ y[p + 1] = c[k + 1]
    BY <1>1, <1>4, <1>7, <2>1, AppendProperties
  <2>3. p + 1 <= m /\ \A i \in 1..(p + 1) : out[i] = y[i]
    BY <1>1, <1>4, <2>2 DEF PrefixOf
  <2>4. p + 1 \in 1..m /\ p + 1 \in 1..(p + 1)
    BY <1>3, <1>4, <2>3
  <2> QED
    BY <2>2, <2>3, <2>4
<1>9. G \subseteq 1..m /\ \A j \in 1..m : j \in G <=> Occurs(out, new, j) /\ ClearOf(G, ln, j)
  BY <1>1, <1>2 DEF Greedy
<1>10. \A j \in G : j \in Nat
  BY <1>9
<1>11. p + 1 \notin G
  <2>1. SUFFICES ASSUME p + 1 \in G PROVE FALSE
    OBVIOUS
  <2>2. PICK g : g = SubSeq(out, p + 1, p + ln)
    OBVIOUS
  <2>3. (p + 1) + ln - 1 = p + ln
    BY <1>3, <1>4
  <2>4. p + ln <= m /\ g = new
    <3>1. Occurs(out, new, p + 1)
      BY <1>8, <1>9, <2>1
    <3> QED
      BY <1>1, <2>2, <2>3, <3>1 DEF Occurs
  <2>5. p + 1 \in Int /\ p + ln \in Int /\ \A i \in (p + 1)..(p + ln) : out[i] \in A \cup B
    <3>1. \A i \in (p + 1)..(p + ln) : i \in 1..m
      BY <1>3, <1>4, <2>4
    <3> QED
      BY <1>1, <1>2, <1>3, <1>4, <3>1
  <2>6. \A i \in 1..((p + ln) - (p + 1) + 1) : g[i] = out[(p + 1) + i - 1]
    BY <2>2, <2>5, SubSeqProperties
  <2>7. 1 \in 1..((p + ln) - (p + 1) + 1) /\ (p + 1) + 1 - 1 = p + 1 /\ 1 \in 1..ln
    BY <1>3, <1>4
  <2>8. new[1] = out[p + 1]
    BY <2>4, <2>6, <2>7
  <2>9. new[1] \in B
    BY <1>1, <1>2, <2>7
  <2> QED
    BY <1>2, <1>7, <1>8, <2>8, <2>9
<1>12. ASSUME NEW h \in G, h <= p + 1 PROVE h + ln <= p + 1
  <2>1. h <= p
    BY <1>4, <1>10, <1>11, <1>12
  <2> QED
    BY <1>5, <2>1
<1>13. ~Covered(G, ln, p + 1)
  <2>1. \A h \in G : h <= p + 1 => ~(p + 1 < h + ln)
    BY <1>3, <1>4, <1>10, <1>12
  <2> QED
    BY <2>1 DEF Covered
<1>14. b[p + 1] = Append(b[p], out[p + 1])
  <2>1. (p + 1) - 1 = p
    BY <1>4
  <2>2. \A j \in 1..m : b[j] = IF j \in G THEN b[j - 1] \o old
                               ELSE IF Covered(G, ln, j) THEN b[j - 1] ELSE Append(b[j - 1], out[j])
    BY <1>1 DEF Undoing
  <2>3. b[p + 1] = Append(b[(p + 1) - 1], out[p + 1])
    BY <1>8, <1>11, <1>13, <2>2
  <2> QED
    BY <2>1, <2>3
<1>15. Append(SubSeq(c, 1, k), c[k + 1]) = SubSeq(c, 1, k + 1)
  <2>1. 1 \in 1..Len(c) /\ k + 1 \in 1..Len(c) /\ (k + 1) - 1 = k
    BY <1>1, <1>3
  <2>2. SubSeq(c, 1, k + 1) = SubSeq(c, 1, k) \o <<c[k + 1]>>
    BY <1>2, <2>1, SubSeqRecursiveSecond
  <2>3. SubSeq(c, 1, k) \in Seq(A)
    <3>1. \A i \in 1..k : c[i] \in A
      BY <1>2, <2>1
    <3> QED
      BY <3>1, SubSeqProperties
  <2> QED
    BY <1>7, <2>2, <2>3, AppendIsConcat
<1>16. \A j \in G : j <= p + 1 => j + ln <= (p + 1) + 1
  BY <1>3, <1>4, <1>10, <1>12
<1>17. b[p + 1] = SubSeq(c, 1, k + 1)
  BY <1>5, <1>6, <1>8, <1>14, <1>15
<1> QED
  BY <1>1, <1>6, <1>8, <1>16, <1>17 DEF UndoneAt

\* What was replaced by other symbols can be put back.
LEMMA ReplacedUndone ==
    ASSUME NEW A, NEW B, A \cap B = {}, NEW c, c \in Seq(A), NEW e, e.old \in Seq(A), e.old # <<>>,
           e.new \in Seq(B), e.new # <<>>, NEW u, u.old = e.new, u.new = e.old
    PROVE  Replaced(Replaced(c, e), u) = c
<1>1. PICK S, old, new, out, n, H, G : /\ S = A \cup B /\ old = e.old /\ new = e.new /\ out = Replaced(c, e)
                                       /\ n = Len(c) /\ H = Hits(c, old) /\ G = Hits(out, new)
  OBVIOUS
<1>2. c \in Seq(S) /\ old \in Seq(S) /\ new \in Seq(S) /\ n \in Nat
  BY <1>1, SeqOfUnion
<1>3. Len(old) \in Nat \ {0} /\ Len(new) \in Nat \ {0}
  BY <1>1, <1>2
<1>4. out \in Seq(S) /\ Len(out) \in Nat
  BY <1>1, <1>2, ReplacedLength
<1>5. Greedy(c, old, H) /\ Greedy(out, new, G)
  BY <1>1, <1>2, <1>3, <1>4, HitsGreedy
<1>6. PICK a \in [0..Len(c) -> Seq(S)] : ReplacedRun(c, e, a)
  BY <1>1, <1>2, ReplacedTrace
<1>7. /\ a[0] = <<>> /\ out = a[n]
      /\ \A k \in 1..n : a[k] = IF k \in H THEN a[k - 1] \o new
                                ELSE IF Covered(H, Len(old), k) THEN a[k - 1] ELSE Append(a[k - 1], c[k])
  BY <1>1, <1>6 DEF ReplacedRun
<1>8. PICK b \in [0..Len(out) -> Seq(S)] : ReplacedRun(out, u, b)
  BY <1>1, <1>2, <1>4, ReplacedTrace
<1>9. /\ b[0] = <<>> /\ Replaced(out, u) = b[Len(out)]
      /\ \A j \in 1..Len(out) : b[j] = IF j \in G THEN b[j - 1] \o old
                                       ELSE IF Covered(G, Len(new), j) THEN b[j - 1] ELSE Append(b[j - 1], out[j])
  BY <1>1, <1>8 DEF ReplacedRun
<1>10. \A k \in 0..n : PrefixOf(a[k], out)
  <2>1. ASSUME NEW k \in 1..n PROVE PrefixOf(a[k - 1], a[k])
    <3>1. k - 1 \in 0..n /\ c[k] \in S
      BY <1>1, <1>2
    <3>2. PICK x, y : x = a[k - 1] /\ y = a[k] /\ x \in Seq(S)
      BY <1>1, <1>6, <3>1
    <3>3. Len(x) \in Nat /\ Len(new) \in Nat
      BY <1>3, <3>2
    <3>4. CASE y = x \o new
      <4>1. Len(y) = Len(x) + Len(new) /\ \A i \in 1..(Len(x) + Len(new)) : y[i] = IF i <= Len(x) THEN x[i] ELSE new[i - Len(x)]
        BY <1>2, <3>2, <3>4, ConcatProperties
      <4>2. Len(x) <= Len(y) /\ \A i \in 1..Len(x) : i \in 1..(Len(x) + Len(new)) /\ i <= Len(x)
        BY <3>3, <4>1
      <4> QED
        BY <3>2, <4>1, <4>2 DEF PrefixOf
    <3>5. CASE y = x
      BY <3>2, <3>3, <3>5 DEF PrefixOf
    <3>6. CASE y = Append(x, c[k])
      <4>1. Len(y) = Len(x) + 1 /\ \A i \in 1..Len(x) : y[i] = x[i]
        BY <3>1, <3>2, <3>6, AppendProperties
      <4> QED
        BY SMTT(30), <3>2, <3>3, <4>1 DEF PrefixOf
    <3> QED
      BY <1>7, <3>2, <3>4, <3>5, <3>6
  <2>2. a \in [0..n -> Seq(S)]
    BY <1>1, <1>6
  <2> QED
    BY <1>2, <1>7, <2>1, <2>2, StepsArePrefixes
<1>11. Undoing(c, old, new, A, B, H, G, out, a, b)
  BY <1>1, <1>4, <1>5, <1>6, <1>7, <1>9, <1>10 DEF Undoing
<1> DEFINE T == {k \in 0..n : UndoneAt(c, old, new, H, G, b, Len(a[k]), k)}
<1>12. 0 \in T
  <2>1. Len(a[0]) = 0 /\ SubSeq(c, 1, 0) = <<>>
    BY <1>7, SubSeqEmpty
  <2>2. \A h \in H : ~(h <= 0)
    BY <1>5 DEF Greedy
  <2>3. \A j \in G : ~(j <= 0)
    BY <1>5 DEF Greedy
  <2>4. EndOf(H, Len(old), 0, 0)
    BY <2>2 DEF EndOf
  <2>5. UndoneAt(c, old, new, H, G, b, 0, 0)
    BY <1>9, <2>1, <2>3, <2>4 DEF UndoneAt
  <2> QED
    BY <1>2, <2>1, <2>5
<1>13. ASSUME NEW j \in 1..n, j - 1 \in T PROVE j \in T
  <2>1. PICK k : k = j - 1 /\ k \in Nat /\ j = k + 1 /\ k + 1 \in 0..n /\ k + 1 \in 1..Len(c)
    BY <1>1, <1>2
  <2>2. UndoneAt(c, old, new, H, G, b, Len(a[k]), k)
    BY <1>13, <2>1
  <2>3. k + 1 \in H => Covered(H, Len(old), k + 1)
    <3>1. k + 1 <= k + 1 /\ k + 1 < (k + 1) + Len(old)
      BY <1>3, <2>1
    <3> QED
      BY <3>1 DEF Covered
  <2>4. UndoneAt(c, old, new, H, G, b, Len(a[k + 1]), k + 1)
    <3>1. CASE k + 1 \in H
      BY <1>11, <2>1, <2>2, <3>1, UndoneBlock
    <3>2. CASE k + 1 \notin H /\ Covered(H, Len(old), k + 1)
      BY <1>11, <2>1, <2>2, <3>2, UndoneInside
    <3>3. CASE ~Covered(H, Len(old), k + 1)
      BY <1>11, <2>1, <2>2, <3>3, UndonePlain
    <3> QED
      BY <3>1, <3>2, <3>3
  <2> QED
    BY <2>1, <2>4
<1> HIDE DEF T
<1>14. \A k \in 0..n : k \in T
  BY <1>2, <1>12, <1>13, UpToInduction
<1>15. UndoneAt(c, old, new, H, G, b, Len(a[n]), n)
  BY <1>2, <1>14 DEF T
<1>16. PICK z : EndOf(H, Len(old), n, z) /\ b[Len(out)] = SubSeq(c, 1, z)
  BY <1>7, <1>15 DEF UndoneAt
<1>17. z = n
  BY <1>1, <1>2, <1>3, <1>5, <1>16, EndAtLast
<1> QED
  BY <1>1, <1>9, <1>16, <1>17, SubSeqFull

LEMMA OneEdit ==
    ASSUME NEW c, NEW e
    PROVE  MultiEdit(c, <<e>>) = IF Accepts(c, e) THEN [ok |-> TRUE, content |-> Replaced(c, e)]
                                 ELSE [ok |-> FALSE, content |-> c]
<1> DEFINE d == <<e>>
           begin == [ok |-> TRUE, content |-> c]
           Out(x, a) == IF a.ok /\ Accepts(a.content, x) THEN [ok |-> TRUE, content |-> Replaced(a.content, x)]
                        ELSE [a EXCEPT !.ok = FALSE]
           P(it) == it = [s \in SUBSET DOMAIN d |-> IF s = {} THEN begin ELSE
                            LET x == Max(s) IN Out(d[x], it[s \ {x}])]
           Final == CHOOSE it : P(it)
           g == [s \in SUBSET (1..1) |-> IF s = {} THEN begin ELSE Out(e, begin)]
<1>1. DOMAIN d = 1..1 /\ d[1] = e
  OBVIOUS
<1>2. MultiEdit(c, <<e>>) = Final[DOMAIN d]
  BY DEF MultiEdit, FoldLeft, MapThenFoldSet
<1>3. Out(e, begin) = IF Accepts(c, e) THEN [ok |-> TRUE, content |-> Replaced(c, e)] ELSE [ok |-> FALSE, content |-> c]
  <2>1. begin.ok = TRUE /\ begin.content = c
    OBVIOUS
  <2>2. [begin EXCEPT !.ok = FALSE] = [ok |-> FALSE, content |-> c]
    <3>1. PICK x : x = [begin EXCEPT !.ok = FALSE]
      OBVIOUS
    <3>2. x \in [ok : {FALSE}, content : {c}]
      BY <3>1
    <3>3. x = [ok |-> FALSE, content |-> c]
      BY ONLY <3>2
    <3> QED
      BY <3>1, <3>3
  <2> HIDE DEF begin
  <2> QED
    BY <2>1, <2>2
<1> HIDE DEF d, Out, begin
<1>4. ASSUME NEW s \in SUBSET (1..1), s # {} PROVE Max(s) = 1 /\ s \ {1} = {} /\ s = 1..1
  <2>1. Max(s) \in 1..1
    BY <1>4, MaxIs
  <2>2. \A i \in 1..1 : i = 1
    OBVIOUS
  <2> QED
    BY <1>4, <2>1, <2>2
<1>5. P(g)
  <2>1. ASSUME NEW s \in SUBSET (1..1), s # {} PROVE g[s] = Out(d[Max(s)], g[s \ {Max(s)}])
    <3>1. g[s] = Out(e, begin) /\ g[{}] = begin
      BY <2>1
    <3> QED
      BY <1>1, <1>4, <2>1, <3>1
  <2> QED
    BY <1>1, <2>1
<1>6. P(Final)
  BY <1>5
<1> HIDE DEF Final
<1>7. Final[{}] = begin
  BY <1>6
<1>8. Final[1..1] = Out(d[Max(1..1)], Final[(1..1) \ {Max(1..1)}])
  <2>1. 1..1 # {} /\ 1..1 \in SUBSET DOMAIN d
    BY <1>1
  <2> QED
    BY <1>6, <2>1
<1>9. Final[1..1] = Out(e, begin)
  <2>1. 1..1 # {}
    OBVIOUS
  <2>2. Max(1..1) = 1 /\ (1..1) \ {1} = {}
    BY <1>4, <2>1
  <2> QED
    BY <1>1, <1>7, <1>8, <2>2
<1> QED
  BY <1>1, <1>2, <1>3, <1>9

\* An edit that puts in other symbols than the content has, so that what it put in can be told.
IsEdit(q) ==
    \E A, B : /\ A \cap B = {} /\ q.content \in Seq(A) /\ q.edit.old \in Seq(A) /\ q.edit.old # <<>>
              /\ q.edit.new \in Seq(B)
              /\ q.edit = [old |-> q.edit.old, new |-> q.edit.new, all |-> q.edit.all, expected |-> q.edit.expected]

\* An accepted edit changes the length by what it replaced, can be undone by the reverse edit,
\* and one that takes several places was asked to; a refused one changes nothing, for every
\* content and old text and every new text that can be told from them (file.go:
\* FileReplaceHandler, FileMultiEditHandler).
THEOREM EditIsRight == ASSUME NEW q, IsEdit(q) PROVE EditRight(q)
<1>1. PICK A, B : /\ A \cap B = {} /\ q.content \in Seq(A) /\ q.edit.old \in Seq(A) /\ q.edit.old # <<>>
                  /\ q.edit.new \in Seq(B)
                  /\ q.edit = [old |-> q.edit.old, new |-> q.edit.new, all |-> q.edit.all, expected |-> q.edit.expected]
  BY DEF IsEdit
<1>2. PICK S, c, e, r, d, u : /\ S = A \cup B /\ c = q.content /\ e = q.edit /\ r = MultiEdit(c, <<e>>) /\ d = Count(c, e)
                              /\ u = [e EXCEPT !.old = e.new, !.new = e.old]
  OBVIOUS
<1>3. c \in Seq(S) /\ e.old \in Seq(S) /\ e.new \in Seq(S)
  BY <1>1, <1>2, SeqOfUnion
<1>4. r = IF Accepts(c, e) THEN [ok |-> TRUE, content |-> Replaced(c, e)] ELSE [ok |-> FALSE, content |-> c]
  BY <1>2, OneEdit
<1>5. u.old = e.new /\ u.new = e.old
  BY <1>1, <1>2
<1>6. ASSUME Accepts(c, e)
      PROVE  /\ Len(r.content) + d * Len(e.old) = Len(c) + d * Len(e.new)
             /\ e.new # <<>> => Replaced(r.content, u) = c
             /\ d > 1 => e.all \/ e.expected = d
  <2>1. r.content = Replaced(c, e)
    BY <1>4, <1>6
  <2>2. Len(r.content) + d * Len(e.old) = Len(c) + d * Len(e.new)
    BY SMTT(30), <1>1, <1>2, <1>3, <2>1, ReplacedLength
  <2>3. ASSUME e.new # <<>> PROVE Replaced(r.content, u) = c
    <3>1. e.old \in Seq(A) /\ e.old # <<>> /\ e.new \in Seq(B) /\ c \in Seq(A) /\ A \cap B = {}
      BY <1>1, <1>2
    <3>2. Replaced(Replaced(c, e), u) = c
      BY <1>5, <2>3, <3>1, ReplacedUndone
    <3> QED
      BY <2>1, <3>2
  <2>4. ASSUME d > 1 PROVE e.all \/ e.expected = d
    <3>1. d # 1
      BY <2>4
    <3> QED
      BY <1>2, <1>6, <3>1 DEF Accepts
  <2> QED
    BY <2>2, <2>3, <2>4
<1>7. ASSUME ~Accepts(c, e) PROVE r.content = c /\ ~r.ok
  BY <1>4, <1>7
<1>8. r.ok => Accepts(c, e)
  BY <1>7
<1>9. ~r.ok => ~Accepts(c, e)
  BY <1>4
<1> QED
  BY <1>2, <1>6, <1>7, <1>8, <1>9 DEF EditRight

-----------------------------------------------------------------------------
(* The requests of the model are such requests.                            *)

LEMMA UpToIsSeq == ASSUME NEW S, NEW n \in Nat, NEW f \in UpTo(S, n) PROVE f \in Seq(S)
<1>1. PICK k \in 0..n : f \in [1..k -> S]
  BY DEF UpTo
<1> QED
  BY <1>1

LEMMA AskedRead == ASSUME NEW q \in ReadAsks PROVE q.kind = "read" /\ ReadRight(q)
<1>1. q.kind = "read" /\ q.lines \in UpTo({1, 2}, 3) /\ q.start \in 1..4 /\ q.end \in 0..4
  BY DEF ReadAsks
<1>2. q.lines \in Seq(Nat)
  <2>1. q.lines \in Seq({1, 2})
    BY <1>1, UpToIsSeq
  <2>2. {1, 2} \cup Nat = Nat
    OBVIOUS
  <2> QED
    BY <2>1, <2>2, SeqOfUnion
<1>3. q.start \in Nat \ {0} /\ q.end \in Nat
  BY <1>1
<1> QED
  BY <1>1, <1>2, <1>3, ReadIsRight

LEMMA AskedGrep == ASSUME NEW q \in GrepAsks PROVE q.kind = "grep" /\ GrepRight(q)
<1>1. q.kind = "grep" /\ q.files \in UpTo(Searched, 2) /\ q.max \in 1..3
  BY DEF GrepAsks
<1>2. ASSUME NEW file \in Searched PROVE file \in SearchedFile
  <2>1. CASE file \in [binary : {FALSE}, protected : BOOLEAN, lines : UpTo(BOOLEAN, 3)]
    <3>1. file.lines \in Seq(BOOLEAN)
      BY <2>1, UpToIsSeq
    <3> QED
      BY <2>1, <3>1 DEF SearchedFile
  <2>2. CASE file \in [binary : {TRUE}, protected : {FALSE}, lines : {<<TRUE>>}]
    <3>1. <<TRUE>> \in Seq(BOOLEAN)
      OBVIOUS
    <3> QED
      BY <2>2, <3>1 DEF SearchedFile
  <2> QED
    BY <2>1, <2>2 DEF Searched
<1>3. q.files \in Seq(SearchedFile)
  <2>1. q.files \in Seq(Searched)
    BY <1>1, UpToIsSeq
  <2>2. Searched \cup SearchedFile = SearchedFile
    BY <1>2
  <2> QED
    BY <2>1, <2>2, SeqOfUnion
<1>4. q.max \in Nat \ {0}
  BY <1>1
<1> QED
  BY <1>1, <1>3, <1>4, GrepIsRight

LEMMA AskedWalk == ASSUME NEW es \in Walks PROVE es \in Seq(Entry) /\ IsWalk(es)
<1>1. /\ es \in UpTo([depth : 0..2, dir : BOOLEAN, hidden : BOOLEAN], 3)
      /\ \A n \in 2..Len(es) : es[n].depth <= es[n - 1].depth \/ (es[n].depth = es[n - 1].depth + 1 /\ es[n - 1].dir)
  BY DEF Walks
<1>2. es \in Seq([depth : 0..2, dir : BOOLEAN, hidden : BOOLEAN])
  BY <1>1, UpToIsSeq
<1>3. [depth : 0..2, dir : BOOLEAN, hidden : BOOLEAN] \cup Entry = Entry
  <2>1. ASSUME NEW e \in [depth : 0..2, dir : BOOLEAN, hidden : BOOLEAN] PROVE e \in Entry
    <3>1. e.depth \in Nat
      OBVIOUS
    <3> QED
      BY <3>1 DEF Entry
  <2> QED
    BY <2>1
<1>4. es \in Seq(Entry)
  BY <1>2, <1>3, SeqOfUnion
<1> QED
  BY <1>1, <1>4 DEF IsWalk

LEMMA AskedList ==
    ASSUME NEW q \in ListAsks
    PROVE  q.kind \in {"list", "find"} /\ ListRight(q) /\ FindRight(q)
<1>1. q.kind \in {"list", "find"} /\ q.entries \in Walks /\ q.maxDepth \in 0..2
  BY DEF ListAsks
<1>2. q.entries \in Seq(Entry) /\ IsWalk(q.entries) /\ q.maxDepth \in Nat
  BY <1>1, AskedWalk
<1> QED
  BY <1>1, <1>2, ListIsRight, FindIsRight

LEMMA AskedEdit == ASSUME NEW q \in EditAsks PROVE q.kind = "edit" /\ EditRight(q)
<1>1. PICK c, o, n, a, x :
         /\ c \in UpTo({"x", "y"}, 4) /\ o \in UpTo({"x", "y"}, 2) \ {<<>>} /\ n \in {<<>>, <<"z">>, <<"z", "z">>}
         /\ q = [kind |-> "edit", content |-> c, edit |-> [old |-> o, new |-> n, all |-> a, expected |-> x]]
  BY DEF EditAsks
<1>2. c \in Seq({"x", "y"}) /\ o \in Seq({"x", "y"}) /\ o # <<>> /\ n \in Seq({"z"})
  <2>1. c \in Seq({"x", "y"})
    BY <1>1, UpToIsSeq
  <2>2. o \in Seq({"x", "y"}) /\ o # <<>>
    <3>1. o \in UpTo({"x", "y"}, 2) /\ o # <<>>
      BY <1>1
    <3> QED
      BY <3>1, UpToIsSeq
  <2>3. <<>> \in Seq({"z"}) /\ <<"z">> \in Seq({"z"}) /\ <<"z", "z">> \in Seq({"z"})
    OBVIOUS
  <2> QED
    BY <1>1, <2>1, <2>2, <2>3
<1>3. {"x", "y"} \cap {"z"} = {}
  OBVIOUS
<1>4. /\ q.kind = "edit" /\ q.content = c /\ q.edit = [old |-> o, new |-> n, all |-> a, expected |-> x]
      /\ q.edit.old = o /\ q.edit.new = n /\ q.edit.all = a /\ q.edit.expected = x
  BY <1>1
<1>5. IsEdit(q)
  BY <1>2, <1>3, <1>4 DEF IsEdit
<1> QED
  BY <1>4, <1>5, EditIsRight

\* Whatever the model's clients ask of the file handlers, the answer is right; the theorems
\* above say it of every file, tree, content and limit (file.go: FileReadHandler, grepFile,
\* FileGrepHandler, FileListHandler, FileFindHandler, FileReplaceHandler, FileMultiEditHandler).
THEOREM AnswersAreRight == AnswersInit \/ ask = NoAsk => AnswersRight
<1>1. CASE ask \in ReadAsks
  <2>1. ask.kind = "read" /\ ReadRight(ask)
    BY <1>1, AskedRead
  <2> QED
    BY <2>1 DEF AnswersRight
<1>2. CASE ask \in GrepAsks
  <2>1. ask.kind = "grep" /\ GrepRight(ask)
    BY <1>2, AskedGrep
  <2> QED
    BY <2>1 DEF AnswersRight
<1>3. CASE ask \in ListAsks
  <2>1. ask.kind \in {"list", "find"} /\ ListRight(ask) /\ FindRight(ask)
    BY <1>3, AskedList
  <2> QED
    BY <2>1 DEF AnswersRight
<1>4. CASE ask \in EditAsks
  <2>1. ask.kind = "edit" /\ EditRight(ask)
    BY <1>4, AskedEdit
  <2> QED
    BY <2>1 DEF AnswersRight
<1>5. CASE ask = NoAsk
  <2>1. ask.kind = "none"
    BY <1>5 DEF NoAsk
  <2> QED
    BY <2>1 DEF AnswersRight
<1> QED
  BY <1>1, <1>2, <1>3, <1>4, <1>5 DEF AnswersInit

-----------------------------------------------------------------------------
(* The cache of ports.                                                     *)

\* A lookup, whatever it was before.
IsLook(r) ==
    r \in [pc : {"new", "ss", "proc", "stamp", "put", "over"}, ports : SUBSET Port,
           from : 0..MaxTime, at : 0..MaxTime, failed : BOOLEAN]

PortTypes ==
    /\ ptime \in 0..MaxTime /\ open \in SUBSET Port /\ moves \in 0..MaxMoves
    /\ upSince \in [Port -> 0..MaxTime] /\ lastUp \in [Port -> 0..MaxTime]
    /\ look = [l \in Lookup |-> look[l]] /\ \A l \in Lookup : IsLook(look[l])
    /\ portCache = NoEntry \/ (portCache.at \in Nat /\ portCache.at <= ptime /\ portCache.ports \in SUBSET Port
                               /\ portCache.failed \in BOOLEAN)

\* The clocks of a port.
PortClocks ==
    \A p \in Port : upSince[p] <= ptime /\ lastUp[p] <= ptime /\ (p \in open => lastUp[p] = ptime)

\* ports are what was found at time t or later: what is there has been open since, what
\* is missing has been closed since, up to slack ticks.
Found(ports, failed, t, slack) ==
    /\ \A p \in ports : lastUp[p] + slack >= t
    /\ \A p \in open \ ports : upSince[p] + slack >= t \/ failed

\* A lookup that fetches is young, and what it found is no older than it is.
Young(r) == r.pc \in {"ss", "proc", "stamp", "put"}
LookRight(r) ==
    /\ Young(r) => r.from <= ptime /\ ptime <= r.from + MaxFetch
    /\ r.pc \in {"proc", "stamp", "put"} => Found(r.ports, r.failed, r.from, 0)
    /\ r.pc = "put" => r.at <= ptime /\ r.at <= r.from + MaxFetch
    /\ r.pc = "over" => r.at <= ptime /\ Found(r.ports, r.failed, r.at + 1, Horizon)

PortsInv ==
    /\ PortTypes /\ PortClocks
    /\ \A l \in Lookup : LookRight(look[l])
    /\ portCache # NoEntry => Found(portCache.ports, portCache.failed, portCache.at, MaxFetch)

LEMMA PortNumbers ==
    /\ MaxFetch \in Nat /\ MaxTime \in Nat /\ MaxMoves \in Nat /\ TTL \in Nat /\ TTL >= 1
    /\ Horizon \in Nat /\ Horizon = TTL + MaxFetch
BY PortConstants DEF Horizon

LEMMA PortsInitInv == PortsInit => PortsInv
<1> SUFFICES ASSUME PortsInit PROVE PortsInv
  OBVIOUS
<1>1. IsLook(NewLookup) /\ NewLookup.pc = "new"
  BY PortNumbers DEF IsLook, NewLookup
<1>2. look = [l \in Lookup |-> look[l]] /\ \A l \in Lookup : look[l] = NewLookup
  BY DEF PortsInit
<1>3. upSince \in [Port -> 0..MaxTime] /\ lastUp \in [Port -> 0..MaxTime] /\ ptime \in 0..MaxTime /\ moves \in 0..MaxMoves
  BY PortNumbers DEF PortsInit
<1>4. PortTypes
  BY <1>1, <1>2, <1>3 DEF PortTypes, PortsInit
<1>5. PortClocks
  BY DEF PortClocks, PortsInit
<1> QED
  BY <1>1, <1>2, <1>4, <1>5 DEF PortsInv, PortsInit, LookRight, Young

\* What was found stays right: time and the group's ports only go on.
LEMMA FoundStays ==
    ASSUME PortTypes, PortClocks, PortTypes', PortTick \/ \E p \in Port : Listen(p),
           NEW ports \in SUBSET Port, NEW failed \in BOOLEAN, NEW t \in Nat, NEW slack \in Nat,
           t <= ptime + slack, Found(ports, failed, t, slack)
    PROVE  Found(ports, failed, t, slack)'
<1>0. /\ upSince \in [Port -> 0..MaxTime] /\ lastUp \in [Port -> 0..MaxTime] /\ ptime \in Nat /\ open \in SUBSET Port
      /\ upSince' \in [Port -> 0..MaxTime] /\ lastUp' \in [Port -> 0..MaxTime] /\ MaxTime \in Nat
  BY PortNumbers DEF PortTypes
<1>1. \A p \in Port : lastUp'[p] >= lastUp[p] /\ (p \in open' \ open => upSince'[p] = ptime)
                      /\ (p \in open => upSince'[p] = upSince[p])
  <2>1. CASE PortTick
    BY <2>1, <1>0 DEF PortTick, PortClocks
  <2>2. ASSUME NEW q \in Port, Listen(q)
        PROVE  \A p \in Port : lastUp'[p] >= lastUp[p] /\ (p \in open' \ open => upSince'[p] = ptime)
                               /\ (p \in open => upSince'[p] = upSince[p])
    BY <2>2, <1>0 DEF Listen, PortClocks
  <2> QED
    BY <2>1, <2>2
<1>2. open' \in SUBSET Port
  BY DEF PortTypes
<1>3. ASSUME NEW p \in ports PROVE lastUp'[p] + slack >= t
  <2>1. p \in Port /\ lastUp[p] \in Nat /\ lastUp'[p] \in Nat /\ lastUp'[p] >= lastUp[p] /\ lastUp[p] + slack >= t
    BY <1>0, <1>1, <1>3 DEF Found
  <2> QED
    BY <2>1
<1>4. ASSUME NEW p \in open' \ ports, ~failed PROVE upSince'[p] + slack >= t
  <2>1. p \in Port
    BY <1>2
  <2>2. CASE p \in open
    <3>1. upSince'[p] = upSince[p] /\ upSince[p] + slack >= t
      BY <2>1, <2>2, <1>1, <1>4 DEF Found
    <3> QED
      BY <3>1
  <2>3. CASE p \notin open
    BY <2>1, <2>3, <1>0, <1>1
  <2> QED
    BY <2>2, <2>3
<1> QED
  BY <1>3, <1>4 DEF Found

\* So does a lookup that does nothing meanwhile.
LEMMA LookStays ==
    ASSUME PortTypes, PortClocks, PortTypes', PortTick \/ \E p \in Port : Listen(p),
           NEW r, IsLook(r), LookRight(r), ptime' = ptime \/ (ptime' = ptime + 1 /\ (Young(r) => r.from + MaxFetch > ptime))
    PROVE  LookRight(r)'
<1>1. /\ ptime \in Nat /\ ptime' \in Nat /\ ptime <= ptime' /\ Horizon \in Nat /\ Horizon >= 1 /\ MaxFetch \in Nat
      /\ r.from \in Nat /\ r.at \in Nat /\ r.ports \in SUBSET Port /\ r.failed \in BOOLEAN
  BY PortNumbers DEF PortTypes, IsLook
<1>2. Young(r) => r.from <= ptime' /\ ptime' <= r.from + MaxFetch
  BY <1>1 DEF LookRight
<1>3. r.pc \in {"proc", "stamp", "put"} => Found(r.ports, r.failed, r.from, 0)'
  <2> SUFFICES ASSUME r.pc \in {"proc", "stamp", "put"} PROVE Found(r.ports, r.failed, r.from, 0)'
    OBVIOUS
  <2>1. r.from <= ptime + 0 /\ Found(r.ports, r.failed, r.from, 0)
    BY <1>1 DEF LookRight, Young
  <2> QED
    BY <1>1, <2>1, FoundStays
<1>4. r.pc = "put" => r.at <= ptime' /\ r.at <= r.from + MaxFetch
  BY <1>1 DEF LookRight
<1>5. r.pc = "over" => r.at <= ptime' /\ Found(r.ports, r.failed, r.at + 1, Horizon)'
  <2> SUFFICES ASSUME r.pc = "over" PROVE r.at <= ptime' /\ Found(r.ports, r.failed, r.at + 1, Horizon)'
    OBVIOUS
  <2>1. r.at <= ptime /\ Found(r.ports, r.failed, r.at + 1, Horizon)
    BY DEF LookRight
  <2>2. PICK t \in Nat, h \in Nat : t = r.at + 1 /\ h = Horizon /\ t <= ptime + h
    BY <2>1, <1>1
  <2>3. Found(r.ports, r.failed, t, h)'
    BY <2>1, <2>2, <1>1, FoundStays
  <2> QED
    BY <2>1, <2>2, <2>3, <1>1 DEF Horizon
<1> QED
  BY <1>2, <1>3, <1>4, <1>5 DEF LookRight, Young

\* A step of the world outside: every lookup keeps what it has.
LEMMA WorldStep ==
    ASSUME PortsInv, PortTick \/ \E p \in Port : Listen(p)
    PROVE  PortsInv'
<1>0. /\ PortTypes /\ PortClocks /\ (\A l \in Lookup : LookRight(look[l])) /\ UNCHANGED <<look, portCache>>
      /\ upSince \in [Port -> 0..MaxTime] /\ lastUp \in [Port -> 0..MaxTime] /\ ptime \in 0..MaxTime
      /\ open \in SUBSET Port /\ moves \in 0..MaxMoves
  BY DEF PortsInv, PortTypes, PortTick, Listen
<1>1. /\ ptime' \in 0..MaxTime /\ open' \in SUBSET Port /\ moves' \in 0..MaxMoves
      /\ upSince' \in [Port -> 0..MaxTime] /\ lastUp' \in [Port -> 0..MaxTime] /\ ptime' >= ptime
  <2>1. CASE PortTick
    BY <2>1, <1>0, PortNumbers DEF PortTick
  <2>2. ASSUME NEW q \in Port, Listen(q)
        PROVE  /\ ptime' \in 0..MaxTime /\ open' \in SUBSET Port /\ moves' \in 0..MaxMoves
               /\ upSince' \in [Port -> 0..MaxTime] /\ lastUp' \in [Port -> 0..MaxTime] /\ ptime' >= ptime
    BY <2>2, <1>0, PortNumbers DEF Listen
  <2> QED
    BY <2>1, <2>2
<1>2. PortTypes'
  <2>1. look' = [l \in Lookup |-> look'[l]] /\ \A l \in Lookup : IsLook(look'[l])
    BY <1>0 DEF PortTypes
  <2>2. portCache' = NoEntry \/ (portCache'.at \in Nat /\ portCache'.at <= ptime' /\ portCache'.ports \in SUBSET Port
                                 /\ portCache'.failed \in BOOLEAN)
    BY <1>0, <1>1, PortNumbers DEF PortTypes
  <2> QED
    BY <2>1, <2>2, <1>1 DEF PortTypes
<1>3. PortClocks'
  <2>1. CASE PortTick
    BY <2>1, <1>0, PortNumbers DEF PortTick, PortClocks
  <2>2. ASSUME NEW q \in Port, Listen(q) PROVE PortClocks'
    BY <2>2, <1>0, PortNumbers DEF Listen, PortClocks
  <2> QED
    BY <2>1, <2>2
<1>4. ASSUME NEW l \in Lookup PROVE LookRight(look[l])'
  <2>1. PICK r : r = look[l] /\ r = look'[l] /\ IsLook(r) /\ LookRight(r)
    BY <1>0 DEF PortTypes
  <2>2. ptime' = ptime \/ (ptime' = ptime + 1 /\ (Young(r) => r.from + MaxFetch > ptime))
    BY <2>1 DEF PortTick, Listen, Fetching, Young
  <2>3. LookRight(r)'
    BY <2>1, <2>2, <1>0, <1>2, LookStays
  <2> QED
    BY <2>1, <2>3
<1>5. portCache' # NoEntry => Found(portCache.ports, portCache.failed, portCache.at, MaxFetch)'
  <2> SUFFICES ASSUME portCache # NoEntry PROVE Found(portCache.ports, portCache.failed, portCache.at, MaxFetch)'
    BY <1>0
  <2>1. PICK P \in SUBSET Port, b \in BOOLEAN, t \in Nat :
          P = portCache.ports /\ b = portCache.failed /\ t = portCache.at /\ t <= ptime + MaxFetch
    BY <1>0, PortNumbers DEF PortTypes
  <2>2. Found(P, b, t, MaxFetch)
    BY <2>1 DEF PortsInv
  <2>3. Found(P, b, t, MaxFetch)'
    BY <2>1, <2>2, <1>0, <1>2, PortNumbers, FoundStays
  <2> QED
    BY <2>1, <2>3, <1>0
<1> QED
  BY <1>2, <1>3, <1>4, <1>5 DEF PortsInv

\* A step of a lookup, which turns it into r.
Turns(l, r) ==
    /\ UNCHANGED <<ptime, open, upSince, lastUp, moves>>
    /\ look' = [look EXCEPT ![l] = r] /\ IsLook(r) /\ LookRight(r)

LEMMA TurnsStep ==
    ASSUME PortsInv, NEW l \in Lookup, NEW r, Turns(l, r),
           portCache' = portCache \/ (portCache' = [ports |-> r.ports, at |-> r.at, failed |-> r.failed] /\ r.at <= ptime
                                      /\ Found(r.ports, r.failed, r.at, MaxFetch))
    PROVE  PortsInv'
<1>0. /\ PortTypes /\ PortClocks /\ (\A k \in Lookup : LookRight(look[k])) /\ UNCHANGED <<ptime, open, upSince, lastUp, moves>>
      /\ look = [k \in Lookup |-> look[k]] /\ (\A k \in Lookup : IsLook(look[k])) /\ IsLook(r) /\ LookRight(r)
  BY DEF PortsInv, PortTypes, Turns
<1>1. look' = [k \in Lookup |-> look'[k]] /\ \A k \in Lookup : look'[k] = IF k = l THEN r ELSE look[k]
  BY <1>0 DEF Turns
<1>2. r.at \in Nat /\ r.ports \in SUBSET Port /\ r.failed \in BOOLEAN
  BY <1>0, PortNumbers DEF IsLook
<1>3. PortTypes'
  <2>1. \A k \in Lookup : IsLook(look'[k])
    BY <1>0, <1>1
  <2>2. portCache' = NoEntry \/ (portCache'.at \in Nat /\ portCache'.at <= ptime' /\ portCache'.ports \in SUBSET Port
                                 /\ portCache'.failed \in BOOLEAN)
    BY <1>0, <1>2 DEF PortTypes
  <2> QED
    BY <1>0, <1>1, <2>1, <2>2 DEF PortTypes
<1>4. PortClocks'
  BY <1>0 DEF PortClocks
<1>5. ASSUME NEW k \in Lookup PROVE LookRight(look[k])'
  <2>1. PICK s : s = look'[k] /\ LookRight(s)
    BY <1>0, <1>1
  <2>2. LookRight(s)'
    BY <2>1, <1>0 DEF LookRight, Found
  <2> QED
    BY <2>1, <2>2
<1>6. portCache' # NoEntry => Found(portCache.ports, portCache.failed, portCache.at, MaxFetch)'
  BY <1>0 DEF PortsInv, Found
<1> QED
  BY <1>3, <1>4, <1>5, <1>6 DEF PortsInv

LEMMA LookupStep ==
    ASSUME PortsInv, NEW l \in Lookup,
           CacheHit(l) \/ CacheMiss(l) \/ RunSS(l) \/ ReadOwners(l) \/ Stamp(l) \/ PutEntry(l) \/ Answered(l)
    PROVE  PortsInv'
<1>0. /\ PortTypes /\ PortClocks /\ ptime \in 0..MaxTime /\ ptime \in Nat /\ open \in SUBSET Port
      /\ upSince \in [Port -> 0..MaxTime] /\ lastUp \in [Port -> 0..MaxTime] /\ look = [k \in Lookup |-> look[k]]
  BY PortNumbers DEF PortsInv, PortTypes
<1>n. MaxFetch \in Nat /\ MaxTime \in Nat /\ TTL \in Nat /\ TTL >= 1 /\ Horizon = TTL + MaxFetch
  BY PortNumbers
<1>1. PICK s : /\ s = look[l] /\ LookRight(s) /\ IsLook(s)
               /\ s.ports \in SUBSET Port /\ s.from \in 0..MaxTime /\ s.at \in 0..MaxTime /\ s.failed \in BOOLEAN
  BY DEF PortsInv, PortTypes, IsLook
<1>2. CASE CacheHit(l)
  <2>1. PICK r : r = [pc |-> "over", ports |-> portCache.ports, from |-> ptime, at |-> ptime, failed |-> portCache.failed]
    OBVIOUS
  <2>2. /\ portCache.at \in Nat /\ portCache.at <= ptime /\ ptime - portCache.at < TTL
        /\ portCache.ports \in SUBSET Port /\ portCache.failed \in BOOLEAN
        /\ Found(portCache.ports, portCache.failed, portCache.at, MaxFetch)
    BY <1>0, <1>2 DEF CacheHit, Fresh, PortsInv, PortTypes
  <2>3. IsLook(r)
    BY <2>1, <2>2, <1>0 DEF IsLook
  <2>4. Found(r.ports, r.failed, ptime + 1, Horizon)
    <3>1. \A p \in r.ports : p \in Port /\ lastUp[p] \in Nat /\ lastUp[p] + MaxFetch >= portCache.at
      BY <2>1, <2>2, <1>0, <1>n DEF Found
    <3>2. \A p \in open \ r.ports : p \in Port /\ upSince[p] \in Nat /\ (upSince[p] + MaxFetch >= portCache.at \/ r.failed)
      BY <2>1, <2>2, <1>0, <1>n DEF Found
    <3> QED
      BY <3>1, <3>2, <2>2, <1>0, <1>n DEF Found
  <2>5. LookRight(r)
    BY <2>1, <2>4, <1>0 DEF LookRight, Young
  <2>6. Turns(l, r) /\ portCache' = portCache
    BY <2>1, <2>3, <2>5, <1>2 DEF Turns, CacheHit
  <2> QED
    BY <2>6, TurnsStep
<1>3. CASE CacheMiss(l)
  <2>1. PICK r : r = [s EXCEPT !.pc = "ss", !.from = ptime]
    OBVIOUS
  <2>a. IsLook(r) /\ r.pc = "ss" /\ r.from = ptime
    BY <2>1, <1>0, <1>1 DEF IsLook
  <2>2. IsLook(r) /\ LookRight(r)
    BY <2>a, <1>0, <1>n DEF LookRight, Young
  <2>3. look' = [look EXCEPT ![l] = r]
    BY <2>1, <1>0, <1>1, <1>3 DEF CacheMiss
  <2>4. Turns(l, r) /\ portCache' = portCache
    BY <2>2, <2>3, <1>3 DEF Turns, CacheMiss
  <2> QED
    BY <2>4, TurnsStep
<1>4. CASE RunSS(l)
  <2>0. s.pc = "ss" /\ s.from <= ptime /\ ptime <= s.from + MaxFetch
    BY <1>1, <1>4 DEF RunSS, LookRight, Young
  <2>1. PICK r : /\ \/ r = [s EXCEPT !.pc = "proc", !.ports = open]
                    \/ r = [s EXCEPT !.pc = "stamp", !.ports = {}, !.failed = TRUE]
                 /\ look' = [look EXCEPT ![l] = r]
    BY <1>0, <1>1, <1>4 DEF RunSS
  <2>2. IsLook(r) /\ r.from = s.from /\ \/ r.pc = "proc" /\ r.ports = open
                                        \/ r.pc = "stamp" /\ r.ports = {} /\ r.failed = TRUE
    BY <2>1, <1>0, <1>1 DEF IsLook
  <2>3. Found(r.ports, r.failed, s.from, 0)
    <3>1. CASE r.ports = open
      BY <3>1, <2>0, <1>0, <1>1, <1>n DEF Found, PortClocks
    <3>2. CASE r.ports = {} /\ r.failed = TRUE
      BY <3>2 DEF Found
    <3> QED
      BY <2>2, <3>1, <3>2
  <2>4. LookRight(r)
    BY <2>0, <2>2, <2>3 DEF LookRight, Young
  <2>5. Turns(l, r) /\ portCache' = portCache
    BY <2>1, <2>2, <2>4, <1>4 DEF Turns, RunSS
  <2> QED
    BY <2>5, TurnsStep
<1>5. CASE ReadOwners(l)
  <2>0. s.pc = "proc" /\ s.from <= ptime /\ ptime <= s.from + MaxFetch /\ Found(s.ports, s.failed, s.from, 0)
    BY <1>1, <1>5 DEF ReadOwners, LookRight, Young
  <2>a. PICK r : r = [s EXCEPT !.pc = "stamp", !.ports = @ \cap open]
    OBVIOUS
  <2>1. IsLook(r) /\ r.pc = "stamp" /\ r.ports = s.ports \cap open /\ r.from = s.from /\ r.failed = s.failed
    BY <2>a, <1>0, <1>1 DEF IsLook
  <2>2. look' = [look EXCEPT ![l] = r]
    BY <2>a, <1>0, <1>1, <1>5 DEF ReadOwners
  <2>3. IsLook(r)
    BY <2>1, <1>1 DEF IsLook
  <2>4. Found(r.ports, r.failed, s.from, 0)
    BY <2>0, <2>1 DEF Found
  <2>5. LookRight(r)
    BY <2>0, <2>1, <2>4 DEF LookRight, Young
  <2>6. Turns(l, r) /\ portCache' = portCache
    BY <2>2, <2>3, <2>5, <1>5 DEF Turns, ReadOwners
  <2> QED
    BY <2>6, TurnsStep
<1>6. CASE Stamp(l)
  <2>0. s.pc = "stamp" /\ s.from <= ptime /\ ptime <= s.from + MaxFetch /\ Found(s.ports, s.failed, s.from, 0)
    BY <1>1, <1>6 DEF Stamp, LookRight, Young
  <2>a. PICK r : r = [s EXCEPT !.pc = "put", !.at = ptime]
    OBVIOUS
  <2>1. IsLook(r) /\ r.pc = "put" /\ r.ports = s.ports /\ r.from = s.from /\ r.at = ptime /\ r.failed = s.failed
    BY <2>a, <1>0, <1>1 DEF IsLook
  <2>2. look' = [look EXCEPT ![l] = r]
    BY <2>a, <1>0, <1>1, <1>6 DEF Stamp
  <2>3. IsLook(r)
    BY <2>1, <1>0, <1>1 DEF IsLook
  <2>4. LookRight(r)
    BY <2>0, <2>1, <1>0 DEF LookRight, Young
  <2>5. Turns(l, r) /\ portCache' = portCache
    BY <2>2, <2>3, <2>4, <1>6 DEF Turns, Stamp
  <2> QED
    BY <2>5, TurnsStep
<1>7. CASE PutEntry(l)
  <2>0. /\ s.pc = "put" /\ s.at <= ptime /\ s.at <= s.from + MaxFetch /\ Found(s.ports, s.failed, s.from, 0)
        /\ s.at \in Nat /\ s.from \in Nat
    BY <1>1, <1>7, <1>n DEF PutEntry, LookRight
  <2>b. PICK r : r = [s EXCEPT !.pc = "over"]
    OBVIOUS
  <2>1. IsLook(r) /\ r.pc = "over" /\ r.ports = s.ports /\ r.from = s.from /\ r.at = s.at /\ r.failed = s.failed
    BY <2>b, <1>0, <1>1 DEF IsLook
  <2>2. look' = [look EXCEPT ![l] = r]
    BY <2>b, <1>0, <1>1, <1>7 DEF PutEntry
  <2>3. IsLook(r)
    BY <2>1, <1>1 DEF IsLook
  <2>a. /\ \A p \in s.ports : p \in Port /\ lastUp[p] \in Nat /\ lastUp[p] >= s.from
        /\ \A p \in open \ s.ports : p \in Port /\ upSince[p] \in Nat /\ (upSince[p] >= s.from \/ s.failed)
    BY <2>0, <1>0, <1>1, <1>n DEF Found
  <2>4. Found(s.ports, s.failed, s.at, MaxFetch) /\ Found(s.ports, s.failed, s.at + 1, Horizon)
    BY <2>0, <2>a, <1>n DEF Found
  <2>5. LookRight(r)
    BY <2>0, <2>1, <2>4 DEF LookRight, Young
  <2>6. Turns(l, r) /\ portCache' = [ports |-> r.ports, at |-> r.at, failed |-> r.failed]
    BY <2>1, <2>2, <2>3, <2>5, <1>1, <1>7 DEF Turns, PutEntry
  <2>7. r.at <= ptime /\ Found(r.ports, r.failed, r.at, MaxFetch)
    BY <2>0, <2>1, <2>4
  <2> QED
    BY <2>6, <2>7, TurnsStep
<1>8. CASE Answered(l)
  <2>1. PICK r : r = NewLookup
    OBVIOUS
  <2>2. IsLook(r) /\ LookRight(r)
    BY <2>1, <1>n DEF NewLookup, IsLook, LookRight, Young
  <2>3. Turns(l, r) /\ portCache' = portCache
    BY <2>1, <2>2, <1>8 DEF Turns, Answered
  <2> QED
    BY <2>3, TurnsStep
<1> QED
  BY <1>2, <1>3, <1>4, <1>5, <1>6, <1>7, <1>8

LEMMA PortsStep == PortsInv /\ [PortsNext]_portVars => PortsInv'
<1>1. ASSUME PortsInv, UNCHANGED portVars PROVE PortsInv'
  BY <1>1 DEF portVars, PortsInv, PortTypes, PortClocks, LookRight, Found
<1> QED
  BY <1>1, WorldStep, LookupStep DEF PortsNext

LEMMA PortsAreFresh == PortsInv => PortsFresh /\ PortsTypeOK
<1> SUFFICES ASSUME PortsInv PROVE PortsFresh /\ PortsTypeOK
  OBVIOUS
<1>1. ASSUME NEW l \in Lookup, look[l].pc = "over", look[l].at = ptime
      PROVE  /\ \A p \in look[l].ports : lastUp[p] + Horizon > ptime
             /\ \A p \in open \ look[l].ports : upSince[p] + Horizon > ptime \/ look[l].failed
  <2>1. Found(look[l].ports, look[l].failed, look[l].at + 1, Horizon)
    BY <1>1 DEF PortsInv, LookRight
  <2>2. /\ ptime \in Nat /\ Horizon \in Nat /\ look[l].ports \in SUBSET Port /\ open \in SUBSET Port
        /\ upSince \in [Port -> 0..MaxTime] /\ lastUp \in [Port -> 0..MaxTime]
    BY PortNumbers DEF PortsInv, PortTypes, IsLook
  <2>3. \A p \in Port : upSince[p] \in Nat /\ lastUp[p] \in Nat
    BY <2>2, PortNumbers
  <2> QED
    BY <2>1, <2>2, <2>3, <1>1 DEF Found
<1>2. PortsTypeOK
  BY DEF PortsInv, PortTypes, IsLook, PortsTypeOK
<1> QED
  BY <1>1, <1>2 DEF PortsFresh
-----------------------------------------------------------------------------
(* Files.                                                                  *)

\* A request that has a temporary file; one that writes a file in place.
Tmp(r) == r.pc \in {"tmpwrite", "rename", "unlink"}
InPlace(r) == r.pc \in {"append", "chunk"}

IsReq(r) ==
    /\ DOMAIN r = {"op", "pc", "ino", "data", "pos", "clean", "patch"}
    /\ r.op \in {"none", "read", "write", "append", "edit", "upload"} /\ r.pc \in Pcs
    /\ r.ino \in Inode \cup {NoFile} /\ r.pos \in Nat /\ r.clean \in BOOLEAN
    /\ Tmp(r) \/ InPlace(r) => r.ino \in Inode
    /\ InPlace(r) => r.data \in Payload
    /\ r.pc = "chunk" => r.pos <= Len(r.data)

FileTypes ==
    /\ name \in Inode \cup {NoFile} /\ temps \in SUBSET Inode /\ leaked \in SUBSET temps
    /\ how \in [Inode -> {"free", "whole", "uploading", "mixed"}] /\ fcrashed \in BOOLEAN
    /\ DOMAIN disk = Inode /\ DOMAIN req = FileReq /\ \A f \in FileReq : IsReq(req[f])

\* A temporary file is its request's alone, and nobody else reaches it.
TempsRight ==
    /\ \A i \in temps : how[i] # "free" /\ i # name
    /\ \A f \in FileReq : Tmp(req[f]) => req[f].ino \in temps \ leaked
    /\ \A f, g \in FileReq : Tmp(req[f]) /\ Tmp(req[g]) /\ req[f].ino = req[g].ino => f = g
    /\ \A i \in temps \ leaked : \E f \in FileReq : Tmp(req[f]) /\ req[f].ino = i
    /\ \A f \in FileReq : InPlace(req[f]) => req[f].ino \notin temps

\* A file in use is not free, and a free one is empty.
InUse ==
    /\ name # NoFile => how[name] # "free"
    /\ \A f \in FileReq : InPlace(req[f]) => how[req[f].ino] # "free"
    /\ \A i \in Inode : how[i] = "free" => disk[i] = <<>>

\* A whole file that is named, is about to be or is written in place was meant.
WholeRight ==
    /\ NameIsWhole
    /\ \A f \in FileReq : InPlace(req[f]) \/ req[f].pc = "rename" =>
           (how[req[f].ino] = "whole" => disk[req[f].ino] \in intended)
    /\ \A f \in FileReq : req[f].pc = "tmpwrite" /\ how[req[f].ino] = "whole" => req[f].clean

\* An upload nobody disturbed is alone, and the file is what was sent so far.
SentBy(r) == [k \in 1..r.pos |-> r.data[k]]
UploadRight ==
    /\ \A f \in FileReq : req[f].pc = "chunk" => how[req[f].ino] # "whole"
    /\ \A f \in FileReq : req[f].pc = "chunk" /\ how[req[f].ino] = "uploading" =>
        /\ disk[req[f].ino] = SentBy(req[f])
        /\ \A g \in FileReq : req[g].pc = "chunk" /\ req[g].ino = req[f].ino => g = f

FileInv == FileTypes /\ TempsRight /\ InUse /\ WholeRight /\ UploadRight

LEMMA FileNumbers == MaxInode \in Nat \ {0} /\ NoFile \notin Inode /\ 1 \in Inode
BY FileConstants DEF Inode

LEMMA FilesInitInv == FilesInit => FileInv
<1> SUFFICES ASSUME FilesInit PROVE FileInv
  OBVIOUS
<1>1. IsReq(Blank) /\ ~Tmp(Blank) /\ ~InPlace(Blank) /\ Blank.pc = "new"
  BY DEF IsReq, Blank, Tmp, InPlace, Pcs
<1>2. DOMAIN req = FileReq /\ \A f \in FileReq : req[f] = Blank
  BY DEF FilesInit
<1>3. /\ name \in Inode \cup {NoFile} /\ how \in [Inode -> {"free", "whole", "uploading", "mixed"}] /\ DOMAIN disk = Inode
      /\ (name # NoFile => how[name] # "free") /\ (\A i \in Inode : how[i] = "free" => disk[i] = <<>>) /\ NameIsWhole
  <2>1. CASE name = NoFile
    BY <2>1, FileNumbers DEF FilesInit, NameIsWhole
  <2>2. CASE name = 1
    BY <2>2, FileNumbers DEF FilesInit, NameIsWhole
  <2> QED
    BY <2>1, <2>2 DEF FilesInit
<1>4. temps = {} /\ leaked = {} /\ fcrashed = FALSE
  BY DEF FilesInit
<1> QED
  BY <1>1, <1>2, <1>3, <1>4 DEF FileInv, FileTypes, TempsRight, InUse, WholeRight, UploadRight

\* A step of a request that touches no file.
LEMMA FileAside ==
    ASSUME FileInv, NEW f \in FileReq, NEW r, IsReq(r), ~Tmp(r), ~InPlace(r), ~Tmp(req[f]), ~InPlace(req[f]),
           req' = [req EXCEPT ![f] = r], UNCHANGED <<disk, name, temps, leaked, how, intended, fcrashed>>
    PROVE  FileInv'
<1>1. DOMAIN req' = FileReq /\ \A g \in FileReq : req'[g] = IF g = f THEN r ELSE req[g]
  BY DEF FileInv, FileTypes
<1>2. FileTypes'
  BY <1>1 DEF FileInv, FileTypes
<1>3. TempsRight'
  BY <1>1 DEF FileInv, TempsRight
<1>4. InUse'
  BY <1>1 DEF FileInv, InUse
<1>5. r.pc \notin {"rename", "tmpwrite", "chunk"}
  BY DEF Tmp, InPlace
<1>6. WholeRight'
  BY <1>1, <1>5 DEF FileInv, WholeRight, NameIsWhole
<1>7. UploadRight'
  BY <1>1, <1>5 DEF FileInv, UploadRight, SentBy
<1> QED
  BY <1>2, <1>3, <1>4, <1>6, <1>7 DEF FileInv

LEMMA ReaderStep ==
    ASSUME FileInv, NEW f \in FileReq, OpenRead(f) \/ ReadPiece(f) \/ Edit(f) \/ ArriveWrite(f) \/ GiveUp(f)
    PROVE  FileInv'
<1>0. PICK s : s = req[f] /\ IsReq(s) /\ name \in Inode \cup {NoFile} /\ how \in [Inode -> {"free", "whole", "uploading", "mixed"}]
  BY DEF FileInv, FileTypes
<1>b. IsReq(Blank)
  BY DEF IsReq, Blank, Tmp, InPlace, Pcs
<1>1. ASSUME OpenRead(f) PROVE FileInv'
  <2>1. PICK op \in {"read", "edit"}, p \in Patch :
           \/ req' = [req EXCEPT ![f] = [Blank EXCEPT !.op = "none", !.pc = "over"]]
           \/ /\ name # NoFile
              /\ req' = [req EXCEPT ![f] = [Blank EXCEPT !.op = op, !.pc = "reading", !.ino = name,
                                                         !.clean = (how[name] = "whole"), !.patch = p]]
    BY <1>1 DEF OpenRead, Become
  <2>2. PICK r : /\ req' = [req EXCEPT ![f] = r]
                 /\ DOMAIN r = {"op", "pc", "ino", "data", "pos", "clean", "patch"} /\ r.op \in {"none", "read", "edit"}
                 /\ r.pc \in {"over", "reading"} /\ r.ino \in Inode \cup {NoFile} /\ r.pos = 0 /\ r.clean \in BOOLEAN
    <3>1. PICK a : a = [Blank EXCEPT !.op = "none", !.pc = "over"]
      OBVIOUS
    <3>2. /\ DOMAIN a = {"op", "pc", "ino", "data", "pos", "clean", "patch"} /\ a.op = "none"
          /\ a.pc = "over" /\ a.ino = NoFile /\ a.pos = 0 /\ a.clean = TRUE
      BY <3>1 DEF Blank
    <3>3. PICK w \in BOOLEAN : w = (how[name] = "whole")
      OBVIOUS
    <3>4. PICK b : b = [Blank EXCEPT !.op = op, !.pc = "reading", !.ino = name, !.clean = w, !.patch = p]
      OBVIOUS
    <3>5. /\ DOMAIN b = {"op", "pc", "ino", "data", "pos", "clean", "patch"} /\ b.op = op
          /\ b.pc = "reading" /\ b.ino = name /\ b.pos = 0 /\ b.clean = w
      BY <3>4 DEF Blank
    <3>6. CASE req' = [req EXCEPT ![f] = a]
      BY <3>2, <3>6
    <3>7. CASE req' = [req EXCEPT ![f] = b]
      BY <3>3, <3>5, <3>7, <1>0
    <3> QED
      BY <2>1, <3>1, <3>3, <3>4, <3>6, <3>7
  <2>a. IsReq(r) /\ ~Tmp(r) /\ ~InPlace(r)
    BY <2>2 DEF IsReq, Tmp, InPlace, Pcs
  <2>3. s.pc = "new"
    BY <1>0, <1>1 DEF OpenRead
  <2> QED
    BY <2>2, <2>a, <2>3, <1>0, <1>1, FileAside DEF OpenRead, Tmp, InPlace
<1>2. ASSUME ReadPiece(f) PROVE FileInv'
  <2>1. PICK r : /\ \/ r = [s EXCEPT !.data = Append(@, disk[s.ino][s.pos + 1]), !.pos = @ + 1]
                    \/ r = [s EXCEPT !.pc = "over"] \/ r = [s EXCEPT !.pc = "read"]
                 /\ req' = [req EXCEPT ![f] = r]
    BY <1>0, <1>2 DEF ReadPiece, Become
  <2>2. s.pc = "reading"
    BY <1>0, <1>2 DEF ReadPiece
  <2>a. /\ DOMAIN s = {"op", "pc", "ino", "data", "pos", "clean", "patch"} /\ s.pos \in Nat
        /\ s.op \in {"none", "read", "write", "append", "edit", "upload"} /\ s.ino \in Inode \cup {NoFile} /\ s.clean \in BOOLEAN
    BY <1>0 DEF IsReq
  <2>b. /\ DOMAIN r = DOMAIN s /\ r.pc \in {"reading", "over", "read"} /\ r.pos \in Nat
        /\ r.op = s.op /\ r.ino = s.ino /\ r.clean = s.clean
    <3>1. CASE r = [s EXCEPT !.pc = "over"] \/ r = [s EXCEPT !.pc = "read"]
      BY <3>1, <2>2, <2>a
    <3>2. CASE r = [s EXCEPT !.data = Append(@, disk[s.ino][s.pos + 1]), !.pos = @ + 1]
      <4>1. PICK d : r = [s EXCEPT !.data = d, !.pos = s.pos + 1]
        BY <3>2
      <4>2. s.pos + 1 \in Nat
        BY <2>a
      <4> QED
        BY <4>1, <4>2, <2>2, <2>a
    <3> QED
      BY <2>1, <3>1, <3>2
  <2>3. IsReq(r) /\ ~Tmp(r) /\ ~InPlace(r)
    BY <2>a, <2>b DEF IsReq, Tmp, InPlace, Pcs
  <2> QED
    BY <2>1, <2>2, <2>3, <1>0, <1>2, FileAside DEF ReadPiece, Tmp, InPlace
<1>3. ASSUME Edit(f) PROVE FileInv'
  <2>1. PICK r, c : /\ r = [s EXCEPT !.pc = "temp", !.data = c] \/ r = [s EXCEPT !.pc = "over"]
                    /\ req' = [req EXCEPT ![f] = r]
    BY <1>0, <1>3 DEF Edit, Become, Over
  <2>2. s.pc = "read"
    BY <1>0, <1>3 DEF Edit, Doing
  <2>3. IsReq(r) /\ ~Tmp(r) /\ ~InPlace(r)
    BY <2>1, <2>2, <1>0 DEF IsReq, Tmp, InPlace, Pcs
  <2> QED
    BY <2>1, <2>2, <2>3, <1>0, <1>3, FileAside DEF Edit, Tmp, InPlace
<1>4. ASSUME ArriveWrite(f) PROVE FileInv'
  <2>0. PICK c \in Payload : req' = [req EXCEPT ![f] = [Blank EXCEPT !.op = "write", !.pc = "temp", !.data = c]]
    BY <1>4 DEF ArriveWrite, Become
  <2>1. PICK r : r = [Blank EXCEPT !.op = "write", !.pc = "temp", !.data = c] /\ req' = [req EXCEPT ![f] = r]
    BY <2>0
  <2>2. IsReq(r) /\ ~Tmp(r) /\ ~InPlace(r)
    BY <2>1, <1>b DEF IsReq, Tmp, InPlace, Pcs, Blank
  <2>3. s.pc = "new"
    BY <1>0, <1>4 DEF ArriveWrite
  <2> QED
    BY <2>1, <2>2, <2>3, <1>0, <1>4, FileAside DEF ArriveWrite, Tmp, InPlace
<1>5. ASSUME GiveUp(f) PROVE FileInv'
  <2>1. PICK r : r = [s EXCEPT !.pc = "over"] /\ req' = [req EXCEPT ![f] = r]
    BY <1>0, <1>5 DEF GiveUp, Over, Become
  <2>2. s.pc = "temp"
    BY <1>0, <1>5 DEF GiveUp
  <2>3. IsReq(r) /\ ~Tmp(r) /\ ~InPlace(r)
    BY <2>1, <2>2, <1>0 DEF IsReq, Tmp, InPlace, Pcs
  <2> QED
    BY <2>1, <2>2, <2>3, <1>0, <1>5, FileAside DEF GiveUp, Tmp, InPlace
<1> QED
  BY <1>1, <1>2, <1>3, <1>4, <1>5
\* The request f becomes r; to the others nothing happens, except that what a reader
\* has read may turn out not to be whole.
SameReq(a, b) ==
    /\ a.pc = b.pc /\ a.ino = b.ino /\ a.data = b.data /\ a.pos = b.pos /\ (a.pc = "tmpwrite" => a.clean = b.clean)
Turned(f, r) ==
    /\ DOMAIN req' = FileReq /\ req'[f] = r /\ IsReq(r)
    /\ \A g \in FileReq \ {f} : IsReq(req'[g]) /\ SameReq(req'[g], req[g])

LEMMA Became ==
    ASSUME FileTypes, NEW f \in FileReq, NEW r, IsReq(r), req' = [req EXCEPT ![f] = r]
    PROVE  Turned(f, r)
<1>1. DOMAIN req' = FileReq /\ \A g \in FileReq : req'[g] = IF g = f THEN r ELSE req[g]
  BY DEF FileTypes
<1> QED
  BY <1>1 DEF FileTypes, Turned, SameReq

\* What a step of f on the one file r.ino leaves for FileInv to hold afterwards.
FilesTurn(r) ==
    /\ r.ino \in Inode /\ how' \in [Inode -> {"free", "whole", "uploading", "mixed"}] /\ how'[r.ino] # "free"
    /\ DOMAIN disk' = Inode /\ \A j \in Inode : j # r.ino => how'[j] = how[j] /\ disk'[j] = disk[j]
    /\ name' \in {name, r.ino, NoFile} /\ leaked' = leaked /\ fcrashed' = fcrashed /\ intended \subseteq intended'
TempsTurn(f, r) ==
    /\ InPlace(r) \/ name' = r.ino \/ (~Tmp(r) /\ how'[r.ino] # how[r.ino]) => r.ino \notin temps'
    /\ \/ temps' = temps /\ (Tmp(r) <=> Tmp(req[f])) /\ (Tmp(r) => r.ino = req[f].ino)
       \/ /\ temps' = temps \cup {r.ino} /\ Tmp(r) /\ ~Tmp(req[f]) /\ r.ino \notin temps
          /\ \A g \in FileReq : InPlace(req[g]) => req[g].ino # r.ino
       \/ temps' = temps \ {r.ino} /\ ~Tmp(r) /\ Tmp(req[f]) /\ req[f].ino = r.ino
WholeTurn(f, r) ==
    /\ how'[r.ino] = "whole" => \/ disk'[r.ino] \in intended'
                                \/ Tmp(r) /\ r.pc # "rename"
                                \/ Tmp(req[f]) /\ req[f].ino = r.ino /\ ~Tmp(r) /\ ~InPlace(r) /\ name' # r.ino
    /\ r.pc = "tmpwrite" /\ how'[r.ino] = "whole" => r.clean
UploadTurn(f, r) ==
    /\ r.pc = "chunk" => how'[r.ino] # "whole" /\ (how'[r.ino] = "uploading" => disk'[r.ino] = SentBy(r))
    /\ \/ how'[r.ino] \notin {"whole", "uploading"}
       \/ \A g \in FileReq : g # f => ~(req[g].pc = "chunk" /\ req[g].ino = r.ino)
       \/ r.pc # "chunk" /\ how'[r.ino] = how[r.ino] /\ disk'[r.ino] = disk[r.ino]

LEMMA FileMoves ==
    ASSUME FileInv, NEW f \in FileReq, NEW r, Turned(f, r), FilesTurn(r), TempsTurn(f, r), WholeTurn(f, r), UploadTurn(f, r)
    PROVE  FileInv'
<1>0. FileTypes /\ TempsRight /\ InUse /\ WholeRight /\ UploadRight
  BY DEF FileInv
<1>1. PICK i \in Inode : i = r.ino
  BY DEF FilesTurn
<1>2. /\ req'[f] = r /\ IsReq(r) /\ \A g \in FileReq : IsReq(req'[g]) /\ IsReq(req[g])
  BY <1>0 DEF FileTypes, Turned
<1>3. ASSUME NEW g \in FileReq, g # f
      PROVE  /\ req'[g].pc = req[g].pc /\ req'[g].ino = req[g].ino /\ (Tmp(req'[g]) <=> Tmp(req[g]))
             /\ (InPlace(req'[g]) <=> InPlace(req[g])) /\ SentBy(req'[g]) = SentBy(req[g])
             /\ (req[g].pc = "tmpwrite" => req'[g].clean = req[g].clean)
  BY <1>3 DEF Turned, SameReq, Tmp, InPlace, SentBy
<1>4. \A g \in FileReq : Tmp(req'[g]) \/ InPlace(req'[g]) => req'[g].ino \in Inode
  BY <1>2 DEF IsReq
<1>5. FileTypes'
  <2>1. temps' \in SUBSET Inode /\ leaked' \in SUBSET temps'
    <3>1. temps \in SUBSET Inode /\ leaked \in SUBSET temps
      BY <1>0 DEF FileTypes
    <3>2. Tmp(req[f]) => req[f].ino \in temps \ leaked
      BY <1>0 DEF TempsRight
    <3> QED
      BY <1>1, <3>1, <3>2 DEF TempsTurn, FilesTurn
  <2>2. name' \in Inode \cup {NoFile} /\ fcrashed' \in BOOLEAN
    BY <1>0 DEF FileTypes, FilesTurn
  <2>3. how' \in [Inode -> {"free", "whole", "uploading", "mixed"}] /\ DOMAIN disk' = Inode
    BY DEF FilesTurn
  <2>4. DOMAIN req' = FileReq
    BY DEF Turned
  <2> QED
    BY <1>2, <2>1, <2>2, <2>3, <2>4 DEF FileTypes
<1>6. TempsRight'
  <2>1. temps \in SUBSET Inode /\ leaked \in SUBSET temps /\ leaked' = leaked
    BY <1>0 DEF FileTypes, FilesTurn
  <2>2. \A j \in temps' : how'[j] # "free" /\ j # name'
    <3>1. SUFFICES ASSUME NEW j \in temps' PROVE how'[j] # "free" /\ j # name'
      OBVIOUS
    <3>2. j \in Inode /\ NoFile \notin Inode /\ how'[r.ino] # "free"
      BY <1>5, FileNumbers DEF FileTypes, FilesTurn
    <3>3. CASE j = r.ino
      <4>1. name' # r.ino
        BY <3>3 DEF TempsTurn
      <4> QED
        BY <4>1, <3>2, <3>3
    <3>4. CASE j # r.ino
      <4>1. j \in temps
        BY <3>4 DEF TempsTurn
      <4>2. how[j] # "free" /\ j # name
        BY <4>1, <1>0 DEF TempsRight
      <4> QED
        BY <4>2, <3>2, <3>4 DEF FilesTurn
    <3> QED
      BY <3>3, <3>4
  <2>3. \/ /\ temps' = temps /\ (Tmp(r) <=> Tmp(req[f])) /\ (Tmp(r) => i = req[f].ino)
        \/ /\ temps' = temps \cup {i} /\ Tmp(r) /\ ~Tmp(req[f]) /\ i \notin temps
           /\ \A g \in FileReq : InPlace(req[g]) => req[g].ino # i
        \/ temps' = temps \ {i} /\ ~Tmp(r) /\ Tmp(req[f]) /\ req[f].ino = i
    BY <1>1 DEF TempsTurn
  <2>4. \A g \in FileReq : Tmp(req'[g]) => req'[g].ino \in temps' \ leaked'
    <3>1. SUFFICES ASSUME NEW g \in FileReq, Tmp(req'[g]) PROVE req'[g].ino \in temps' \ leaked'
      OBVIOUS
    <3>2. \A h \in FileReq : Tmp(req[h]) => req[h].ino \in temps \ leaked
      BY <1>0 DEF TempsRight
    <3>3. CASE g = f
      BY <3>1, <3>2, <3>3, <1>1, <1>2, <2>1, <2>3
    <3>4. CASE g # f
      <4>1. Tmp(req[g]) /\ req'[g].ino = req[g].ino
        BY <3>1, <3>4, <1>3
      <4>2. req[f].ino = req[g].ino => ~Tmp(req[f])
        BY <4>1, <3>4, <1>0 DEF TempsRight
      <4> QED
        BY <4>1, <4>2, <3>2, <2>1, <2>3
    <3> QED
      BY <3>3, <3>4
  <2>5. \A g, h \in FileReq : Tmp(req'[g]) /\ Tmp(req'[h]) /\ req'[g].ino = req'[h].ino => g = h
    <3>1. ASSUME NEW g \in FileReq, g # f, Tmp(req'[g]), Tmp(r), req'[g].ino = i PROVE FALSE
      <4>1. Tmp(req[g]) /\ req[g].ino = i /\ i \in temps
        BY <3>1, <1>0, <1>3 DEF TempsRight
      <4>2. ~(Tmp(req[f]) /\ req[f].ino = i)
        BY <3>1, <4>1, <1>0 DEF TempsRight
      <4> QED
        BY <3>1, <4>1, <4>2, <2>3
    <3>2. ASSUME NEW g \in FileReq, NEW h \in FileReq, Tmp(req'[g]), Tmp(req'[h]), req'[g].ino = req'[h].ino, g # h PROVE FALSE
      <4>1. CASE g = f
        BY <4>1, <3>1, <3>2, <1>1, <1>2
      <4>2. CASE h = f
        BY <4>2, <3>1, <3>2, <1>1, <1>2
      <4>3. CASE g # f /\ h # f
        BY <4>3, <3>2, <1>0, <1>3 DEF TempsRight
      <4> QED
        BY <4>1, <4>2, <4>3
    <3> QED
      BY <3>2
  <2>6. \A j \in temps' \ leaked' : \E g \in FileReq : Tmp(req'[g]) /\ req'[g].ino = j
    <3>1. SUFFICES ASSUME NEW j \in temps' \ leaked' PROVE \E g \in FileReq : Tmp(req'[g]) /\ req'[g].ino = j
      OBVIOUS
    <3>2. CASE Tmp(r) /\ j = i
      BY <3>2, <1>1, <1>2
    <3>3. CASE ~(Tmp(r) /\ j = i)
      <4>1. j \in temps \ leaked
        BY <3>1, <3>3, <2>1, <2>3
      <4>2. PICK g \in FileReq : Tmp(req[g]) /\ req[g].ino = j
        BY <4>1, <1>0 DEF TempsRight
      <4>3. g # f
        BY <4>1, <4>2, <3>1, <3>3, <2>3
      <4> QED
        BY <4>2, <4>3, <1>3
    <3> QED
      BY <3>2, <3>3
  <2>7. \A g \in FileReq : InPlace(req'[g]) => req'[g].ino \notin temps'
    <3>1. SUFFICES ASSUME NEW g \in FileReq, InPlace(req'[g]) PROVE req'[g].ino \notin temps'
      OBVIOUS
    <3>2. CASE g = f
      BY <3>1, <3>2, <1>2 DEF TempsTurn
    <3>3. CASE g # f
      <4>1. InPlace(req[g]) /\ req'[g].ino = req[g].ino
        BY <3>1, <3>3, <1>3
      <4>2. req[g].ino \notin temps
        BY <4>1, <1>0 DEF TempsRight
      <4> QED
        BY <4>1, <4>2, <2>3
    <3> QED
      BY <3>2, <3>3
  <2> QED
    BY <2>2, <2>4, <2>5, <2>6, <2>7 DEF TempsRight
<1>7. \A j \in Inode : j # i => how'[j] = how[j] /\ disk'[j] = disk[j]
  BY <1>1 DEF FilesTurn
<1>8. how'[i] # "free" /\ name' \in {name, i, NoFile} /\ name \in Inode \cup {NoFile}
  BY <1>0, <1>1 DEF FilesTurn, FileTypes
<1>9. InUse'
  <2>1. name' # NoFile => how'[name'] # "free"
    BY <1>0, <1>7, <1>8, FileNumbers DEF InUse
  <2>2. \A g \in FileReq : InPlace(req'[g]) => how'[req'[g].ino] # "free"
    <3>1. SUFFICES ASSUME NEW g \in FileReq, InPlace(req'[g]) PROVE how'[req'[g].ino] # "free"
      OBVIOUS
    <3>2. CASE g = f
      BY <3>2, <1>1, <1>2, <1>8
    <3>3. CASE g # f
      BY <3>1, <3>3, <1>0, <1>3, <1>4, <1>7, <1>8 DEF InUse
    <3> QED
      BY <3>2, <3>3
  <2>3. \A j \in Inode : how'[j] = "free" => disk'[j] = <<>>
    BY <1>0, <1>7, <1>8 DEF InUse
  <2> QED
    BY <2>1, <2>2, <2>3 DEF InUse
<1>10. WholeRight'
  <2>0. intended \subseteq intended'
    BY DEF FilesTurn
  <2>1. ASSUME NEW g \in FileReq, g # f, Tmp(req[g]) \/ InPlace(req[g]), req[g].ino = i
        PROVE  ~Tmp(r) /\ ~(Tmp(req[f]) /\ req[f].ino = i)
    <3>1. ~Tmp(r)
      BY <2>1, <1>1, <1>2, <1>3, <1>6 DEF TempsRight
    <3>2. ~(Tmp(req[f]) /\ req[f].ino = i)
      BY <2>1, <1>0 DEF TempsRight
    <3> QED
      BY <3>1, <3>2
  <2>2. NameIsWhole'
    <3>1. SUFFICES ASSUME name' # NoFile, how'[name'] = "whole" PROVE disk'[name'] \in intended'
      BY DEF NameIsWhole
    <3>2. CASE name' = i
      <4>1. i \notin temps'
        BY <3>2, <1>1 DEF TempsTurn
      <4>2. ~Tmp(r)
        BY <4>1, <1>1, <1>2, <1>6 DEF TempsRight
      <4> QED
        BY <3>1, <3>2, <4>2, <1>1 DEF WholeTurn
    <3>3. CASE name' # i
      BY <3>1, <3>3, <1>0, <1>7, <1>8, <2>0 DEF WholeRight, NameIsWhole
    <3> QED
      BY <3>2, <3>3
  <2>3. ASSUME NEW g \in FileReq, InPlace(req'[g]) \/ req'[g].pc = "rename", how'[req'[g].ino] = "whole"
        PROVE  disk'[req'[g].ino] \in intended'
    <3>1. CASE g = f
      BY <3>1, <2>3, <1>2 DEF WholeTurn, Tmp, InPlace
    <3>2. CASE g # f
      <4>1. /\ InPlace(req[g]) \/ req[g].pc = "rename"
            /\ req'[g].ino = req[g].ino /\ req[g].ino \in Inode
        BY <3>2, <2>3, <1>3, <1>4 DEF Tmp
      <4>2. CASE req[g].ino = i
        <5>1. ~Tmp(r) /\ ~(Tmp(req[f]) /\ req[f].ino = i)
          BY <4>1, <4>2, <3>2, <2>1 DEF Tmp
        <5> QED
          BY <4>1, <4>2, <5>1, <2>3, <1>1 DEF WholeTurn
      <4>3. CASE req[g].ino # i
        BY <4>1, <4>3, <2>0, <2>3, <1>0, <1>7 DEF WholeRight
      <4> QED
        BY <4>2, <4>3
    <3> QED
      BY <3>1, <3>2
  <2>4. ASSUME NEW g \in FileReq, req'[g].pc = "tmpwrite", how'[req'[g].ino] = "whole" PROVE req'[g].clean
    <3>1. CASE g = f
      BY <3>1, <2>4, <1>2 DEF WholeTurn
    <3>2. CASE g # f
      <4>1. req'[g].ino = req[g].ino /\ req[g].pc = "tmpwrite" /\ req[g].ino \in Inode /\ Tmp(req[g]) /\ req'[g].clean = req[g].clean
        BY <3>2, <2>4, <1>3, <1>4 DEF Tmp
      <4>2. CASE req[g].ino = i
        <5>2. ~Tmp(r) /\ ~(Tmp(req[f]) /\ req[f].ino = i)
          BY <4>2, <4>1, <3>2, <2>1
        <5>3. i \in temps /\ i \in temps'
          BY <4>2, <4>1, <1>0, <1>6, <2>4, <1>3, <3>2 DEF TempsRight
        <5>4. how'[i] = how[i] => req[g].clean
          BY <4>2, <4>1, <2>4, <1>0 DEF WholeRight
        <5> QED
          BY <5>2, <5>3, <5>4, <2>4, <4>1, <1>1 DEF TempsTurn
      <4>3. CASE req[g].ino # i
        BY <4>1, <4>3, <2>4, <1>0, <1>7 DEF WholeRight
      <4> QED
        BY <4>2, <4>3
    <3> QED
      BY <3>1, <3>2
  <2> QED
    BY <2>2, <2>3, <2>4 DEF WholeRight
<1>11. UploadRight'
  <2>1. ASSUME NEW g \in FileReq, g # f, req'[g].pc = "chunk"
        PROVE  req[g].pc = "chunk" /\ req'[g].ino = req[g].ino /\ req[g].ino \in Inode /\ SentBy(req'[g]) = SentBy(req[g])
    BY <2>1, <1>3, <1>4 DEF InPlace
  <2>2. \/ how'[i] \notin {"whole", "uploading"}
        \/ \A g \in FileReq : g # f => ~(req[g].pc = "chunk" /\ req[g].ino = i)
        \/ r.pc # "chunk" /\ how'[i] = how[i] /\ disk'[i] = disk[i]
    BY <1>1 DEF UploadTurn
  <2>3. ASSUME NEW g \in FileReq, req'[g].pc = "chunk" PROVE how'[req'[g].ino] # "whole"
    <3>1. CASE g = f
      BY <3>1, <2>3, <1>2 DEF UploadTurn
    <3>2. CASE g # f
      BY <3>2, <2>1, <2>2, <2>3, <1>0, <1>7 DEF UploadRight
    <3> QED
      BY <3>1, <3>2
  <2>4. ASSUME NEW g \in FileReq, req'[g].pc = "chunk", how'[req'[g].ino] = "uploading" PROVE disk'[req'[g].ino] = SentBy(req'[g])
    <3>1. CASE g = f
      BY <3>1, <2>4, <1>2 DEF UploadTurn
    <3>2. CASE g # f
      BY <3>2, <2>1, <2>2, <2>4, <1>0, <1>7 DEF UploadRight
    <3> QED
      BY <3>1, <3>2
  <2>5. ASSUME NEW g \in FileReq, NEW h \in FileReq, req'[g].pc = "chunk", req'[h].pc = "chunk", req'[h].ino = req'[g].ino,
               how'[req'[g].ino] = "uploading"
        PROVE  h = g
    <3>1. ASSUME NEW k \in FileReq, k # f, req'[k].pc = "chunk", req'[k].ino = i, r.pc = "chunk", how'[i] = "uploading" PROVE FALSE
      BY <3>1, <2>1, <2>2
    <3>2. CASE g = f /\ h # f
      BY <3>2, <3>1, <2>5, <1>1, <1>2
    <3>3. CASE h = f /\ g # f
      BY <3>3, <3>1, <2>5, <1>1, <1>2
    <3>4. CASE g # f /\ h # f
      BY <3>4, <2>1, <2>2, <2>5, <1>0, <1>7 DEF UploadRight
    <3> QED
      BY <3>2, <3>3, <3>4
  <2> QED
    BY <2>3, <2>4, <2>5 DEF UploadRight
<1> QED
  BY <1>5, <1>6, <1>9, <1>10, <1>11 DEF FileInv
\* What FileInv says of the request that moves.
LEMMA Mover ==
    ASSUME FileInv, NEW f \in FileReq
    PROVE  /\ IsReq(req[f]) /\ name \in Inode \cup {NoFile}
           /\ how \in [Inode -> {"free", "whole", "uploading", "mixed"}] /\ DOMAIN disk = Inode
           /\ Tmp(req[f]) => /\ req[f].ino \in Inode /\ req[f].ino \in temps /\ req[f].ino # name /\ how[req[f].ino] # "free"
                             /\ \A g \in FileReq : InPlace(req[g]) => req[g].ino # req[f].ino
           /\ InPlace(req[f]) => /\ req[f].ino \in Inode /\ req[f].ino \notin temps /\ how[req[f].ino] # "free"
                                 /\ how[req[f].ino] = "whole" => disk[req[f].ino] \in intended
<1>1. FileTypes /\ TempsRight /\ InUse /\ WholeRight
  BY DEF FileInv
<1>2. IsReq(req[f]) /\ name \in Inode \cup {NoFile} /\ DOMAIN disk = Inode /\ how \in [Inode -> {"free", "whole", "uploading", "mixed"}]
  BY <1>1 DEF FileTypes
<1>3. Tmp(req[f]) \/ InPlace(req[f]) => req[f].ino \in Inode
  BY <1>2 DEF IsReq
<1> QED
  BY <1>1, <1>2, <1>3 DEF TempsRight, InUse, WholeRight

LEMMA CreateTempStep ==
    ASSUME FileInv, NEW f \in FileReq, CreateTemp(f)
    PROVE  FileInv'
<1>0. FileTypes /\ TempsRight /\ InUse /\ UploadRight
  BY DEF FileInv
<1>1. PICK s : s = req[f] /\ IsReq(s) /\ s.pc = "temp"
  BY SMTT(30), <1>0 DEF FileTypes, CreateTemp
<1>2. PICK i \in Inode : /\ how[i] = "free" /\ temps' = temps \cup {i} /\ how' = [how EXCEPT ![i] = IF s.clean THEN "whole" ELSE "mixed"]
                         /\ req' = [req EXCEPT ![f] = [s EXCEPT !.pc = "tmpwrite", !.ino = i]]
  <2>1. (CHOOSE j \in Free : TRUE) \in Free
    BY DEF CreateTemp
  <2> QED
    BY <1>1, <2>1 DEF CreateTemp, Become, Free
<1>3. UNCHANGED <<disk, name, leaked, intended, fcrashed>>
  BY DEF CreateTemp
<1>4. PICK r : r = [s EXCEPT !.pc = "tmpwrite", !.ino = i]
  OBVIOUS
<1>5. r.pc = "tmpwrite" /\ r.ino = i /\ r.clean = s.clean /\ IsReq(r)
  BY <1>1, <1>4 DEF IsReq, Tmp, InPlace, Pcs
<1>6. Turned(f, r)
  BY <1>0, <1>2, <1>4, <1>5, Became
<1>7. /\ i \notin temps /\ i # name /\ name \in Inode \cup {NoFile}
      /\ \A g \in FileReq : InPlace(req[g]) => req[g].ino # i
  BY <1>0, <1>2, FileNumbers DEF TempsRight, InUse, FileTypes
<1>8. how' \in [Inode -> {"free", "whole", "uploading", "mixed"}] /\ (\A j \in Inode : j # i => how'[j] = how[j])
      /\ how'[i] = (IF s.clean THEN "whole" ELSE "mixed") /\ DOMAIN disk = Inode
  BY <1>0, <1>2 DEF FileTypes
<1>9. FilesTurn(r)
  BY <1>3, <1>5, <1>8 DEF FilesTurn
<1>10. TempsTurn(f, r)
  BY <1>1, <1>2, <1>3, <1>5, <1>7 DEF TempsTurn, Tmp, InPlace
<1>11. WholeTurn(f, r)
  BY <1>5, <1>8 DEF WholeTurn, Tmp
<1>12. UploadTurn(f, r)
  BY <1>5, <1>7 DEF UploadTurn, InPlace
<1> QED
  BY <1>6, <1>9, <1>10, <1>11, <1>12, FileMoves

\* The temporary file is written, renamed, or given up and removed.
LEMMA TempStep ==
    ASSUME FileInv, NEW f \in FileReq, TmpWrite(f) \/ Rename(f) \/ TmpFails(f) \/ RemoveTemp(f)
    PROVE  FileInv'
<1>1. PICK s : s = req[f] /\ IsReq(s) /\ Tmp(s)
  BY Mover DEF TmpWrite, Rename, TmpFails, RemoveTemp, Tmp
<1>2. PICK i \in Inode : /\ i = s.ino /\ i \in temps /\ i # name /\ how[i] # "free"
                         /\ \A g \in FileReq : InPlace(req[g]) => req[g].ino # i
  BY <1>1, Mover
<1>3. /\ name \in Inode \cup {NoFile} /\ how \in [Inode -> {"free", "whole", "uploading", "mixed"}] /\ DOMAIN disk = Inode
  BY Mover
<1>4. /\ s.pc = "rename" /\ how[i] = "whole" => disk[i] \in intended
      /\ s.pc = "tmpwrite" /\ how[i] = "whole" => s.clean
  BY <1>1, <1>2 DEF FileInv, WholeRight
<1>5. UNCHANGED <<leaked, how, fcrashed>>
  BY DEF TmpWrite, Rename, TmpFails, RemoveTemp
<1>6. PICK q \in {"rename", "over", "unlink"} : req' = [req EXCEPT ![f] = [s EXCEPT !.pc = q]] /\
         \/ s.pc = "tmpwrite" /\ TmpWrite(f) /\ q = "rename"
         \/ s.pc = "rename" /\ Rename(f) /\ q = "over"
         \/ TmpFails(f) /\ q = "unlink"
         \/ RemoveTemp(f) /\ q = "over"
  BY <1>1 DEF TmpWrite, Rename, TmpFails, RemoveTemp, Over, Become
<1>7. PICK r : r = [s EXCEPT !.pc = q]
  OBVIOUS
<1>8. r.pc = q /\ r.ino = i /\ r.clean = s.clean /\ IsReq(r)
  BY <1>1, <1>2, <1>6, <1>7 DEF IsReq, Tmp, InPlace, Pcs
<1>9. Turned(f, r)
  BY <1>6, <1>7, <1>8, Became DEF FileInv
<1>10. \/ q \in {"rename", "unlink"} /\ temps' = temps /\ name' = name
       \/ q = "over" /\ temps' = temps \ {i} /\ name' \in {name, i}
  BY <1>1, <1>2, <1>6 DEF TmpWrite, Rename, TmpFails, RemoveTemp
<1>11. /\ DOMAIN disk' = Inode /\ (\A j \in Inode : j # i => disk'[j] = disk[j]) /\ intended \subseteq intended'
       /\ (q = "rename" /\ how[i] = "whole" => disk'[i] \in intended')
       /\ (q = "over" => disk' = disk /\ intended' = intended /\ (name' = i => s.pc = "rename"))
  <2>1. CASE s.pc = "tmpwrite" /\ TmpWrite(f) /\ q = "rename"
    BY <2>1, <1>1, <1>2, <1>3, <1>4 DEF TmpWrite
  <2>2. CASE s.pc = "rename" /\ Rename(f) /\ q = "over"
    BY <2>2, <1>1, <1>2, <1>3, <1>4 DEF Rename
  <2>3. CASE TmpFails(f) /\ q = "unlink"
    BY <2>3, <1>1, <1>2, <1>3 DEF TmpFails
  <2>4. CASE RemoveTemp(f) /\ q = "over"
    BY <2>4, <1>1, <1>2, <1>3 DEF RemoveTemp
  <2> QED
    BY <1>6, <2>1, <2>2, <2>3, <2>4
<1>12. FilesTurn(r)
  BY <1>2, <1>3, <1>5, <1>8, <1>10, <1>11 DEF FilesTurn
<1>13. TempsTurn(f, r)
  BY <1>1, <1>2, <1>5, <1>8, <1>10 DEF TempsTurn, Tmp, InPlace
<1>14. WholeTurn(f, r)
  BY <1>1, <1>2, <1>4, <1>5, <1>8, <1>10, <1>11 DEF WholeTurn, Tmp, InPlace
<1>15. UploadTurn(f, r)
  BY <1>2, <1>8 DEF UploadTurn, InPlace
<1> QED
  BY <1>9, <1>12, <1>13, <1>14, <1>15, FileMoves
\* The file a request writes in place: the one the path names, or a free one.
LEMMA Opened ==
    ASSUME FileInv, name = NoFile => Free # {},
           NEW i, i = (IF name = NoFile THEN CHOOSE j \in Free : TRUE ELSE name)
    PROVE  /\ i \in Inode /\ i \notin temps
           /\ name = NoFile => how[i] = "free" /\ disk[i] = <<>> /\ \A g \in FileReq : InPlace(req[g]) => req[g].ino # i
           /\ name # NoFile => i = name /\ how[i] # "free" /\ (how[i] = "whole" => disk[i] \in intended)
<1>1. FileTypes /\ TempsRight /\ InUse /\ WholeRight
  BY DEF FileInv
<1>2. CASE name = NoFile
  <2>1. i \in Inode /\ how[i] = "free"
    <3>1. (CHOOSE j \in Free : TRUE) \in Free
      BY <1>2
    <3> QED
      BY <3>1, <1>2 DEF Free
  <2> QED
    BY <1>1, <1>2, <2>1 DEF TempsRight, InUse
<1>3. CASE name # NoFile
  BY <1>1, <1>3 DEF FileTypes, TempsRight, InUse, WholeRight, NameIsWhole
<1> QED
  BY <1>2, <1>3

LEMMA OpenAppendStep ==
    ASSUME FileInv, NEW f \in FileReq, OpenAppend(f)
    PROVE  FileInv'
<1>1. PICK i : i = (IF name = NoFile THEN CHOOSE j \in Free : TRUE ELSE name)
  BY SMTT(30)
<1>2. PICK c \in Payload : req' = [req EXCEPT ![f] = [Blank EXCEPT !.op = "append", !.pc = "append", !.ino = i, !.data = c]]
  BY <1>1 DEF OpenAppend, Become
<1>3. /\ req[f].pc = "new" /\ name' = i /\ UNCHANGED <<disk, temps, leaked, fcrashed>>
      /\ name = NoFile => how' = [how EXCEPT ![i] = "whole"] /\ intended' = intended \cup {<<>>}
      /\ name # NoFile => how' = how /\ intended' = intended
  BY <1>1 DEF OpenAppend
<1>4. /\ i \in Inode /\ i \notin temps
      /\ name = NoFile => how[i] = "free" /\ disk[i] = <<>> /\ \A g \in FileReq : InPlace(req[g]) => req[g].ino # i
      /\ name # NoFile => i = name /\ how[i] # "free" /\ (how[i] = "whole" => disk[i] \in intended)
  BY <1>1, Opened DEF OpenAppend
<1>5. /\ name \in Inode \cup {NoFile} /\ how \in [Inode -> {"free", "whole", "uploading", "mixed"}] /\ DOMAIN disk = Inode
  BY Mover
<1>6. PICK r : r = [Blank EXCEPT !.op = "append", !.pc = "append", !.ino = i, !.data = c]
  OBVIOUS
<1>7. r.pc = "append" /\ r.ino = i /\ IsReq(r)
  BY <1>4, <1>6 DEF Blank, IsReq, Tmp, InPlace, Pcs
<1>8. Turned(f, r)
  BY <1>2, <1>6, <1>7, Became DEF FileInv
<1>9. /\ how' \in [Inode -> {"free", "whole", "uploading", "mixed"}] /\ how'[i] # "free" /\ (\A j \in Inode : j # i => how'[j] = how[j])
      /\ (how'[i] = "whole" => disk'[i] \in intended') /\ intended \subseteq intended' /\ (name # NoFile => how' = how)
  BY <1>3, <1>4, <1>5
<1>10. FilesTurn(r)
  BY <1>3, <1>4, <1>5, <1>7, <1>9 DEF FilesTurn
<1>11. TempsTurn(f, r)
  BY <1>3, <1>4, <1>7 DEF TempsTurn, Tmp
<1>12. WholeTurn(f, r)
  BY <1>7, <1>9 DEF WholeTurn
<1>13. UploadTurn(f, r)
  BY <1>3, <1>4, <1>7, <1>9 DEF UploadTurn, InPlace
<1> QED
  BY <1>8, <1>10, <1>11, <1>12, <1>13, FileMoves

LEMMA OpenUploadStep ==
    ASSUME FileInv, NEW f \in FileReq, OpenUpload(f)
    PROVE  FileInv'
<1>0. /\ IsReq(req[f]) /\ name \in Inode \cup {NoFile} /\ how \in [Inode -> {"free", "whole", "uploading", "mixed"}] /\ DOMAIN disk = Inode
  BY Mover
<1>1. req[f].pc = "new" /\ UNCHANGED <<temps, leaked, intended, fcrashed>>
  BY DEF OpenUpload
<1>2. PICK i : i = (IF name = NoFile THEN CHOOSE j \in Free : TRUE ELSE name)
  OBVIOUS
<1>3. PICK c \in Payload :
        \/ req' = [req EXCEPT ![f] = [Blank EXCEPT !.op = "upload", !.pc = "over"]] /\ UNCHANGED <<disk, name, how>>
        \/ /\ name = NoFile => Free # {}
           /\ name' = i /\ disk' = [disk EXCEPT ![i] = <<>>]
           /\ how' = [how EXCEPT ![i] = IF Uploaders(i) = {} THEN "uploading" ELSE "mixed"]
           /\ req' = [g \in FileReq |->
                        IF g = f THEN [Blank EXCEPT !.op = "upload", !.pc = "chunk", !.ino = i, !.data = c]
                        ELSE IF req[g].pc = "reading" /\ req[g].ino = i THEN [req[g] EXCEPT !.clean = FALSE]
                        ELSE req[g]]
  BY ZenonT(40), <1>2 DEF OpenUpload, Become
<1>4. ASSUME req' = [req EXCEPT ![f] = [Blank EXCEPT !.op = "upload", !.pc = "over"]], UNCHANGED <<disk, name, how>>
      PROVE  FileInv'
  <2>1. PICK r : r = [Blank EXCEPT !.op = "upload", !.pc = "over"] /\ req' = [req EXCEPT ![f] = r]
    BY <1>4
  <2>2. IsReq(r) /\ ~Tmp(r) /\ ~InPlace(r)
    BY <2>1 DEF IsReq, Tmp, InPlace, Pcs, Blank
  <2> QED
    BY <1>1, <1>4, <2>1, <2>2, FileAside DEF Tmp, InPlace
<1>5. ASSUME /\ name = NoFile => Free # {}
             /\ name' = i /\ disk' = [disk EXCEPT ![i] = <<>>]
             /\ how' = [how EXCEPT ![i] = IF Uploaders(i) = {} THEN "uploading" ELSE "mixed"]
             /\ req' = [g \in FileReq |->
                          IF g = f THEN [Blank EXCEPT !.op = "upload", !.pc = "chunk", !.ino = i, !.data = c]
                          ELSE IF req[g].pc = "reading" /\ req[g].ino = i THEN [req[g] EXCEPT !.clean = FALSE]
                          ELSE req[g]]
      PROVE  FileInv'
  <2>1. i \in Inode /\ i \notin temps
    BY <1>2, <1>5, Opened
  <2>2. PICK r : r = [Blank EXCEPT !.op = "upload", !.pc = "chunk", !.ino = i, !.data = c]
    OBVIOUS
  <2>3. r.pc = "chunk" /\ r.ino = i /\ r.data = c /\ r.pos = 0 /\ r.clean = TRUE /\ r.op = "upload" /\ DOMAIN r = {"op", "pc", "ino", "data", "pos", "clean", "patch"}
    BY <2>2 DEF Blank
  <2>4. IsReq(r)
    <3>1. Len(c) \in Nat
      BY FileConstants
    <3>2. r.pos <= Len(r.data) /\ r.data \in Payload
      BY <2>3, <3>1
    <3>3. r.pc \in Pcs /\ ~Tmp(r)
      BY <2>3 DEF Pcs, Tmp
    <3>4. r.clean \in BOOLEAN
      BY <2>2 DEF Blank
    <3>5. r.op \in {"none", "read", "write", "append", "edit", "upload"} /\ r.pos \in Nat
      BY <2>3
    <3> QED
      BY <2>1, <2>3, <3>2, <3>3, <3>4, <3>5 DEF IsReq
  <2>5. Turned(f, r)
    <3>1. DOMAIN req' = FileReq /\ req'[f] = r
      BY <1>5, <2>2
    <3>2. ASSUME NEW g \in FileReq, g # f PROVE IsReq(req'[g]) /\ SameReq(req'[g], req[g])
      <4>1. PICK a : a = req[g] /\ IsReq(a)
        BY DEF FileInv, FileTypes
      <4>2. req'[g] = a \/ (a.pc = "reading" /\ req'[g] = [a EXCEPT !.clean = FALSE])
        BY <4>1, <3>2, <1>5
      <4>3. CASE req'[g] = a
        BY <4>1, <4>3 DEF SameReq
      <4>4. CASE a.pc = "reading" /\ req'[g] = [a EXCEPT !.clean = FALSE]
        <5>1. PICK b : b = [a EXCEPT !.clean = FALSE]
          OBVIOUS
        <5>2. /\ DOMAIN b = DOMAIN a /\ b.op = a.op /\ b.pc = "reading" /\ b.ino = a.ino /\ b.data = a.data
              /\ b.pos = a.pos /\ b.clean = FALSE
          BY <4>1, <4>4, <5>1 DEF IsReq
        <5>3. IsReq(b)
          BY <4>1, <5>2 DEF IsReq, Tmp, InPlace, Pcs
        <5> QED
          BY <4>1, <4>4, <5>1, <5>2, <5>3 DEF SameReq
      <4> QED
        BY <4>2, <4>3, <4>4
    <3> QED
      BY <3>1, <3>2, <2>4 DEF Turned
  <2>6. /\ how' \in [Inode -> {"free", "whole", "uploading", "mixed"}] /\ (\A j \in Inode : j # i => how'[j] = how[j])
        /\ how'[i] = (IF Uploaders(i) = {} THEN "uploading" ELSE "mixed")
        /\ DOMAIN disk' = Inode /\ (\A j \in Inode : j # i => disk'[j] = disk[j]) /\ disk'[i] = <<>>
    BY <1>0, <1>5, <2>1
  <2>7. FilesTurn(r)
    BY <1>1, <1>5, <2>1, <2>3, <2>6 DEF FilesTurn
  <2>8. TempsTurn(f, r)
    BY <1>1, <2>1, <2>3 DEF TempsTurn, Tmp
  <2>9. WholeTurn(f, r)
    BY <2>3, <2>6 DEF WholeTurn
  <2>10. UploadTurn(f, r)
    <3>1. SentBy(r) = <<>>
      BY <2>3 DEF SentBy
    <3>2. how'[i] = "uploading" => \A g \in FileReq : ~(req[g].pc = "chunk" /\ req[g].ino = i)
      BY <2>6 DEF Uploaders
    <3> QED
      BY <2>3, <2>6, <3>1, <3>2 DEF UploadTurn
  <2> QED
    BY <2>5, <2>7, <2>8, <2>9, <2>10, FileMoves
<1> QED
  BY <1>3, <1>4, <1>5
LEMMA AppendWriteStep ==
    ASSUME FileInv, NEW f \in FileReq, AppendWrite(f)
    PROVE  FileInv'
<1>0. /\ IsReq(req[f]) /\ name \in Inode \cup {NoFile} /\ how \in [Inode -> {"free", "whole", "uploading", "mixed"}] /\ DOMAIN disk = Inode
  BY Mover
<1>1. PICK s, i : s = req[f] /\ i = s.ino /\ IsReq(s) /\ s.pc = "append"
  BY <1>0 DEF AppendWrite
<1>2. i \in Inode /\ i \notin temps /\ how[i] # "free" /\ (how[i] = "whole" => disk[i] \in intended)
  BY <1>1, Mover DEF InPlace
<1>3. PICK k, c :
        /\ c = disk[i] \o SubSeq(s.data, 1, k) /\ disk' = [disk EXCEPT ![i] = c]
        /\ \/ intended' = intended \cup {c} /\ how' = how /\ how[i] = "whole"
           \/ intended' = intended /\ how[i] # "whole" /\ k = 0 /\ how' = how
           \/ intended' = intended /\ how' = [how EXCEPT ![i] = "mixed"]
        /\ DOMAIN req' = FileReq /\ req'[f] = [s EXCEPT !.pc = "over"]
        /\ \A g \in FileReq : g # f =>
             req'[g] = req[g] \/ (req[g].pc = "reading" /\ req'[g] = [req[g] EXCEPT !.clean = FALSE])
  <2>1. PICK k \in {0, Len(req[f].data)} \cup {Len(req[f].data) - 1} :
                    LET d == disk[req[f].ino] \o SubSeq(req[f].data, 1, k)
                        good == how[req[f].ino] = "whole" /\ k \in {0, Len(req[f].data)}
                    IN /\ disk' = [disk EXCEPT ![req[f].ino] = d]
                       /\ intended' = IF good THEN intended \cup {d} ELSE intended
                       /\ how' = [how EXCEPT ![req[f].ino] = IF good \/ k = 0 THEN @ ELSE "mixed"]
                       /\ req' = [g \in FileReq |->
                                    IF g = f THEN [req[f] EXCEPT !.pc = "over"]
                                    ELSE IF ~good /\ k # 0 /\ req[g].pc = "reading" /\ req[g].ino = req[f].ino
                                         THEN [req[g] EXCEPT !.clean = FALSE]
                                    ELSE req[g]]
    BY DEF AppendWrite
  <2>2. PICK c : c = disk[i] \o SubSeq(s.data, 1, k)
    OBVIOUS
  <2>3. /\ DOMAIN req' = FileReq /\ req'[f] = [s EXCEPT !.pc = "over"]
        /\ \A g \in FileReq : g # f =>
             req'[g] = req[g] \/ (req[g].pc = "reading" /\ req'[g] = [req[g] EXCEPT !.clean = FALSE])
    BY <2>1, <1>1
  <2>4. CASE how[i] = "whole" /\ k \in {0, Len(s.data)}
    BY <2>1, <2>2, <2>3, <2>4, <1>0, <1>1, <1>2
  <2>5. CASE ~(how[i] = "whole" /\ k \in {0, Len(s.data)}) /\ k = 0
    BY <2>1, <2>2, <2>3, <2>5, <1>0, <1>1, <1>2
  <2>6. CASE ~(how[i] = "whole" /\ k \in {0, Len(s.data)}) /\ k # 0
    BY <2>1, <2>2, <2>3, <2>6, <1>0, <1>1, <1>2
  <2> QED
    BY <2>4, <2>5, <2>6
<1>4. PICK r : r = [s EXCEPT !.pc = "over"]
  OBVIOUS
<1>5. r.pc = "over" /\ r.ino = i /\ IsReq(r)
  BY <1>1, <1>2, <1>4 DEF IsReq, Tmp, InPlace, Pcs
<1>6. Turned(f, r)
  <2>1. DOMAIN req' = FileReq /\ req'[f] = r
    BY <1>3, <1>4
  <2>2. ASSUME NEW g \in FileReq, g # f PROVE IsReq(req'[g]) /\ SameReq(req'[g], req[g])
    <3>1. PICK a : a = req[g] /\ IsReq(a)
      BY DEF FileInv, FileTypes
    <3>2. req'[g] = a \/ (a.pc = "reading" /\ req'[g] = [a EXCEPT !.clean = FALSE])
      BY <3>1, <2>2, <1>3
    <3>3. CASE req'[g] = a
      BY <3>1, <3>3 DEF SameReq
    <3>4. CASE a.pc = "reading" /\ req'[g] = [a EXCEPT !.clean = FALSE]
      <4>1. PICK b : b = [a EXCEPT !.clean = FALSE]
        OBVIOUS
      <4>2. /\ DOMAIN b = DOMAIN a /\ b.op = a.op /\ b.pc = "reading" /\ b.ino = a.ino /\ b.data = a.data
            /\ b.pos = a.pos /\ b.clean = FALSE
        BY <3>1, <3>4, <4>1 DEF IsReq
      <4>3. IsReq(b)
        BY <3>1, <4>2 DEF IsReq, Tmp, InPlace, Pcs
      <4> QED
        BY <3>1, <3>4, <4>1, <4>2, <4>3 DEF SameReq
    <3> QED
      BY <3>2, <3>3, <3>4
  <2> QED
    BY <2>1, <2>2, <1>5 DEF Turned
<1>7. UNCHANGED <<name, temps, leaked, fcrashed>>
  BY DEF AppendWrite
<1>8. /\ how' \in [Inode -> {"free", "whole", "uploading", "mixed"}] /\ (\A j \in Inode : j # i => how'[j] = how[j])
      /\ DOMAIN disk' = Inode /\ (\A j \in Inode : j # i => disk'[j] = disk[j]) /\ disk'[i] = c
      /\ (how'[i] = "whole" => c \in intended') /\ intended \subseteq intended'
      /\ how'[i] = "mixed" \/ (how'[i] = "whole" /\ how[i] = "whole") \/ (how'[i] = "free" /\ how[i] = "free")
         \/ (how'[i] = "uploading" /\ how[i] = "uploading")
  BY <1>0, <1>2, <1>3
<1>9. FilesTurn(r)
  BY <1>2, <1>5, <1>7, <1>8 DEF FilesTurn
<1>10. TempsTurn(f, r)
  BY <1>1, <1>2, <1>5, <1>7, <1>8 DEF TempsTurn, Tmp, InPlace
<1>11. WholeTurn(f, r)
  BY <1>5, <1>8 DEF WholeTurn
<1>12. UploadTurn(f, r)
  <2>1. CASE how'[i] = "mixed" \/ how'[i] = "free"
    BY <2>1, <1>5 DEF UploadTurn
  <2>2. CASE how'[i] = "whole"
    <3>1. \A g \in FileReq : ~(req[g].pc = "chunk" /\ req[g].ino = i)
      BY <2>2, <1>8 DEF FileInv, UploadRight
    <3> QED
      BY <3>1, <1>5 DEF UploadTurn
  <2>3. CASE how'[i] = "uploading"
    <3>1. k = 0 /\ how[i] = "uploading"
      BY <2>3, <1>0, <1>2, <1>3, <1>8
    <3>2. ASSUME NEW g \in FileReq, req[g].pc = "chunk", req[g].ino = i PROVE disk'[i] = disk[i]
      <4>1. disk[i] = SentBy(req[g]) /\ IsReq(req[g])
        BY <3>1, <3>2 DEF FileInv, UploadRight, FileTypes
      <4>2. PICK n, d : n = req[g].pos /\ d = req[g].data /\ n \in Nat /\ d \in Payload /\ n <= Len(d)
        BY <4>1, <3>2 DEF IsReq, InPlace
      <4>3. PICK T : T = {d[m] : m \in 1..Len(d)}
        OBVIOUS
      <4>4. d \in Seq(T) /\ disk[i] = [m \in 1..n |-> d[m]]
        BY <4>1, <4>2, <4>3, FileConstants DEF SentBy
      <4>5. disk[i] \in Seq(T)
        <5>1. Len(d) \in Nat /\ \A m \in 1..Len(d) : d[m] \in T
          BY <4>3, <4>4
        <5>2. \A m \in 1..n : m \in 1..Len(d)
          BY <4>2, <5>1
        <5> QED
          BY <5>1, <5>2, <4>2, <4>4
      <4>6. SubSeq(s.data, 1, 0) = <<>>
        OBVIOUS
      <4>7. disk[i] \o <<>> = disk[i]
        BY <4>5
      <4> QED
        BY <4>6, <4>7, <3>1, <1>3, <1>8
    <3> QED
      BY <3>1, <3>2, <2>3, <1>5 DEF UploadTurn
  <2> QED
    BY <1>2, <1>8, <2>1, <2>2, <2>3
<1> QED
  BY <1>6, <1>9, <1>10, <1>11, <1>12, FileMoves

\* An upload that goes on, is complete or breaks off.
LEMMA UploadStep ==
    ASSUME FileInv, NEW f \in FileReq, UploadChunk(f) \/ UploadDone(f) \/ UploadFails(f)
    PROVE  FileInv'
<1>0. /\ IsReq(req[f]) /\ name \in Inode \cup {NoFile} /\ how \in [Inode -> {"free", "whole", "uploading", "mixed"}] /\ DOMAIN disk = Inode
  BY Mover
<1>1. PICK s, i : s = req[f] /\ i = s.ino /\ IsReq(s) /\ s.pc = "chunk"
  BY <1>0 DEF UploadChunk, UploadDone, UploadFails
<1>2. i \in Inode /\ i \notin temps /\ how[i] # "free"
  BY <1>1, Mover DEF InPlace
<1>3. /\ how[i] # "whole"
      /\ how[i] = "uploading" => disk[i] = SentBy(s) /\ \A g \in FileReq : req[g].pc = "chunk" /\ req[g].ino = i => g = f
  BY <1>1 DEF FileInv, UploadRight
<1>4. PICK n, d : n = s.pos /\ d = s.data /\ n \in Nat /\ d \in Payload /\ n <= Len(d)
  BY <1>1 DEF IsReq, InPlace
<1>5. PICK T : T = {d[m] : m \in 1..Len(d)}
  OBVIOUS
<1>6. d \in Seq(T) /\ Len(d) \in Nat /\ SentBy(s) = [m \in 1..n |-> d[m]]
  BY <1>4, <1>5, FileConstants DEF SentBy
<1>7. ASSUME UploadChunk(f) PROVE FileInv'
  <2>1. n < Len(d) /\ req' = [req EXCEPT ![f] = [s EXCEPT !.pos = @ + 1]] /\ UNCHANGED <<name, temps, leaked, how, intended, fcrashed>>
    BY <1>1, <1>4, <1>7 DEF UploadChunk, Become
  <2>2. PICK c : /\ disk' = [disk EXCEPT ![i] = c]
                 /\ c = [k \in 1..(IF Len(disk[i]) > n + 1 THEN Len(disk[i]) ELSE n + 1) |->
                           IF k = n + 1 THEN d[n + 1] ELSE IF k <= Len(disk[i]) THEN disk[i][k] ELSE Hole]
    BY <1>1, <1>2, <1>4, <1>0, <1>7 DEF UploadChunk
  <2>3. PICK r : r = [s EXCEPT !.pos = n + 1] /\ req' = [req EXCEPT ![f] = r]
    BY <1>4, <2>1
  <2>4. /\ DOMAIN r = {"op", "pc", "ino", "data", "pos", "clean", "patch"} /\ r.pc = "chunk" /\ r.ino = i /\ r.data = d
        /\ r.pos = n + 1 /\ r.op = s.op /\ r.clean = s.clean
    BY <1>1, <1>4, <2>3 DEF IsReq
  <2>5. IsReq(r)
    <3>1. n + 1 \in Nat /\ n + 1 <= Len(d)
      BY <1>4, <1>6, <2>1
    <3>2. r.op \in {"none", "read", "write", "append", "edit", "upload"} /\ r.clean \in BOOLEAN /\ r.pc \in Pcs
      BY <1>1, <2>4 DEF IsReq
    <3> QED
      BY <1>2, <1>4, <2>4, <3>1, <3>2 DEF IsReq
  <2>6. Turned(f, r)
    BY <2>3, <2>5, Became DEF FileInv
  <2>7. DOMAIN disk' = Inode /\ disk'[i] = c /\ \A j \in Inode : j # i => disk'[j] = disk[j]
    BY <1>0, <1>2, <2>2
  <2>8. FilesTurn(r)
    BY <1>0, <1>2, <2>1, <2>4, <2>7 DEF FilesTurn
  <2>9. TempsTurn(f, r)
    BY <1>1, <1>2, <2>1, <2>4 DEF TempsTurn, Tmp
  <2>10. WholeTurn(f, r)
    BY <1>3, <2>1, <2>4 DEF WholeTurn
  <2>11. UploadTurn(f, r)
    <3>1. ASSUME how[i] = "uploading" PROVE c = SentBy(r)
      <4>1. disk[i] = [m \in 1..n |-> d[m]] /\ Len(disk[i]) = n
        <5>1. disk[i] = [m \in 1..n |-> d[m]]
          BY <1>3, <1>6, <3>1
        <5> QED
          BY <5>1, <1>4, <1>6
      <4>2. c = [k \in 1..(n + 1) |-> IF k = n + 1 THEN d[n + 1] ELSE IF k <= n THEN disk[i][k] ELSE Hole]
        BY <2>2, <4>1, <1>4
      <4>3. SentBy(r) = [k \in 1..(n + 1) |-> d[k]]
        BY <2>4 DEF SentBy
      <4>4. \A k \in 1..(n + 1) : k # n + 1 => k \in 1..n /\ k <= n
        BY <1>4
      <4> QED
        BY <4>1, <4>2, <4>3, <4>4
    <3>2. how' = how
      BY <2>1
    <3> QED
      BY <1>1, <1>3, <2>4, <2>7, <3>1, <3>2 DEF UploadTurn
  <2> QED
    BY <2>6, <2>8, <2>9, <2>10, <2>11, FileMoves
<1>8. ASSUME UploadDone(f) \/ UploadFails(f) PROVE FileInv'
  <2>1. PICK r : r = [s EXCEPT !.pc = "over"] /\ req' = [req EXCEPT ![f] = r]
    BY <1>1, <1>8 DEF UploadDone, UploadFails, Over, Become
  <2>2. r.pc = "over" /\ r.ino = i /\ IsReq(r)
    BY <1>1, <1>2, <2>1 DEF IsReq, Tmp, InPlace, Pcs
  <2>3. Turned(f, r)
    BY <2>1, <2>2, Became DEF FileInv
  <2>4. UNCHANGED <<disk, temps, leaked, fcrashed>> /\ name' \in {name, NoFile}
    BY <1>8 DEF UploadDone, UploadFails
  <2>5. \/ how[i] = "uploading" /\ n = Len(d) /\ how' = [how EXCEPT ![i] = "whole"] /\ intended' = intended \cup {d}
        \/ UNCHANGED <<how, intended>>
    BY <1>1, <1>4, <1>8 DEF UploadDone, UploadFails
  <2>6. /\ how' \in [Inode -> {"free", "whole", "uploading", "mixed"}] /\ (\A j \in Inode : j # i => how'[j] = how[j])
        /\ intended \subseteq intended' /\ how'[i] # "free"
        /\ (how'[i] = "whole" => how[i] = "uploading" /\ n = Len(d) /\ d \in intended')
        /\ (how'[i] # "whole" => how'[i] = how[i])
    BY <1>0, <1>2, <1>3, <2>5
  <2>7. FilesTurn(r)
    BY <1>0, <1>2, <2>2, <2>4, <2>6 DEF FilesTurn
  <2>8. TempsTurn(f, r)
    BY <1>1, <1>2, <2>2, <2>4, FileNumbers, <1>0 DEF TempsTurn, Tmp, InPlace, FileInv, TempsRight
  <2>9. WholeTurn(f, r)
    <3>1. how'[i] = "whole" => disk[i] = d
      BY <1>3, <1>4, <1>6, <2>6
    <3> QED
      BY <2>2, <2>4, <2>6, <3>1 DEF WholeTurn
  <2>10. UploadTurn(f, r)
    BY <1>3, <2>2, <2>4, <2>6 DEF UploadTurn
  <2> QED
    BY <2>3, <2>7, <2>8, <2>9, <2>10, FileMoves
<1> QED
  BY <1>7, <1>8
\* The runtime dies: whatever temporary file there is has lost its owner.
LEMMA FilesCrashStep ==
    ASSUME FileInv, FilesCrash
    PROVE  FileInv'
<1>0. FileTypes /\ TempsRight /\ InUse /\ WholeRight
  BY DEF FileInv
<1>1. leaked' = temps /\ fcrashed' = TRUE /\ UNCHANGED <<disk, name, temps, how, intended>>
  BY DEF FilesCrash
<1>2. DOMAIN req' = FileReq
  BY DEF FilesCrash
<1>3. ASSUME NEW f \in FileReq PROVE IsReq(req'[f]) /\ ~Tmp(req'[f]) /\ ~InPlace(req'[f])
  <2>1. PICK s : s = req[f] /\ IsReq(s)
    BY <1>0 DEF FileTypes
  <2>2. CASE s.pc = "new"
    <3>1. req'[f] = s
      BY <2>1, <2>2 DEF FilesCrash
    <3> QED
      BY <2>1, <2>2, <3>1 DEF Tmp, InPlace
  <2>3. CASE s.pc # "new"
    <3>1. PICK r : r = [s EXCEPT !.pc = "over", !.op = "none"] /\ req'[f] = r
      BY <2>1, <2>3 DEF FilesCrash
    <3>2. /\ DOMAIN r = DOMAIN s /\ r.pc = "over" /\ r.op = "none" /\ r.ino = s.ino /\ r.data = s.data
          /\ r.pos = s.pos /\ r.clean = s.clean
      BY <2>1, <3>1 DEF IsReq
    <3> QED
      BY <2>1, <3>1, <3>2 DEF IsReq, Tmp, InPlace, Pcs
  <2> QED
    BY <2>2, <2>3
<1>4. FileTypes'
  BY <1>0, <1>1, <1>2, <1>3 DEF FileTypes
<1>5. TempsRight'
  BY <1>0, <1>1, <1>3 DEF TempsRight
<1>6. InUse'
  BY <1>0, <1>1, <1>3 DEF InUse
<1>7. \A f \in FileReq : req'[f].pc \notin {"rename", "tmpwrite", "chunk"}
  BY <1>3 DEF Tmp, InPlace
<1>8. WholeRight'
  BY <1>0, <1>1, <1>3, <1>7 DEF WholeRight, NameIsWhole
<1>9. UploadRight'
  BY <1>7 DEF UploadRight
<1> QED
  BY <1>4, <1>5, <1>6, <1>8, <1>9 DEF FileInv

LEMMA FilesStep == FileInv /\ [FilesNext]_fileVars => FileInv'
<1>1. ASSUME FileInv, FilesNext PROVE FileInv'
  <2>1. CASE FilesCrash
    BY <1>1, <2>1, FilesCrashStep
  <2>2. ASSUME NEW f \in FileReq,
               \/ OpenRead(f) \/ ReadPiece(f) \/ Edit(f) \/ ArriveWrite(f) \/ GiveUp(f)
               \/ CreateTemp(f) \/ TmpWrite(f) \/ Rename(f) \/ TmpFails(f) \/ RemoveTemp(f)
               \/ OpenAppend(f) \/ AppendWrite(f)
               \/ OpenUpload(f) \/ UploadChunk(f) \/ UploadDone(f) \/ UploadFails(f)
        PROVE  FileInv'
    BY <1>1, <2>2, ReaderStep, CreateTempStep, TempStep, OpenAppendStep, AppendWriteStep, OpenUploadStep, UploadStep
  <2> QED
    BY <1>1, <2>1, <2>2 DEF FilesNext
<1>2. ASSUME FileInv, UNCHANGED fileVars PROVE FileInv'
  <2>1. UNCHANGED <<disk, name, temps, leaked, req, how, intended, fcrashed>>
    BY <1>2 DEF fileVars
  <2>2. (FileTypes /\ TempsRight /\ InUse)'
    BY <1>2, <2>1 DEF FileInv, FileTypes, TempsRight, InUse
  <2>3. (WholeRight /\ UploadRight)'
    BY <1>2, <2>1 DEF FileInv, WholeRight, NameIsWhole, UploadRight, SentBy
  <2> QED
    BY <2>2, <2>3 DEF FileInv
<1> QED
  BY <1>1, <1>2

LEMMA FilesAreRight == FileInv => FilesTypeOK /\ NameIsWhole /\ TempsAreOwned
<1> SUFFICES ASSUME FileInv PROVE FilesTypeOK /\ NameIsWhole /\ TempsAreOwned
  OBVIOUS
<1>1. FilesTypeOK
  BY DEF FileInv, FileTypes, IsReq, FilesTypeOK
<1>2. TempsAreOwned
  <2>1. \A i \in temps \ leaked : i \in {req[f].ino : f \in {g \in FileReq : req[g].pc \in {"tmpwrite", "rename", "unlink"}}}
    BY DEF FileInv, TempsRight, Tmp
  <2>2. \A f \in FileReq : req[f].pc \in {"tmpwrite", "rename", "unlink"} => req[f].ino \in temps \ leaked
    BY DEF FileInv, TempsRight, Tmp
  <2> QED
    BY <2>1, <2>2 DEF TempsAreOwned
<1> QED
  BY <1>1, <1>2 DEF FileInv, WholeRight
-----------------------------------------------------------------------------
(* The edit handlers make sequences of sequences: the folds of FileAnswers  *)
(* are unfolded once and typed by FoldExists and FoldStays.                 *)

LEMMA ReplacedTyped ==
    ASSUME NEW U, NEW c \in Seq(U), NEW e, e.new \in Seq(U)
    PROVE  Replaced(c, e) \in Seq(U)
<1> DEFINE n == Len(c)
           d == [i \in DOMAIN c |-> i]
           spots == Hits(c, e.old)
           Inside(k) == \E h \in spots : h <= k /\ k < h + Len(e.old)
           Out(k, out) == IF k \in spots THEN out \o e.new ELSE IF Inside(k) THEN out ELSE Append(out, c[k])
           P(it) == it = [s \in SUBSET DOMAIN d |-> IF s = {} THEN <<>> ELSE
                            LET x == Max(s) IN Out(d[x], it[s \ {x}])]
           h == [w \in (1..n) \X Seq(U) |-> Out(w[1], w[2])]
           Final == CHOOSE it : P(it)
<1>1. n \in Nat /\ DOMAIN d = 1..n /\ \A k \in 1..n : d[k] = k /\ c[k] \in U
  OBVIOUS
<1>2. Replaced(c, e) = Final[DOMAIN d]
  BY DEF Replaced, FoldLeftDomain, FoldLeft, MapThenFoldSet
<1> HIDE DEF d, spots
<1>3. \A k \in 1..n, out \in Seq(U) : Out(k, out) \in Seq(U)
  BY <1>1
<1>4. h \in [(1..n) \X Seq(U) -> Seq(U)] /\ \A k \in 1..n, out \in Seq(U) : h[<<k, out>>] = Out(k, out)
  BY <1>3
<1> HIDE DEF h, Out, n
<1>5. PICK g \in [SUBSET (1..n) -> Seq(U)] : FoldsTo(g, n, <<>>, h)
  <2> DEFINE V == Seq(U)
  <2>1. n \in Nat /\ <<>> \in V /\ h \in [(1..n) \X V -> V]
    BY <1>1, <1>4
  <2> HIDE DEF V
  <2>2. \E g \in [SUBSET (1..n) -> V] : FoldsTo(g, n, <<>>, h)
    BY ONLY <2>1, FoldExists
  <2> QED
    BY <2>2 DEF V
<1>6. P(g)
  <2>1. ASSUME NEW s \in SUBSET (1..n), s # {} PROVE g[s] = Out(d[Max(s)], g[s \ {Max(s)}])
    <3>1. Max(s) \in 1..n /\ s \ {Max(s)} \in SUBSET (1..n)
      BY <1>1, <2>1, MaxIs
    <3>2. g[s \ {Max(s)}] \in Seq(U)
      BY <1>5, <3>1
    <3>3. g[s] = h[<<Max(s), g[s \ {Max(s)}]>>]
      BY <1>5, <2>1 DEF FoldsTo
    <3> QED
      BY <1>1, <1>4, <3>1, <3>2, <3>3
  <2>2. g[{}] = <<>>
    BY <1>5 DEF FoldsTo
  <2> QED
    BY <1>1, <1>5, <2>1, <2>2
<1>7. P(Final)
  BY <1>6
<1> HIDE DEF Final
<1>8. Final[1..n] \in Seq(U)
  <2>1. Final[{}] \in Seq(U)
    BY <1>7
  <2>2. ASSUME NEW s \in SUBSET (1..n), s # {}, Final[s \ {Max(s)}] \in Seq(U) PROVE Final[s] \in Seq(U)
    <3>1. Max(s) \in 1..n
      BY <1>1, <2>2, MaxIs
    <3>2. Final[s] = Out(Max(s), Final[s \ {Max(s)}])
      BY <1>1, <1>7, <2>2, <3>1
    <3> QED
      BY <1>3, <2>2, <3>1, <3>2
  <2> QED
    BY <1>1, <2>1, <2>2, FoldStays
<1> QED
  BY <1>1, <1>2, <1>8

\* A list of edits that put in symbols of U.
Edits(p, U) == \E E : p \in Seq(E) /\ \A k \in 1..Len(p) : p[k].new \in Seq(U)

LEMMA EditTyped ==
    ASSUME NEW U, NEW c \in Seq(U), NEW p, Edits(p, U)
    PROVE  MultiEdit(c, p) \in [ok : BOOLEAN, content : Seq(U)]
<1> DEFINE n == Len(p)
           begin == [ok |-> TRUE, content |-> c]
           V == [ok : BOOLEAN, content : Seq(U)]
           Out(e, a) == IF a.ok /\ Accepts(a.content, e) THEN [ok |-> TRUE, content |-> Replaced(a.content, e)]
                        ELSE [a EXCEPT !.ok = FALSE]
           P(it) == it = [s \in SUBSET DOMAIN p |-> IF s = {} THEN begin ELSE
                            LET x == Max(s) IN Out(p[x], it[s \ {x}])]
           h == [w \in (1..n) \X V |-> Out(p[w[1]], w[2])]
           Final == CHOOSE it : P(it)
<1>0. PICK E : p \in Seq(E) /\ \A k \in 1..Len(p) : p[k].new \in Seq(U)
  BY DEF Edits
<1>1. n \in Nat /\ DOMAIN p = 1..n /\ begin \in V
  BY <1>0
<1>2. MultiEdit(c, p) = Final[DOMAIN p]
  BY DEF MultiEdit, FoldLeft, MapThenFoldSet
<1>3. \A k \in 1..n, a \in V : Out(p[k], a) \in V
  <2> SUFFICES ASSUME NEW k \in 1..n, NEW a \in V PROVE Out(p[k], a) \in V
    OBVIOUS
  <2>1. Replaced(a.content, p[k]) \in Seq(U)
    BY <1>0, ReplacedTyped
  <2> QED
    BY <2>1
<1> HIDE DEF V, begin, Out
<1>4. h \in [(1..n) \X V -> V] /\ \A k \in 1..n, a \in V : h[<<k, a>>] = Out(p[k], a)
  BY <1>3
<1> HIDE DEF h, n
<1>5. PICK g \in [SUBSET (1..n) -> V] : FoldsTo(g, n, begin, h)
  BY <1>1, <1>4, FoldExists
<1>6. P(g)
  <2>1. ASSUME NEW s \in SUBSET (1..n), s # {} PROVE g[s] = Out(p[Max(s)], g[s \ {Max(s)}])
    <3>1. Max(s) \in 1..n /\ s \ {Max(s)} \in SUBSET (1..n)
      BY <1>1, <2>1, MaxIs
    <3>2. g[s \ {Max(s)}] \in V
      BY <1>5, <3>1
    <3>3. g[s] = h[<<Max(s), g[s \ {Max(s)}]>>]
      BY <1>5, <2>1 DEF FoldsTo
    <3> QED
      BY <1>1, <1>4, <3>1, <3>2, <3>3
  <2>2. g[{}] = begin
    BY <1>5 DEF FoldsTo
  <2> QED
    BY <1>1, <1>5, <2>1, <2>2
<1>7. P(Final)
  BY <1>6
<1> HIDE DEF Final
<1>8. Final[1..n] \in V
  <2>1. Final[{}] \in V
    BY <1>1, <1>7
  <2>2. ASSUME NEW s \in SUBSET (1..n), s # {}, Final[s \ {Max(s)}] \in V PROVE Final[s] \in V
    <3>1. Max(s) \in 1..n
      BY <1>1, <2>2, MaxIs
    <3>2. Final[s] = Out(p[Max(s)], Final[s \ {Max(s)}])
      BY <1>1, <1>7, <2>2, <3>1
    <3> QED
      BY <1>3, <2>2, <3>1, <3>2
  <2> QED
    BY <1>1, <2>1, <2>2, FoldStays
<1> QED
  BY <1>1, <1>2, <1>8 DEF V
-----------------------------------------------------------------------------
(* What readers are given.                                                 *)

\* All that may come to stand in a file.
SentEdits == UNION {{p[k] : k \in 1..Len(p)} : p \in Patch}
EditSymbol == UNION {{e.new[j] : j \in 1..Len(e.new)} : e \in SentEdits}
Symbol == {Hole} \cup (UNION {{c[k] : k \in 1..Len(c)} : c \in Payload}) \cup EditSymbol

LEMMA PayloadTyped == \A c \in Payload : c \in Seq(Symbol)
<1> SUFFICES ASSUME NEW c \in Payload PROVE c \in Seq(Symbol)
  OBVIOUS
<1>1. c \in Seq({c[k] : k \in 1..Len(c)})
  BY FileConstants
<1>2. {c[k] : k \in 1..Len(c)} \subseteq Symbol
  BY DEF Symbol
<1>3. Len(c) \in Nat /\ DOMAIN c = 1..Len(c) /\ \A k \in 1..Len(c) : c[k] \in {c[j] : j \in 1..Len(c)}
  BY <1>1
<1>4. c = [k \in 1..Len(c) |-> c[k]]
  BY <1>1
<1>5. \A k \in 1..Len(c) : c[k] \in Symbol
  BY <1>2, <1>3
<1> QED
  BY <1>3, <1>4, <1>5

LEMMA PatchTyped == \A p \in Patch : Edits(p, Symbol)
<1> SUFFICES ASSUME NEW p \in Patch PROVE Edits(p, Symbol)
  OBVIOUS
<1>1. /\ p \in Seq({p[k] : k \in 1..Len(p)})
      /\ \A k \in 1..Len(p) : p[k].new \in Seq({p[k].new[j] : j \in 1..Len(p[k].new)})
  BY FileConstants
<1>2. ASSUME NEW k \in 1..Len(p) PROVE p[k].new \in Seq(Symbol)
  <2>1. PICK w : w = p[k].new /\ w \in Seq({w[j] : j \in 1..Len(w)})
    BY <1>1
  <2>2. ASSUME NEW j \in 1..Len(w) PROVE w[j] \in Symbol
    <3>1. PICK e : e = p[k]
      OBVIOUS
    <3>2. e \in SentEdits
      BY <3>1 DEF SentEdits
    <3>3. w[j] \in {e.new[l] : l \in 1..Len(e.new)}
      BY <2>1, <2>2, <3>1
    <3>4. w[j] \in EditSymbol
      BY <3>2, <3>3 DEF EditSymbol
    <3> QED
      BY <3>4 DEF Symbol
  <2>3. Len(w) \in Nat /\ DOMAIN w = 1..Len(w) /\ w = [j \in 1..Len(w) |-> w[j]]
    BY <2>1
  <2> QED
    BY SMTT(30), <2>1, <2>2, <2>3
<1> QED
  BY <1>1, <1>2 DEF Edits

\* What a clean reader has read is the beginning of a file that is whole, that some
\* request meant and that is nobody's temporary file.
ReadOn(r, d, w, t, i) ==
    /\ r.ino \in Inode /\ r.ino \notin t /\ w[r.ino] # "free"
    /\ r.clean => /\ w[r.ino] = "whole" /\ d[r.ino] \in i /\ r.pos <= Len(d[r.ino])
                  /\ r.data = SubSeq(d[r.ino], 1, r.pos)
Reader(r, d, w, t, i) ==
    /\ r.data \in Seq(Symbol) /\ (r.op = "edit" => r.patch \in Patch)
    /\ r.op = "read" => r.pc \in {"reading", "over"}
    /\ r.pc = "reading" => ReadOn(r, d, w, t, i)
    /\ r.op = "read" /\ r.pc = "over" /\ r.clean => r.data \in i
ReadInv ==
    /\ \A i \in Inode : disk[i] \in Seq(Symbol)
    /\ \A f \in FileReq : Reader(req[f], disk, how, temps, intended)

LEMMA ReadInitInv == FilesInit => ReadInv
<1> SUFFICES ASSUME FilesInit PROVE ReadInv
  OBVIOUS
<1>1. \A f \in FileReq : req[f] = Blank
  BY DEF FilesInit
<1>2. Reader(Blank, disk, how, temps, intended)
  BY DEF Blank, Reader
<1>3. ASSUME NEW i \in Inode PROVE disk[i] \in Seq(Symbol)
  <2>1. disk[i] = <<>> \/ disk[i] \in Payload
    BY DEF FilesInit, Inode
  <2>2. <<>> \in Seq(Symbol)
    OBVIOUS
  <2> QED
    BY <2>1, <2>2, PayloadTyped
<1> QED
  BY <1>1, <1>2, <1>3 DEF ReadInv

\* A reader is left alone by a step that keeps the file it reads, or extends it.
Spared(r, d, w, t, e, v, u, j) ==
    r.pc = "reading" /\ r.ino \in Inode /\ r.ino \notin t /\ w[r.ino] # "free" =>
        /\ r.ino \notin u /\ v[r.ino] # "free"
        /\ r.clean /\ w[r.ino] = "whole" =>
               /\ v[r.ino] = "whole"
               /\ \/ e[r.ino] = d[r.ino]
                  \/ /\ d[r.ino] \in Seq(Symbol) /\ e[r.ino] \in j
                     /\ \E c \in Seq(Symbol) : e[r.ino] = d[r.ino] \o c

LEMMA ReaderKept ==
    ASSUME NEW r, IsReq(r), NEW d, NEW w, NEW t, NEW i, Reader(r, d, w, t, i), NEW e, NEW v, NEW u, NEW j, i \subseteq j,
           Spared(r, d, w, t, e, v, u, j)
    PROVE  Reader(r, e, v, u, j)
<1>1. CASE r.pc # "reading"
  BY <1>1 DEF Reader
<1>2. CASE r.pc = "reading" /\ ~r.clean
  BY <1>2 DEF Reader, ReadOn, Spared
<1>3. CASE r.pc = "reading" /\ r.clean
  <2>1. PICK n, a, b : n = r.pos /\ a = d[r.ino] /\ b = e[r.ino]
    OBVIOUS
  <2>2. /\ r.ino \in Inode /\ r.ino \notin t /\ w[r.ino] # "free" /\ w[r.ino] = "whole" /\ a \in i
        /\ n \in Nat /\ n <= Len(a) /\ r.data = SubSeq(a, 1, n)
    BY <1>3, <2>1 DEF Reader, ReadOn, IsReq
  <2>3. CASE b = a
    BY <1>3, <2>1, <2>2, <2>3 DEF Reader, ReadOn, Spared
  <2>4. CASE a \in Seq(Symbol) /\ b \in j /\ \E c \in Seq(Symbol) : b = a \o c
    <3>1. PICK c \in Seq(Symbol) : b = a \o c
      BY <2>4
    <3>2. Len(b) = Len(a) + Len(c) /\ Len(a) \in Nat /\ Len(c) \in Nat /\ n <= Len(b)
      BY <2>2, <2>4, <3>1
    <3>3. SubSeq(b, 1, n) = SubSeq(a, 1, n)
      <4>1. \A k \in 1..n : b[k] = a[k]
        BY <2>2, <2>4, <3>1
      <4> QED
        BY <2>2, <2>4, <3>1, <3>2, <4>1
    <3> QED
      BY <1>3, <2>1, <2>2, <2>4, <3>2, <3>3 DEF Reader, ReadOn, Spared
  <2> QED
    BY <1>3, <2>1, <2>2, <2>3, <2>4 DEF Spared
<1> QED
  BY <1>1, <1>2, <1>3 DEF IsReq

\* A step of one request, which moves on to r.
LEMMA OneRequest ==
    ASSUME FileInv, ReadInv, NEW f \in FileReq, NEW r, req' = [req EXCEPT ![f] = r], intended \subseteq intended',
           Reader(r, disk', how', temps', intended'), \A i \in Inode : disk'[i] \in Seq(Symbol),
           \A i \in Inode \ temps : how[i] # "free" =>
               /\ i \notin temps' /\ how'[i] # "free"
               /\ how[i] = "whole" => how'[i] = "whole" /\ disk'[i] = disk[i]
    PROVE  ReadInv'
<1>1. DOMAIN req' = FileReq /\ \A g \in FileReq : req'[g] = IF g = f THEN r ELSE req[g]
  BY DEF FileInv, FileTypes
<1>2. ASSUME NEW g \in FileReq, g # f PROVE Reader(req'[g], disk', how', temps', intended')
  <2>1. IsReq(req[g]) /\ Reader(req[g], disk, how, temps, intended) /\ req'[g] = req[g]
    BY <1>1, <1>2 DEF FileInv, FileTypes, ReadInv
  <2>2. Spared(req[g], disk, how, temps, disk', how', temps', intended')
    BY <2>1 DEF Spared
  <2> QED
    BY <2>1, <2>2, ReaderKept
<1> QED
  BY <1>1, <1>2 DEF ReadInv

\* The request that moves.
LEMMA ReadMover ==
    ASSUME FileInv, ReadInv, NEW f \in FileReq
    PROVE  /\ IsReq(req[f]) /\ Reader(req[f], disk, how, temps, intended) /\ name \in Inode \cup {NoFile}
           /\ \A i \in Inode : disk[i] \in Seq(Symbol)
           /\ how \in [Inode -> {"free", "whole", "uploading", "mixed"}] /\ DOMAIN disk = Inode
BY DEF FileInv, FileTypes, ReadInv

LEMMA OpenReadOn ==
    ASSUME FileInv, ReadInv, NEW f \in FileReq, OpenRead(f)
    PROVE  ReadInv'
<1>0. /\ name \in Inode \cup {NoFile} /\ (name # NoFile => how[name] # "free" /\ name \notin temps)
      /\ (name # NoFile /\ how[name] = "whole" => disk[name] \in intended)
  BY DEF FileInv, FileTypes, InUse, TempsRight, WholeRight, NameIsWhole
<1>1. UNCHANGED <<disk, name, temps, leaked, how, intended, fcrashed>>
  BY DEF OpenRead
<1>2. PICK op \in {"read", "edit"}, p \in Patch :
         \/ req' = [req EXCEPT ![f] = [Blank EXCEPT !.op = "none", !.pc = "over"]]
         \/ /\ name # NoFile
            /\ req' = [req EXCEPT ![f] = [Blank EXCEPT !.op = op, !.pc = "reading", !.ino = name,
                                                       !.clean = (how[name] = "whole"), !.patch = p]]
  BY DEF OpenRead, Become
<1>3. <<>> \in Seq(Symbol)
  OBVIOUS
<1>4. \A i \in Inode : disk[i] \in Seq(Symbol)
  BY DEF ReadInv
<1>5. CASE req' = [req EXCEPT ![f] = [Blank EXCEPT !.op = "none", !.pc = "over"]]
  <2>1. PICK r : r = [Blank EXCEPT !.op = "none", !.pc = "over"]
    OBVIOUS
  <2>2. Reader(r, disk, how, temps, intended)
    BY <2>1, <1>3 DEF Reader, Blank
  <2> QED
    BY <1>1, <1>4, <1>5, <2>1, <2>2, OneRequest
<1>6. CASE /\ name # NoFile
           /\ req' = [req EXCEPT ![f] = [Blank EXCEPT !.op = op, !.pc = "reading", !.ino = name,
                                                      !.clean = (how[name] = "whole"), !.patch = p]]
  <2>1. PICK r : r = [Blank EXCEPT !.op = op, !.pc = "reading", !.ino = name, !.clean = (how[name] = "whole"), !.patch = p]
    OBVIOUS
  <2>2. r.op = op /\ r.pc = "reading" /\ r.ino = name /\ r.clean = (how[name] = "whole") /\ r.patch = p /\ r.data = <<>> /\ r.pos = 0
    BY <2>1 DEF Blank
  <2>3. name \in Inode /\ Len(disk[name]) \in Nat /\ SubSeq(disk[name], 1, 0) = <<>>
    BY <1>0, <1>4, <1>6
  <2>5. r.clean => how[name] = "whole" /\ disk[name] \in intended
    BY <1>0, <1>6, <2>2
  <2>4. Reader(r, disk, how, temps, intended)
    <3>1. ReadOn(r, disk, how, temps, intended)
      BY <1>0, <1>6, <2>2, <2>3, <2>5 DEF ReadOn
    <3> QED
      BY <1>3, <2>2, <3>1 DEF Reader
  <2> QED
    BY <1>1, <1>4, <1>6, <2>1, <2>4, OneRequest
<1> QED
  BY <1>2, <1>5, <1>6

LEMMA ReadPieceOn ==
    ASSUME FileInv, ReadInv, NEW f \in FileReq, ReadPiece(f)
    PROVE  ReadInv'
<1>1. PICK s, c : s = req[f] /\ IsReq(s) /\ Reader(s, disk, how, temps, intended) /\ s.pc = "reading" /\ c = disk[s.ino]
  BY ReadMover DEF ReadPiece
<1>2. s.ino \in Inode /\ c \in Seq(Symbol) /\ s.pos \in Nat /\ s.data \in Seq(Symbol) /\ \A i \in Inode : disk[i] \in Seq(Symbol)
  BY <1>1, ReadMover DEF Reader, ReadOn, IsReq
<1>3. UNCHANGED <<disk, name, temps, leaked, how, intended, fcrashed>>
  BY DEF ReadPiece
<1>4. PICK r : /\ r = IF s.pos < Len(c) THEN [s EXCEPT !.data = Append(@, c[s.pos + 1]), !.pos = @ + 1]
                      ELSE [s EXCEPT !.pc = IF s.op = "read" THEN "over" ELSE "read"]
               /\ req' = [req EXCEPT ![f] = r]
  BY <1>1 DEF ReadPiece, Become
<1>5. CASE s.pos < Len(c)
  <2>1. /\ r.data = Append(s.data, c[s.pos + 1]) /\ r.pos = s.pos + 1 /\ r.pc = "reading" /\ r.ino = s.ino
        /\ r.clean = s.clean /\ r.op = s.op /\ r.patch = s.patch
    BY <1>1, <1>4, <1>5 DEF IsReq
  <2>2. r.data \in Seq(Symbol) /\ r.pos <= Len(c)
    BY <1>2, <1>5, <2>1
  <2>3. ASSUME r.clean PROVE r.data = SubSeq(c, 1, r.pos)
    <3>1. s.data = SubSeq(c, 1, s.pos)
      BY <1>1, <2>1, <2>3 DEF Reader, ReadOn
    <3>2. SubSeq(c, 1, s.pos + 1) = Append(SubSeq(c, 1, s.pos), c[s.pos + 1])
      <4>1. PICK n : n = s.pos /\ n \in Nat /\ n + 1 \in 1..Len(c)
        BY <1>2, <1>5
      <4>2. PICK a, b : a = SubSeq(c, 1, n + 1) /\ b = Append(SubSeq(c, 1, n), c[n + 1])
        OBVIOUS
      <4>3. a \in Seq(Symbol) /\ Len(a) = n + 1 /\ \A k \in 1..(n + 1) : a[k] = c[k]
        BY <1>2, <4>1, <4>2
      <4>4. b \in Seq(Symbol) /\ Len(b) = n + 1 /\ \A k \in 1..(n + 1) : b[k] = c[k]
        <5>1. PICK d : d = SubSeq(c, 1, n) /\ b = Append(d, c[n + 1])
          BY <4>2
        <5>2. d \in Seq(Symbol) /\ Len(d) = n /\ \A k \in 1..n : d[k] = c[k]
          BY <1>2, <4>1, <5>1
        <5>3. c[n + 1] \in Symbol
          BY <1>2, <4>1
        <5>4. PICK x : x = c[n + 1] /\ x \in Symbol /\ b = Append(d, x)
          BY <5>1, <5>3
        <5>5. b \in Seq(Symbol) /\ Len(b) = n + 1
          BY <4>1, <5>2, <5>4
        <5>6. b[n + 1] = x /\ \A k \in 1..n : b[k] = d[k]
          BY <4>1, <5>2, <5>4
        <5> QED
          BY <4>1, <5>2, <5>4, <5>5, <5>6
      <4>5. a = b
        BY SMTT(30), <4>1, <4>3, <4>4
      <4> QED
        BY <4>1, <4>2, <4>5
    <3> QED
      BY <2>1, <3>1, <3>2
  <2>4. Reader(r, disk, how, temps, intended)
    BY <1>1, <2>1, <2>2, <2>3 DEF Reader, ReadOn
  <2> QED
    BY <1>2, <1>3, <1>4, <2>4, OneRequest
<1>6. CASE ~(s.pos < Len(c))
  <2>1. /\ r.data = s.data /\ r.pc = (IF s.op = "read" THEN "over" ELSE "read") /\ r.clean = s.clean /\ r.op = s.op /\ r.patch = s.patch
    BY <1>1, <1>4, <1>6 DEF IsReq
  <2>2. s.clean => s.data = c /\ c \in intended
    <3>1. SubSeq(c, 1, Len(c)) = c
      BY <1>2
    <3>2. s.clean => s.pos = Len(c) /\ s.data = SubSeq(c, 1, s.pos) /\ c \in intended
      BY <1>1, <1>2, <1>6 DEF Reader, ReadOn
    <3> QED
      BY <3>1, <3>2
  <2>3. Reader(r, disk, how, temps, intended)
    BY <1>1, <1>2, <2>1, <2>2 DEF Reader
  <2> QED
    BY <1>2, <1>3, <1>4, <2>3, OneRequest
<1> QED
  BY <1>5, <1>6

\* What is written is computed first; then a request may end without touching a file.
LEMMA EditOn ==
    ASSUME FileInv, ReadInv, NEW f \in FileReq, Edit(f) \/ ArriveWrite(f) \/ GiveUp(f) \/ Rename(f) \/ RemoveTemp(f)
    PROVE  ReadInv'
<1>1. PICK s : s = req[f] /\ IsReq(s) /\ Reader(s, disk, how, temps, intended)
  BY ReadMover
<1>2. disk' = disk /\ how' = how /\ intended' = intended /\ temps' \subseteq temps /\ \A i \in Inode : disk[i] \in Seq(Symbol)
  BY ReadMover DEF Edit, ArriveWrite, GiveUp, Rename, RemoveTemp
<1>3. \E r : req' = [req EXCEPT ![f] = r] /\ Reader(r, disk, how, temps', intended)
  <2>1. CASE Edit(f)
    <3>1. s.data \in Seq(Symbol) /\ Edits(s.patch, Symbol) /\ s.op = "edit" /\ s.pc = "read"
      BY <1>1, <2>1, PatchTyped DEF Reader, Edit, Doing
    <3>2. PICK done : /\ done = MultiEdit(s.data, s.patch)
                      /\ req' = [req EXCEPT ![f] = IF done.ok THEN [s EXCEPT !.pc = "temp", !.data = done.content]
                                                   ELSE [s EXCEPT !.pc = "over"]]
      BY <1>1, <2>1 DEF Edit, Become, Over
    <3>3. done.content \in Seq(Symbol)
      BY <3>1, <3>2, EditTyped
    <3>4. PICK r : r = IF done.ok THEN [s EXCEPT !.pc = "temp", !.data = done.content] ELSE [s EXCEPT !.pc = "over"]
      OBVIOUS
    <3>5. r.pc \in {"temp", "over"} /\ r.data \in Seq(Symbol) /\ r.op = "edit" /\ r.patch = s.patch
      BY <1>1, <3>1, <3>3, <3>4 DEF IsReq
    <3>6. Reader(r, disk, how, temps', intended)
      BY <1>1, <3>1, <3>5 DEF Reader
    <3> QED
      BY <3>2, <3>4, <3>6
  <2>2. CASE ArriveWrite(f)
    <3>1. PICK c \in Payload : req' = [req EXCEPT ![f] = [Blank EXCEPT !.op = "write", !.pc = "temp", !.data = c]]
      BY <2>2 DEF ArriveWrite, Become
    <3>2. Reader([Blank EXCEPT !.op = "write", !.pc = "temp", !.data = c], disk, how, temps', intended)
      BY PayloadTyped DEF Reader, Blank
    <3> QED
      BY <3>1, <3>2
  <2>3. CASE GiveUp(f) \/ Rename(f) \/ RemoveTemp(f)
    <3>1. req' = [req EXCEPT ![f] = [s EXCEPT !.pc = "over"]] /\ s.pc \in {"temp", "rename", "unlink"}
      BY <1>1, <2>3 DEF GiveUp, Rename, RemoveTemp, Over, Become
    <3>2. PICK r : r = [s EXCEPT !.pc = "over"]
      OBVIOUS
    <3>3. r.pc = "over" /\ r.data = s.data /\ r.op = s.op /\ r.patch = s.patch
      BY <1>1, <3>2 DEF IsReq
    <3>4. Reader(r, disk, how, temps', intended)
      BY <1>1, <3>1, <3>3 DEF Reader
    <3> QED
      BY <3>1, <3>2, <3>4
  <2> QED
    BY <2>1, <2>2, <2>3
<1>4. \A i \in Inode \ temps : i \notin temps'
  BY <1>2
<1> QED
  BY <1>2, <1>3, <1>4, OneRequest

LEMMA CreateTempOn ==
    ASSUME FileInv, ReadInv, NEW f \in FileReq, CreateTemp(f)
    PROVE  ReadInv'
<1>1. PICK s : s = req[f] /\ IsReq(s) /\ Reader(s, disk, how, temps, intended) /\ s.pc = "temp"
  BY ReadMover DEF CreateTemp
<1>2. PICK i \in Inode : /\ how[i] = "free" /\ temps' = temps \cup {i} /\ how' = [how EXCEPT ![i] = IF s.clean THEN "whole" ELSE "mixed"]
                         /\ req' = [req EXCEPT ![f] = [s EXCEPT !.pc = "tmpwrite", !.ino = i]]
  <2>1. (CHOOSE j \in Free : TRUE) \in Free
    BY DEF CreateTemp
  <2> QED
    BY <1>1, <2>1 DEF CreateTemp, Become, Free
<1>3. disk' = disk /\ intended' = intended
  BY DEF CreateTemp
<1>4. PICK r : r = [s EXCEPT !.pc = "tmpwrite", !.ino = i]
  OBVIOUS
<1>5. r.pc = "tmpwrite" /\ r.data = s.data /\ r.op = s.op /\ r.patch = s.patch
  BY <1>1, <1>4 DEF IsReq
<1>6. Reader(r, disk', how', temps', intended')
  BY <1>1, <1>5 DEF Reader
<1>7. \A j \in Inode : j # i => how'[j] = how[j]
  BY <1>2, ReadMover
<1>8. \A j \in Inode : disk'[j] \in Seq(Symbol)
  BY <1>3, ReadMover
<1> QED
  BY <1>2, <1>3, <1>4, <1>6, <1>7, <1>8, OneRequest

LEMMA TempOn ==
    ASSUME FileInv, ReadInv, NEW f \in FileReq, TmpWrite(f) \/ TmpFails(f)
    PROVE  ReadInv'
<1>1. PICK s, i : /\ s = req[f] /\ IsReq(s) /\ Reader(s, disk, how, temps, intended) /\ s.pc \in {"tmpwrite", "rename"} /\ i = s.ino
  BY ReadMover DEF TmpWrite, TmpFails
<1>2. i \in Inode /\ i \in temps /\ s.data \in Seq(Symbol)
  BY <1>1, Mover DEF Tmp, Reader
<1>3. /\ how' = how /\ temps' = temps /\ intended \subseteq intended'
      /\ \E p \in {"rename", "unlink"} : req' = [req EXCEPT ![f] = [s EXCEPT !.pc = p]]
  BY <1>1 DEF TmpWrite, TmpFails, Become
<1>4. \E d \in Seq(Symbol) : \A j \in Inode : disk'[j] = IF j = i THEN d ELSE disk[j]
  <2>1. CASE TmpWrite(f)
    BY <1>1, <1>2, <2>1, ReadMover DEF TmpWrite
  <2>2. CASE TmpFails(f) /\ s.pc = "tmpwrite"
    <3>1. PICK k \in 0..Len(s.data) : disk' = [disk EXCEPT ![i] = SubSeq(s.data, 1, k)]
      BY <1>1, <2>2 DEF TmpFails
    <3>2. SubSeq(s.data, 1, k) \in Seq(Symbol)
      BY <1>2
    <3> QED
      BY <3>1, <3>2, ReadMover
  <2>3. CASE TmpFails(f) /\ s.pc = "rename"
    BY <1>1, <1>2, <2>3, ReadMover DEF TmpFails
  <2> QED
    BY <1>1, <2>1, <2>2, <2>3
<1>6. PICK d \in Seq(Symbol) : \A j \in Inode : disk'[j] = IF j = i THEN d ELSE disk[j]
  BY <1>4
<1>5. PICK p \in {"rename", "unlink"} : req' = [req EXCEPT ![f] = [s EXCEPT !.pc = p]]
  BY <1>3
<1>7. PICK r : r = [s EXCEPT !.pc = p] /\ req' = [req EXCEPT ![f] = r]
  BY <1>5
<1>8. r.pc = p /\ r.data = s.data /\ r.op = s.op /\ r.patch = s.patch
  BY <1>1, <1>7 DEF IsReq
<1>9. Reader(r, disk', how', temps', intended')
  BY <1>1, <1>8 DEF Reader
<1> QED
  BY ZenonT(40), <1>2, <1>3, <1>6, <1>7, <1>9, ReadMover, OneRequest

LEMMA OpenAppendOn ==
    ASSUME FileInv, ReadInv, NEW f \in FileReq, OpenAppend(f)
    PROVE  ReadInv'
<1>1. PICK i : \E c \in Payload : req' = [req EXCEPT ![f] = [Blank EXCEPT !.op = "append", !.pc = "append", !.ino = i, !.data = c]]
  BY DEF OpenAppend, Become
<1>0. PICK c \in Payload : req' = [req EXCEPT ![f] = [Blank EXCEPT !.op = "append", !.pc = "append", !.ino = i, !.data = c]]
  BY <1>1
<1>2. disk' = disk /\ temps' = temps
  BY DEF OpenAppend
<1>3. intended \subseteq intended' /\ \A j \in Inode : how'[j] = how[j] \/ (how[j] = "free" /\ how'[j] = "whole")
  <2>1. CASE name = NoFile
    <3>1. (CHOOSE j \in Free : TRUE) \in Free
      BY <2>1 DEF OpenAppend
    <3>2. PICK n \in Free : how' = [how EXCEPT ![n] = "whole"] /\ intended' = intended \cup {<<>>}
      BY <2>1, <3>1 DEF OpenAppend
    <3>3. n \in Inode /\ how[n] = "free" /\ how \in [Inode -> {"free", "whole", "uploading", "mixed"}]
      BY <3>2, ReadMover DEF Free
    <3>4. intended \subseteq intended'
      BY <3>2
    <3>5. \A j \in Inode : how'[j] = IF j = n THEN "whole" ELSE how[j]
      BY <3>2, <3>3
    <3>6. \A j \in Inode : how'[j] = how[j] \/ (how[j] = "free" /\ how'[j] = "whole")
      BY <3>3, <3>5
    <3> QED
      BY <3>4, <3>6
  <2>2. CASE name # NoFile
    <3>1. how' = how /\ intended' = intended
      BY <2>2 DEF OpenAppend
    <3> QED
      BY <3>1
  <2> QED
    BY <2>1, <2>2
<1>4. PICK r : r = [Blank EXCEPT !.op = "append", !.pc = "append", !.ino = i, !.data = c]
  OBVIOUS
<1>5. r.op = "append" /\ r.pc = "append" /\ r.data = c
  BY <1>4 DEF Blank
<1>6. Reader(r, disk', how', temps', intended')
  BY <1>5, PayloadTyped DEF Reader
<1>7. \A j \in Inode : disk'[j] \in Seq(Symbol)
  BY <1>2, ReadMover
<1> QED
  BY <1>0, <1>2, <1>3, <1>4, <1>6, <1>7, OneRequest

\* One request moves on to r, and its step makes the readers of the file unclean.
Spoils(f, r, i, b) ==
    req' = [g \in FileReq |-> IF g = f THEN r
                              ELSE IF b /\ req[g].pc = "reading" /\ req[g].ino = i THEN [req[g] EXCEPT !.clean = FALSE]
                              ELSE req[g]]
InOneFile(i, b) ==
    /\ \A j \in Inode : j # i => disk'[j] = disk[j] /\ how'[j] = how[j]
    /\ i \in Inode => how'[i] # "free"
    /\ ~b /\ i \in Inode /\ how[i] = "whole" =>
           /\ how'[i] = "whole" /\ disk'[i] \in intended'
           /\ \E x \in Seq(Symbol) : disk'[i] = disk[i] \o x
LEMMA OneSpoils ==
    ASSUME FileInv, ReadInv, NEW f \in FileReq, NEW r, NEW i, NEW b \in BOOLEAN, Spoils(f, r, i, b), InOneFile(i, b),
           intended \subseteq intended', temps' = temps, Reader(r, disk', how', temps', intended'),
           \A j \in Inode : disk'[j] \in Seq(Symbol)
    PROVE  ReadInv'
<1>1. ASSUME NEW g \in FileReq, g # f PROVE Reader(req'[g], disk', how', temps', intended')
  <2>1. PICK s : s = req[g] /\ IsReq(s) /\ Reader(s, disk, how, temps, intended)
    BY ReadMover
  <2>2. req'[g] = IF b /\ s.pc = "reading" /\ s.ino = i THEN [s EXCEPT !.clean = FALSE] ELSE s
    BY <1>1, <2>1 DEF Spoils
  <2>3. CASE b /\ s.pc = "reading" /\ s.ino = i
    <3>1. PICK t : t = [s EXCEPT !.clean = FALSE]
      OBVIOUS
    <3>2. ~t.clean /\ t.pc = "reading" /\ t.ino = i /\ t.op = s.op /\ t.patch = s.patch /\ t.data = s.data
      BY <2>1, <2>3, <3>1 DEF IsReq
    <3>3. i \in Inode /\ i \notin temps
      BY <2>1, <2>3 DEF Reader, ReadOn
    <3>4. Reader(t, disk', how', temps', intended')
      BY <2>1, <3>2, <3>3 DEF Reader, ReadOn, InOneFile
    <3> QED
      BY <2>2, <2>3, <3>1, <3>4
  <2>4. CASE ~(b /\ s.pc = "reading" /\ s.ino = i)
    <3>1. \A j \in Inode : disk[j] \in Seq(Symbol)
      BY ReadMover
    <3>2. Spared(s, disk, how, temps, disk', how', temps', intended')
      BY <2>4, <3>1 DEF Spared, InOneFile
    <3>3. Reader(s, disk', how', temps', intended')
      BY <2>1, <3>2, ReaderKept
    <3> QED
      BY <2>2, <2>4, <3>3
  <2> QED
    BY <2>3, <2>4
<1>2. req'[f] = r
  BY DEF Spoils
<1>3. \A g \in FileReq : Reader(req'[g], disk', how', temps', intended')
  BY <1>1, <1>2
<1> QED
  BY <1>3 DEF ReadInv

LEMMA AppendWriteOn ==
    ASSUME FileInv, ReadInv, NEW f \in FileReq, AppendWrite(f)
    PROVE  ReadInv'
<1>1. PICK s, i : /\ s = req[f] /\ IsReq(s) /\ Reader(s, disk, how, temps, intended) /\ s.pc = "append" /\ i = s.ino
  BY ReadMover DEF AppendWrite
<1>2. i \in Inode /\ s.data \in Seq(Symbol) /\ disk[i] \in Seq(Symbol) /\ how[i] # "free"
  BY SMTT(30), <1>1, Mover, ReadMover DEF InPlace, Reader
<1>3. PICK k \in {0, Len(s.data)} \cup {Len(s.data) - 1} :
        LET c == disk[i] \o SubSeq(s.data, 1, k)
            good == how[i] = "whole" /\ k \in {0, Len(s.data)}
        IN /\ disk' = [disk EXCEPT ![i] = c]
           /\ intended' = IF good THEN intended \cup {c} ELSE intended
           /\ how' = [how EXCEPT ![i] = IF good \/ k = 0 THEN @ ELSE "mixed"]
           /\ req' = [g \in FileReq |-> IF g = f THEN [s EXCEPT !.pc = "over"]
                                        ELSE IF ~good /\ k # 0 /\ req[g].pc = "reading" /\ req[g].ino = i
                                             THEN [req[g] EXCEPT !.clean = FALSE]
                                        ELSE req[g]]
  <2>1. PICK k \in {0, Len(req[f].data)} \cup {Len(req[f].data) - 1} :
          LET c == disk[req[f].ino] \o SubSeq(req[f].data, 1, k)
              good == how[req[f].ino] = "whole" /\ k \in {0, Len(req[f].data)}
          IN /\ disk' = [disk EXCEPT ![req[f].ino] = c]
             /\ intended' = IF good THEN intended \cup {c} ELSE intended
             /\ how' = [how EXCEPT ![req[f].ino] = IF good \/ k = 0 THEN @ ELSE "mixed"]
             /\ req' = [g \in FileReq |-> IF g = f THEN [req[f] EXCEPT !.pc = "over"]
                                          ELSE IF ~good /\ k # 0 /\ req[g].pc = "reading" /\ req[g].ino = req[f].ino
                                               THEN [req[g] EXCEPT !.clean = FALSE]
                                          ELSE req[g]]
    BY DEF AppendWrite
  <2> QED
    BY ZenonT(40), <2>1, <1>1
<1>4. PICK x : x = SubSeq(s.data, 1, k) /\ x \in Seq(Symbol)
  <2>1. k \in Int /\ \A j \in 1..k : s.data[j] \in Symbol
    BY <1>2, <1>3
  <2>2. SubSeq(s.data, 1, k) \in Seq(Symbol)
    BY <2>1, SubSeqProperties
  <2> QED
    BY <2>2
<1>5. PICK c : c = disk[i] \o x /\ c \in Seq(Symbol)
  <2>1. disk[i] \o x \in Seq(Symbol)
    BY <1>2, <1>4
  <2> QED
    BY <2>1
<1>6. PICK good \in BOOLEAN, b \in BOOLEAN :
         /\ good <=> how[i] = "whole" /\ k \in {0, Len(s.data)}
         /\ b <=> ~good /\ k # 0
  OBVIOUS
<1>7. PICK r : r = [s EXCEPT !.pc = "over"]
  OBVIOUS
<1>8. r.pc = "over" /\ r.data = s.data /\ r.op = s.op /\ r.patch = s.patch
  BY <1>1, <1>7 DEF IsReq
<1>9. Reader(r, disk', how', temps', intended')
  BY <1>1, <1>8 DEF Reader
<1>10. req' = [g \in FileReq |-> IF g = f THEN r
                                 ELSE IF b /\ req[g].pc = "reading" /\ req[g].ino = i THEN [req[g] EXCEPT !.clean = FALSE]
                                 ELSE req[g]]
  BY SMTT(30), <1>3, <1>6, <1>7
<1>11. /\ intended \subseteq intended' /\ temps' = temps /\ (good => intended' = intended \cup {c})
       /\ disk' = [disk EXCEPT ![i] = c] /\ how' = [how EXCEPT ![i] = IF good \/ k = 0 THEN how[i] ELSE "mixed"]
  BY <1>3, <1>4, <1>5, <1>6 DEF AppendWrite
<1>12. \A j \in Inode : /\ disk'[j] = (IF j = i THEN c ELSE disk[j]) /\ (j # i => how'[j] = how[j])
                        /\ disk'[j] \in Seq(Symbol)
  BY <1>2, <1>5, <1>11, ReadMover
<1>13. how'[i] # "free" /\ (~b /\ how[i] = "whole" => good /\ how'[i] = "whole" /\ disk'[i] \in intended')
  BY <1>2, <1>6, <1>11, <1>12, ReadMover
<1>14. disk'[i] = disk[i] \o x
  BY <1>2, <1>5, <1>12
<1> QED
  <2>1. InOneFile(i, b)
    BY <1>4, <1>12, <1>13, <1>14 DEF InOneFile
  <2>2. Spoils(f, r, i, b)
    BY <1>10 DEF Spoils
  <2> QED
    BY <1>6, <1>9, <1>11, <1>12, <2>1, <2>2, OneSpoils

LEMMA OpenUploadOn ==
    ASSUME FileInv, ReadInv, NEW f \in FileReq, OpenUpload(f)
    PROVE  ReadInv'
<1>1. temps' = temps /\ intended' = intended /\ \A j \in Inode : disk[j] \in Seq(Symbol)
  BY ReadMover DEF OpenUpload
<1>2. CASE req' = [req EXCEPT ![f] = [Blank EXCEPT !.op = "upload", !.pc = "over"]] /\ UNCHANGED <<disk, name, how>>
  <2>1. Reader([Blank EXCEPT !.op = "upload", !.pc = "over"], disk', how', temps', intended')
    <3>1. <<>> \in Seq(Symbol)
      OBVIOUS
    <3> QED
      BY <3>1 DEF Reader, Blank
  <2> QED
    BY <1>1, <1>2, <2>1, OneRequest
<1>3. CASE \E c \in Payload, i \in Inode :
             /\ disk' = [disk EXCEPT ![i] = <<>>] /\ how' = [how EXCEPT ![i] = IF Uploaders(i) = {} THEN "uploading" ELSE "mixed"]
             /\ req' = [g \in FileReq |->
                          IF g = f THEN [Blank EXCEPT !.op = "upload", !.pc = "chunk", !.ino = i, !.data = c]
                          ELSE IF req[g].pc = "reading" /\ req[g].ino = i THEN [req[g] EXCEPT !.clean = FALSE]
                          ELSE req[g]]
  <2>1. PICK c \in Payload, i \in Inode :
             /\ disk' = [disk EXCEPT ![i] = <<>>] /\ how' = [how EXCEPT ![i] = IF Uploaders(i) = {} THEN "uploading" ELSE "mixed"]
             /\ req' = [g \in FileReq |->
                          IF g = f THEN [Blank EXCEPT !.op = "upload", !.pc = "chunk", !.ino = i, !.data = c]
                          ELSE IF req[g].pc = "reading" /\ req[g].ino = i THEN [req[g] EXCEPT !.clean = FALSE]
                          ELSE req[g]]
    BY <1>3
  <2>2. PICK r : r = [Blank EXCEPT !.op = "upload", !.pc = "chunk", !.ino = i, !.data = c]
    OBVIOUS
  <2>0. PICK b \in BOOLEAN : b
    OBVIOUS
  <2>3. r.op = "upload" /\ r.pc = "chunk" /\ r.data = c
    BY <2>2 DEF Blank
  <2>4. Reader(r, disk', how', temps', intended')
    BY <2>3, PayloadTyped DEF Reader
  <2>5. \A j \in Inode : disk'[j] = (IF j = i THEN <<>> ELSE disk[j]) /\ (j # i => how'[j] = how[j])
    BY <2>1, ReadMover
  <2>6. \A j \in Inode : disk'[j] \in Seq(Symbol)
    <3>1. <<>> \in Seq(Symbol)
      OBVIOUS
    <3> QED
      BY <1>1, <2>5, <3>1
  <2>7. how'[i] # "free"
    BY <2>1, ReadMover
  <2>8. req' = [g \in FileReq |-> IF g = f THEN r
                                  ELSE IF b /\ req[g].pc = "reading" /\ req[g].ino = i THEN [req[g] EXCEPT !.clean = FALSE]
                                  ELSE req[g]]
    BY <2>0, <2>1, <2>2
  <2>9. intended \subseteq intended'
    BY <1>1
  <2> QED
    <3>1. InOneFile(i, b)
      BY <2>0, <2>5, <2>7 DEF InOneFile
    <3>2. Spoils(f, r, i, b)
      BY <2>8 DEF Spoils
    <3> QED
      BY <1>1, <2>4, <2>6, <2>9, <3>1, <3>2, OneSpoils
<1>4. name \in Inode \cup {NoFile} /\ (Free # {} => (CHOOSE j \in Free : TRUE) \in Inode)
  BY SMTT(30), ReadMover DEF Free
<1>5. PICK c \in Payload, o \in BOOLEAN :
        IF name # NoFile /\ ~o
        THEN req' = [req EXCEPT ![f] = [Blank EXCEPT !.op = "upload", !.pc = "over"]] /\ UNCHANGED <<disk, name, how>>
        ELSE /\ name = NoFile => Free # {}
             /\ LET i == IF name = NoFile THEN CHOOSE j \in Free : TRUE ELSE name
                IN /\ name' = i /\ disk' = [disk EXCEPT ![i] = <<>>]
                   /\ how' = [how EXCEPT ![i] = IF Uploaders(i) = {} THEN "uploading" ELSE "mixed"]
                   /\ req' = [g \in FileReq |->
                                IF g = f THEN [Blank EXCEPT !.op = "upload", !.pc = "chunk", !.ino = i, !.data = c]
                                ELSE IF req[g].pc = "reading" /\ req[g].ino = i THEN [req[g] EXCEPT !.clean = FALSE]
                                ELSE req[g]]
  BY DEF OpenUpload, Become
<1>6. CASE ~(name # NoFile /\ ~o)
  <2>0. PICK i : i = IF name = NoFile THEN CHOOSE j \in Free : TRUE ELSE name
    OBVIOUS
  <2>1. /\ disk' = [disk EXCEPT ![i] = <<>>]
        /\ how' = [how EXCEPT ![i] = IF Uploaders(i) = {} THEN "uploading" ELSE "mixed"]
        /\ req' = [g \in FileReq |->
                     IF g = f THEN [Blank EXCEPT !.op = "upload", !.pc = "chunk", !.ino = i, !.data = c]
                     ELSE IF req[g].pc = "reading" /\ req[g].ino = i THEN [req[g] EXCEPT !.clean = FALSE]
                     ELSE req[g]]
    BY <1>5, <1>6, <2>0
  <2>2. i \in Inode
    BY <1>4, <1>5, <1>6, <2>0
  <2> QED
    BY <1>3, <2>1, <2>2
<1> QED
  BY <1>2, <1>5, <1>6

LEMMA UploadOn ==
    ASSUME FileInv, ReadInv, NEW f \in FileReq, UploadChunk(f) \/ UploadDone(f) \/ UploadFails(f)
    PROVE  ReadInv'
<1>1. PICK s, i : /\ s = req[f] /\ IsReq(s) /\ Reader(s, disk, how, temps, intended) /\ s.pc = "chunk" /\ i = s.ino
  BY ReadMover DEF UploadChunk, UploadDone, UploadFails
<1>2. /\ i \in Inode /\ how[i] # "whole" /\ how[i] # "free" /\ s.data \in Seq(Symbol) /\ disk[i] \in Seq(Symbol)
      /\ s.pos \in Nat /\ s.op # "read"
  BY <1>1, Mover, ReadMover DEF InPlace, Reader, FileInv, UploadRight, IsReq
<1>3. temps' = temps /\ intended \subseteq intended'
  BY DEF UploadChunk, UploadDone, UploadFails
<1>4. CASE UploadChunk(f)
  <2>1. PICK r : r = [s EXCEPT !.pos = @ + 1] /\ req' = [req EXCEPT ![f] = r]
    BY <1>1, <1>4 DEF UploadChunk, Become
  <2>2. r.pc = "chunk" /\ r.data = s.data /\ r.op = s.op /\ r.patch = s.patch
    BY <1>1, <2>1 DEF IsReq
  <2>3. Reader(r, disk', how', temps', intended')
    BY <1>1, <1>2, <2>2 DEF Reader
  <2>8. /\ how' = how /\ intended' = intended /\ req[f].pos < Len(req[f].data)
        /\ disk' = [disk EXCEPT ![req[f].ino] =
                     [k \in 1..(IF Len(@) > req[f].pos + 1 THEN Len(@) ELSE req[f].pos + 1) |->
                        IF k = req[f].pos + 1 THEN req[f].data[req[f].pos + 1] ELSE IF k <= Len(@) THEN @[k] ELSE Hole]]
    BY <1>4 DEF UploadChunk
  <2>9. PICK d, spot : d = disk[i] /\ spot = s.pos + 1 /\ spot \in 1..Len(s.data)
    BY <1>1, <1>2, <2>8
  <2>10. PICK n : n = (IF Len(d) > spot THEN Len(d) ELSE spot) /\ n \in Nat
    BY <1>2, <2>9
  <2>4. /\ how' = how /\ intended' = intended
        /\ disk' = [disk EXCEPT ![i] = [k \in 1..n |-> IF k = spot THEN s.data[spot] ELSE IF k <= Len(d) THEN d[k] ELSE Hole]]
    BY <1>1, <2>8, <2>9, <2>10
  <2>11. PICK v, z : v = s.data[spot] /\ z = Len(d)
    OBVIOUS
  <2>5. PICK e : e = [k \in 1..n |-> IF k = spot THEN v ELSE IF k <= z THEN d[k] ELSE Hole]
    OBVIOUS
  <2>6. e \in Seq(Symbol)
    <3>0. Hole \in Symbol
      BY DEF Symbol
    <3>1. s.data[spot] \in Symbol /\ \A k \in 1..Len(d) : d[k] \in Symbol
      BY <1>2, <2>9
    <3>4. z \in Nat
      BY <1>2, <2>9, <2>11
    <3>2. \A l \in 1..n : e[l] \in Symbol
      BY ONLY <2>5, <2>10, <2>11, <3>0, <3>1, <3>4
    <3>3. e \in [1..n -> Symbol]
      BY <2>5, <3>2
    <3> QED
      BY <2>10, <3>3
  <2>7. \A j \in Inode : disk'[j] = IF j = i THEN e ELSE disk[j]
    BY <1>2, <2>4, <2>5, <2>11, ReadMover
  <2> QED
    BY <1>2, <1>3, <2>1, <2>3, <2>4, <2>6, <2>7, ReadMover, OneRequest
<1>5. CASE UploadDone(f) \/ UploadFails(f)
  <2>1. PICK r : r = [s EXCEPT !.pc = "over"] /\ req' = [req EXCEPT ![f] = r]
    BY <1>1, <1>5 DEF UploadDone, UploadFails, Over, Become
  <2>2. r.pc = "over" /\ r.data = s.data /\ r.op = s.op /\ r.patch = s.patch
    BY <1>1, <2>1 DEF IsReq
  <2>3. Reader(r, disk', how', temps', intended')
    BY <1>1, <1>2, <2>2 DEF Reader
  <2>4. disk' = disk /\ \A j \in Inode : how'[j] = how[j] \/ how'[j] = "whole"
    BY <1>1, <1>2, <1>5, ReadMover DEF UploadDone, UploadFails
  <2> QED
    BY <1>3, <2>1, <2>3, <2>4, ReadMover, OneRequest
<1> QED
  BY <1>4, <1>5

LEMMA FilesCrashOn == ASSUME FileInv, ReadInv, FilesCrash PROVE ReadInv'
<1>1. UNCHANGED <<disk, name, temps, how, intended>>
  BY DEF FilesCrash
<1>2. ASSUME NEW f \in FileReq PROVE Reader(req'[f], disk, how, temps, intended)
  <2>1. PICK s : s = req[f] /\ IsReq(s) /\ Reader(s, disk, how, temps, intended)
    BY ReadMover
  <2>2. req'[f] = s \/ req'[f] = [s EXCEPT !.pc = "over", !.op = "none"]
    BY <2>1 DEF FilesCrash
  <2>3. PICK t : t = [s EXCEPT !.pc = "over", !.op = "none"]
    OBVIOUS
  <2>4. t.pc = "over" /\ t.op = "none" /\ t.data = s.data
    BY <2>1, <2>3 DEF IsReq
  <2>5. Reader(t, disk, how, temps, intended)
    BY <2>1, <2>4 DEF Reader
  <2> QED
    BY <2>1, <2>2, <2>3, <2>5
<1> QED
  BY <1>1, <1>2 DEF ReadInv

LEMMA ReadStep == FileInv /\ ReadInv /\ [FilesNext]_fileVars => ReadInv'
<1>1. ASSUME FileInv, ReadInv, FilesNext PROVE ReadInv'
  <2>1. CASE FilesCrash
    BY <1>1, <2>1, FilesCrashOn
  <2>2. ASSUME NEW f \in FileReq,
               \/ OpenRead(f) \/ ReadPiece(f) \/ Edit(f) \/ ArriveWrite(f) \/ GiveUp(f)
               \/ CreateTemp(f) \/ TmpWrite(f) \/ Rename(f) \/ TmpFails(f) \/ RemoveTemp(f)
               \/ OpenAppend(f) \/ AppendWrite(f)
               \/ OpenUpload(f) \/ UploadChunk(f) \/ UploadDone(f) \/ UploadFails(f)
        PROVE  ReadInv'
    BY <1>1, <2>2, OpenReadOn, ReadPieceOn, EditOn, CreateTempOn, TempOn, OpenAppendOn, AppendWriteOn, OpenUploadOn, UploadOn
  <2> QED
    BY <1>1, <2>1, <2>2 DEF FilesNext
<1>2. ASSUME ReadInv, UNCHANGED fileVars PROVE ReadInv'
  BY <1>2 DEF fileVars, ReadInv
<1> QED
  BY <1>1, <1>2

LEMMA ReadersAreRight == ReadInv => ReadIsWhole
BY DEF ReadInv, Reader, ReadIsWhole, Doing
==============================================================================
