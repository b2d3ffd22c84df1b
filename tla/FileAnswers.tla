----------------------------- MODULE FileAnswers -----------------------------
(***************************************************************************)
(* pkg/handlers/file.go: what the read, grep, list and find handlers       *)
(* answer and what the edit handlers compute, of a given directory tree or *)
(* content.  A handler's loop is a fold over what it walks; a line or a    *)
(* name is reduced to what the handler asks of it.                         *)
(***************************************************************************)
EXTENDS Integers, Sequences, FiniteSets, SequencesExt

CONSTANTS
    ReadCap,        \* defaultReadMaxBytes
    ListCap         \* defaultListMaxResults, and the most matches a grep returns

ASSUME AnswerConstants == {ReadCap, ListCap} \subseteq Nat \ {0}

VARIABLE ask        \* a request and what it is asked of, or NoAsk

answerVars == <<ask>>
NoAsk == [kind |-> "none"]
MinOf(a, b) == IF a < b THEN a ELSE b

------------------------------------------------------------------------------
(* FileReadHandler.  A file is the sequence of its lines' sizes; end = 0 is  *)
(* no end.  The loop leaves at the first line after the end and the drain    *)
(* after it counts the rest.                                                 *)
EmitLine(q, a, k) ==
    IF k < q.start \/ (q.end # 0 /\ k > q.end) THEN a
    ELSE IF a.bytes >= ReadCap THEN [a EXCEPT !.truncated = TRUE]
    ELSE [a EXCEPT !.first = IF @ = 0 THEN k ELSE @, !.last = k, !.bytes = @ + q.lines[k]]

TotalLines(q) == Len(q.lines)

ReadAnswer(q) ==
    FoldLeftDomain(LAMBDA a, k : EmitLine(q, a, k),
                   [first |-> 0, last |-> 0, bytes |-> 0, truncated |-> FALSE, total |-> TotalLines(q)], q.lines)

------------------------------------------------------------------------------
(* grepFile.  A file is [binary, lines], a line TRUE if it matches; with     *)
(* context only the lines of the first ReadCap bytes are looked at (a line   *)
(* is one byte here).  hits are the reported lines, count all that matched.  *)
Looked(q, file) == IF q.context THEN SubSeq(file.lines, 1, MinOf(Len(file.lines), ReadCap)) ELSE file.lines

MatchingLines(q, file) ==
    FoldLeftDomain(LAMBDA found, k : IF file.lines[k] THEN Append(found, k) ELSE found, <<>>, Looked(q, file))

GrepFile(q, file, capRemaining) ==
    LET matching == MatchingLines(q, file)
    IN IF file.binary THEN [hits |-> <<>>, count |-> 0]
       ELSE [hits |-> SubSeq(matching, 1, MinOf(capRemaining, Len(matching))), count |-> Len(matching)]

\* FileGrepHandler's walk: it stops once max matches are there.
GrepStep(q, a, n) ==
    IF a.truncated \/ q.files[n].protected THEN a
    ELSE LET got == GrepFile(q, q.files[n], q.max - Len(a.matches))
             all == a.matches \o [k \in 1..Len(got.hits) |-> <<n, got.hits[k]>>]
         IN [matches |-> all, total |-> a.total + got.count, truncated |-> Len(all) >= q.max]

GrepAnswer(q) ==
    FoldLeftDomain(LAMBDA a, n : GrepStep(q, a, n), [matches |-> <<>>, total |-> 0, truncated |-> FALSE], q.files)

------------------------------------------------------------------------------
(* FileListHandler and FileFindHandler over filepath.WalkDir: entries in the *)
(* order of the walk, [depth, dir, hidden, match].  skip: what SkipDir left  *)
(* out is deeper than this; Nowhere when nothing is skipped.                 *)
Nowhere == -1
Hides(q, e) == ~q.showHidden /\ e.hidden

ListStep(q, a, n) ==
    LET e == q.entries[n]
        skipping == a.skip # Nowhere /\ e.depth > a.skip
        b == IF skipping THEN a ELSE [a EXCEPT !.skip = Nowhere]
    IN IF a.truncated \/ skipping THEN a
       ELSE IF e.depth >= q.maxDepth \/ Hides(q, e) THEN [b EXCEPT !.skip = IF e.dir THEN e.depth ELSE Nowhere]
       ELSE IF Len(a.files) >= ListCap THEN [b EXCEPT !.truncated = TRUE]
       ELSE [b EXCEPT !.files = Append(@, n)]

ListAnswer(q) ==
    FoldLeftDomain(LAMBDA a, n : ListStep(q, a, n), [files |-> <<>>, truncated |-> FALSE, skip |-> Nowhere], q.entries)

\* Which names the pattern takes (here the hidden ones).
Matches(e) == e.hidden

\* Find walks hidden and deep entries too, and looks at the cap before the name.
FindStep(q, a, n) ==
    IF a.truncated THEN a
    ELSE IF Len(a.files) >= ListCap THEN [a EXCEPT !.truncated = TRUE]
    ELSE IF Matches(q.entries[n]) THEN [a EXCEPT !.files = Append(@, n)] ELSE a

FindAnswer(q) ==
    FoldLeftDomain(LAMBDA a, n : FindStep(q, a, n), [files |-> <<>>, truncated |-> FALSE], q.entries)

------------------------------------------------------------------------------
(* Edits: [old, new, all, expected], expected = 0 when not given.  Hits are  *)
(* where strings.Count and ReplaceAll find old, left to right, not           *)
(* overlapping.                                                              *)
Occurs(c, old, k) == k + Len(old) - 1 <= Len(c) /\ SubSeq(c, k, k + Len(old) - 1) = old

Hits(c, old) ==
    FoldLeftDomain(LAMBDA a, k : IF k >= a.next /\ Occurs(c, old, k)
                                 THEN [at |-> a.at \cup {k}, next |-> k + Len(old)] ELSE a,
                   [at |-> {}, next |-> 1], c).at

Replaced(c, e) ==
    LET at == Hits(c, e.old)
        Inside(k) == \E h \in at : h <= k /\ k < h + Len(e.old)
    IN FoldLeftDomain(LAMBDA out, k : IF k \in at THEN out \o e.new ELSE IF Inside(k) THEN out ELSE Append(out, c[k]),
                      <<>>, c)

Count(c, e) == Cardinality(Hits(c, e.old))
Accepts(c, e) ==
    /\ Count(c, e) # 0
    /\ IF e.expected # 0 THEN Count(c, e) = e.expected ELSE e.all \/ Count(c, e) = 1

\* FileReplaceHandler is the case of one edit.
MultiEdit(c, edits) ==
    FoldLeft(LAMBDA a, e : IF a.ok /\ Accepts(a.content, e) THEN [ok |-> TRUE, content |-> Replaced(a.content, e)]
                           ELSE [a EXCEPT !.ok = FALSE],
             [ok |-> TRUE, content |-> c], edits)
------------------------------------------------------------------------------
(* Bounded inputs, and what the answers must be.                             *)
UpTo(S, n) == UNION {[1..k -> S] : k \in 0..n}
ReadAsks == [kind : {"read"}, lines : UpTo({1, 2}, 3), start : 1..4, end : 0..4]

Searched == [binary : {FALSE}, protected : BOOLEAN, lines : UpTo(BOOLEAN, 3)] \cup
            [binary : {TRUE}, protected : {FALSE}, lines : {<<TRUE>>}]
GrepAsks == [kind : {"grep"}, files : UpTo(Searched, 2), max : 1..3, context : BOOLEAN]

\* A walk: an entry one level deeper than the one before it is inside it.
Walks == {es \in UpTo([depth : 0..2, dir : BOOLEAN, hidden : BOOLEAN], 3) :
            /\ es # <<>> => es[1].depth = 0
            /\ \A n \in 2..Len(es) : \/ es[n].depth <= es[n - 1].depth
                                    \/ (es[n].depth = es[n - 1].depth + 1 /\ es[n - 1].dir)}
ListAsks == [kind : {"list", "find"}, entries : Walks, maxDepth : 0..2, showHidden : BOOLEAN]

EditAsks == {[kind |-> "edit", content |-> c, edit |-> [old |-> o, new |-> n, all |-> a, expected |-> x]] :
               c \in UpTo({"x", "y"}, 4), o \in UpTo({"x", "y"}, 2) \ {<<>>},
               n \in {<<>>, <<"z">>, <<"z", "z">>}, a \in BOOLEAN, x \in 0..2}

AnswersInit == ask \in ReadAsks \cup GrepAsks \cup ListAsks \cup EditAsks

Size(ls, i, j) == FoldLeftDomain(LAMBDA a, k : IF k \in i..j THEN a + ls[k] ELSE a, 0, ls)

\* A page starts where it was asked to, is cut only when the limit was reached,
\* says so exactly then, exceeds the limit by less than a line, and knows the
\* file's length, whatever the range: asking on from `last' reads the whole file.
ReadRight(q) ==
    LET r == ReadAnswer(q)
        to == IF q.end = 0 THEN Len(q.lines) ELSE MinOf(q.end, Len(q.lines))
    IN /\ r.total = Len(q.lines)
       /\ IF q.start > to THEN r.first = 0 /\ r.last = 0 /\ ~r.truncated
          ELSE /\ r.first = q.start /\ r.last \in q.start..to
               /\ r.truncated <=> r.last < to
               /\ Size(q.lines, q.start, r.last - 1) < ReadCap

Searchable(file) == ~file.binary /\ ~file.protected
Matching(q) ==
    UNION {{<<n, k>> : k \in {l \in 1..Len(q.files[n].lines) : q.files[n].lines[l]}} :
             n \in {m \in 1..Len(q.files) : Searchable(q.files[m])}}
Before(p, r) == p[1] < r[1] \/ (p[1] = r[1] /\ p[2] < r[2])

\* Matches come once each, in the order of the walk; without context none before
\* the last one given is missing, and none at all unless the answer is truncated.
GrepRight(q) ==
    LET g == GrepAnswer(q)
        given == {g.matches[i] : i \in 1..Len(g.matches)}
    IN /\ given \subseteq Matching(q) /\ Len(g.matches) <= q.max /\ g.total >= Len(g.matches)
       /\ \A i \in 2..Len(g.matches) : Before(g.matches[i - 1], g.matches[i])
       /\ g.truncated <=> Len(g.matches) = q.max
       /\ ~q.context => \A m \in Matching(q) \ given : g.truncated /\ \A p \in given : Before(p, m)
       /\ ~q.context /\ ~g.truncated => g.total = Cardinality(Matching(q))

Within(es, m, n) == m < n /\ \A k \in (m + 1)..n : es[k].depth > es[m].depth

\* files are the first ListCap of the entries that are due, in the order of the walk.
IsFirstOf(files, due) ==
    /\ Range(files) \subseteq due /\ Len(files) <= ListCap
    /\ \A i \in 2..Len(files) : files[i - 1] < files[i]
    /\ \A n \in due \ Range(files) : Len(files) = ListCap /\ files[ListCap] < n

\* The listing is the first ListCap of the entries that are neither too deep nor
\* hidden nor inside something hidden, and is truncated exactly when there are more.
ListRight(q) ==
    LET l == ListAnswer(q)
        due == {n \in 1..Len(q.entries) :
                  /\ q.entries[n].depth < q.maxDepth /\ ~Hides(q, q.entries[n])
                  /\ \A m \in 1..Len(q.entries) : Within(q.entries, m, n) => ~Hides(q, q.entries[m])}
    IN IsFirstOf(l.files, due) /\ (l.truncated <=> Range(l.files) # due)

\* Find may call an answer truncated that lacks nothing, never the reverse.
FindRight(q) ==
    LET l == FindAnswer(q)
        due == {n \in 1..Len(q.entries) : Matches(q.entries[n])}
    IN IsFirstOf(l.files, due) /\ (Range(l.files) # due => l.truncated)

\* An accepted edit changes the places it counted and nothing else: it can be undone.
EditRight(q) ==
    LET r == MultiEdit(q.content, <<q.edit>>)
        c == Count(q.content, q.edit)
    IN /\ r.ok => /\ Len(r.content) + c * Len(q.edit.old) = Len(q.content) + c * Len(q.edit.new)
                  /\ q.edit.new # <<>> =>
                       Replaced(r.content, [q.edit EXCEPT !.old = q.edit.new, !.new = q.edit.old]) = q.content
                  /\ c > 1 => q.edit.all \/ q.edit.expected = c
       /\ ~r.ok => r.content = q.content

\* What file.go:30, 225, 355, 463 and 639 say of the answers, over bounded inputs.
AnswersRight ==
    CASE ask.kind = "read" -> ReadRight(ask)
      [] ask.kind = "grep" -> GrepRight(ask)
      [] ask.kind = "list" -> ListRight(ask)
      [] ask.kind = "find" -> FindRight(ask)
      [] ask.kind = "edit" -> EditRight(ask)
      [] OTHER -> TRUE

\* "errors when old_str appears more than once" (file.go:639): not when the two
\* places overlap, as "xx" in "xxx"; the first is taken.
StrictIsUnique ==
    ask.kind = "edit" /\ ~ask.edit.all /\ ask.edit.expected = 0 /\ Accepts(ask.content, ask.edit) =>
        Cardinality({k \in 1..Len(ask.content) : Occurs(ask.content, ask.edit.old, k)}) = 1
==============================================================================
