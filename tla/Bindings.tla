------------------------------ MODULE Bindings ------------------------------
(***************************************************************************)
(* pkg/provisioner bindings.go, secrets.go, lockfile.go, catalog.go,       *)
(* manifest.go and build.go: what is bound in one sandbox.  Values are     *)
(* files in the sandbox, one per environment variable; the lock file next  *)
(* to the user's code says which there are.  Both are written through the  *)
(* runtime's file endpoints by requests that hold no lock, and any of      *)
(* these calls may fail.                                                   *)
(***************************************************************************)
EXTENDS Naturals, FiniteSets, Sequences, Functions, SequencesExt

CONSTANTS
    Call,           \* bound: requests to the binding endpoints
    Svc,            \* bound: services of the catalog
    Key,            \* bound: names of environment variables and of secrets
    NoCall

ASSUME BindingConstants == NoCall \notin Call /\ "secret" \notin Svc

VARIABLES
    bpc,        \* of a call: see BindTypeOK
    kind,       \* "bind", "secret", "resolve", "build"
    svc, keys,  \* what it binds, or the secret's name as a singleton
    todo,       \* the files it has still to write or read
    snap,       \* the lock file as it has read it
    answer,     \* of a resolve: which call's value each variable has, and from where
    files,      \* of a service and a variable: the call whose value the file has
    secrets,    \* of a secret: likewise
    lock        \* the lock file

bindVars == <<bpc, kind, svc, keys, todo, snap, answer, files, secrets, lock>>

\* Lockfile: the pinned services with the names of their variables (at most one entry
\* each, in the order of their last record) and the secrets.  A missing or corrupt file
\* reads as no lock file, and a fresh one has neither.
Pin == [svc : Svc, keys : SUBSET Key]
Empty == [pins |-> <<>>, secrets |-> {}]
Pins(l) == Range(l.pins)

NoValue == [of |-> NoCall, from |-> "none"]

BindTypeOK ==
    /\ bpc \in [Call -> {"idle", "files", "read", "write", "values", "manifest", "ok",
                         "refused"}]
    /\ kind \in [Call -> {"bind", "secret", "resolve", "build"}]
    /\ svc \in [Call -> Svc] /\ keys \in [Call -> SUBSET Key]
    /\ todo \in [Call -> SUBSET ((Svc \cup {"secret"}) \X Key)]
    /\ answer \in [Call -> [Key -> [of : Call \cup {NoCall}, from : Svc \cup {"secret", "none"}]]]
    /\ files \in [Svc \X Key -> Call \cup {NoCall}] /\ secrets \in [Key -> Call \cup {NoCall}]
    /\ \A l \in {lock} \cup Range(snap) :
          /\ Pins(l) \subseteq Pin /\ l.secrets \subseteq Key
          /\ \A i, j \in DOMAIN l.pins : l.pins[i].svc = l.pins[j].svc => i = j

BindInit ==
    /\ bpc = [c \in Call |-> "idle"] /\ kind \in [Call -> {"bind", "secret", "resolve", "build"}]
    /\ svc \in [Call -> Svc] /\ keys \in [Call -> SUBSET Key \ {{}}]
    /\ \A c \in Call : /\ kind[c] = "secret" => Cardinality(keys[c]) = 1
                       /\ kind[c] \in {"resolve", "build"} => keys[c] = Key
                       /\ kind[c] # "bind" => svc[c] = CHOOSE s \in Svc : TRUE
    /\ todo = [c \in Call |-> {}] /\ snap = [c \in Call |-> Empty]
    /\ answer = [c \in Call |-> [k \in Key |-> NoValue]]
    /\ files = [f \in Svc \X Key |-> NoCall] /\ secrets = [k \in Key |-> NoCall]
    /\ lock = Empty

On(c, l) == bpc' = [bpc EXCEPT ![c] = l]
what == <<kind, svc, keys>>

-----------------------------------------------------------------------------
(* The catalog.                                                            *)

\* mergeOverride, for the manifests of the override directory one after the other: one
\* of a bundled name replaces it, others are added.
MergeOverride(in, m) ==
    IF \E i \in DOMAIN in : in[i].name = m.name
    THEN LET i == CHOOSE i \in DOMAIN in : in[i].name = m.name
                     /\ \A j \in DOMAIN in : in[j].name = m.name => i <= j
         IN  [in EXCEPT ![i] = m]
    ELSE Append(in, m)
LoadDefault(bundled, overrides) ==
    FoldLeft(LAMBDA in, m : MergeOverride(in, m), bundled, overrides)

\* Find: the first entry of that name, of that version if one is asked for.
Find(entries, name, version) ==
    SelectInSeq(entries, LAMBDA e : e.name = name /\ version \in {"", e.version})

\* catalog.go:157, "same name replaces bundled entry": whatever the override files, a
\* name has one entry, the last one given for it, and every bundled name is still there.
CatalogRight ==
    LET entry == [name : {"a", "b"}, version : {"1", "2"}]
        seqs == UNION {[1..n -> entry] : n \in 0..2}
    IN  \A bundled, over \in seqs : (\A i, j \in DOMAIN bundled : bundled[i].name = bundled[j].name => i = j) =>
          LET all == LoadDefault(bundled, over) IN
          \A name \in {"a", "b"} :
             /\ Cardinality({i \in DOMAIN all : all[i].name = name}) <= 1
             /\ \A i \in DOMAIN over : (over[i].name = name /\ \A j \in DOMAIN over : over[j].name = name => j <= i)
                   => all[Find(all, name, "")] = over[i]
             /\ Find(bundled, name, "") # 0 => Find(all, name, "") # 0
ASSUME CatalogAssumption == CatalogRight

\* envNameOK over classes of characters: "A" upper case, "a" lower case, "9", "_", "."
\* any other.
EnvNameOK(s) == s # <<>> /\ s[1] # "9" /\ Range(s) \subseteq {"A", "a", "9", "_"}

-----------------------------------------------------------------------------
(* POST bindings and POST secrets.                                         *)

\* handleBindingCreate with values: those of the catalog's variables.  Values for a
\* variable the catalog does not declare, or none and no pin to answer with, are refused.
BindBegins(c) ==
    /\ bpc[c] = "idle" /\ kind[c] = "bind"
    /\ \/ On(c, "files") /\ todo' = [todo EXCEPT ![c] = {svc[c]} \X keys[c]]
       \/ On(c, "refused") /\ UNCHANGED todo
    /\ UNCHANGED <<what, snap, answer, files, secrets, lock>>

\* findExistingBinding: without values, a service that is pinned is left as it is.
BindAgain(c) ==
    /\ bpc[c] = "idle" /\ kind[c] = "bind" /\ (\E p \in Pins(lock) : p.svc = svc[c])
    /\ On(c, "ok")
    /\ UNCHANGED <<what, todo, snap, answer, files, secrets, lock>>

\* handleSecretSet: a value that looks like a secret is refused when an LLM sends it.
SecretBegins(c) ==
    /\ bpc[c] = "idle" /\ kind[c] = "secret"
    /\ \/ On(c, "files") /\ todo' = [todo EXCEPT ![c] = {"secret"} \X keys[c]]
       \/ On(c, "refused") /\ UNCHANGED todo
    /\ UNCHANGED <<what, snap, answer, files, secrets, lock>>

\* MUTANT: the lock file first.
WriteFile_AfterLock(c) ==
    /\ bpc[c] = "files" /\ On(c, "read")
    /\ UNCHANGED <<what, todo, snap, answer, files, secrets, lock>>

\* writeBindingFiles: a file per variable, in the order of the map; the first that fails
\* ends the request, and those before it stay.
WriteFile(c) ==
    /\ bpc[c] = "files"
    /\ \/ \E f \in todo[c] :
             /\ IF f[1] = "secret"
                THEN secrets' = [secrets EXCEPT ![f[2]] = c] /\ UNCHANGED files
                ELSE files' = [files EXCEPT ![f] = c] /\ UNCHANGED secrets
             /\ todo' = [todo EXCEPT ![c] = @ \ {f}]
             /\ IF todo[c] = {f} THEN On(c, "read") ELSE UNCHANGED bpc
       \/ On(c, "refused") /\ todo' = [todo EXCEPT ![c] = {}] /\ UNCHANGED <<files, secrets>>
    /\ UNCHANGED <<what, snap, answer, lock>>

\* updateLockfile reads; that this fails is not told to anyone, and the answer is "ok".
ReadLock(c) ==
    /\ bpc[c] = "read"
    /\ \/ snap' = [snap EXCEPT ![c] = lock] /\ On(c, "write")
       \/ On(c, "ok") /\ UNCHANGED snap
    /\ UNCHANGED <<what, todo, answer, files, secrets, lock>>

\* MUTANT: the new entry alone.
Recorded_Alone(c) ==
    IF kind[c] = "secret" THEN [snap[c] EXCEPT !.secrets = keys[c]]
    ELSE [snap[c] EXCEPT !.pins = <<[svc |-> svc[c], keys |-> keys[c]]>>]

\* The entries of other services, in their order: a service has at most one (BindTypeOK).
OtherPins(pins, s) ==
    IF \E i \in DOMAIN pins : pins[i].svc = s
    THEN RemoveAt(pins, CHOOSE i \in DOMAIN pins : pins[i].svc = s) ELSE pins

\* recordBindingInLockfile and recordSecretInLockfile, on what was read: the service's
\* entry is replaced by one at the end, a name is in the list once.
Recorded(c) ==
    IF kind[c] = "secret" THEN [snap[c] EXCEPT !.secrets = @ \cup keys[c]]
    ELSE [snap[c] EXCEPT !.pins = Append(OtherPins(@, svc[c]), [svc |-> svc[c], keys |-> keys[c]])]

\* writeLockfile: in one file_write (a temporary file and a rename in the runtime).
WriteLock(c) ==
    /\ bpc[c] = "write" /\ On(c, "ok") /\ lock' \in {lock, Recorded(c)}
    /\ UNCHANGED <<what, todo, snap, answer, files, secrets>>

\* The file is the user's to edit; one that does not parse reads as none.
LockCorrupted ==
    /\ lock # Empty /\ lock' = Empty
    /\ UNCHANGED <<bpc, what, todo, snap, answer, files, secrets>>

-----------------------------------------------------------------------------
(* GET bindings/env and POST build.                                        *)

\* handleBindingResolve and handleBuild start from the lock file.
ReadPins(c) ==
    /\ bpc[c] = "idle" /\ kind[c] \in {"resolve", "build"}
    /\ \/ /\ snap' = [snap EXCEPT ![c] = lock]
          /\ On(c, IF kind[c] = "resolve" THEN "values" ELSE "manifest")
          /\ todo' = [todo EXCEPT ![c] = (UNION {{p.svc} \X p.keys : p \in Pins(lock)})
                                          \cup ({"secret"} \X lock.secrets)]
       \/ On(c, "refused") /\ UNCHANGED <<snap, todo>>
    /\ UNCHANGED <<what, answer, files, secrets, lock>>

\* The pins in the order of the lock file, then the secrets; a file that cannot be read
\* is passed over.  A later service takes a variable over, a secret does not.
Precedes(c, f, g) ==
    LET place(h) == CHOOSE i \in DOMAIN snap[c].pins : snap[c].pins[i].svc = h[1]
    IN  f[1] # g[1] /\ f[1] # "secret" /\ (g[1] = "secret" \/ place(f) < place(g))

ReadValue(c) ==
    /\ bpc[c] = "values"
    /\ \E f \in todo[c] :
          /\ ~\E g \in todo[c] : Precedes(c, g, f)
          /\ todo' = [todo EXCEPT ![c] = @ \ {f}]
          /\ LET value == IF f[1] = "secret" THEN secrets[f[2]] ELSE files[f]
                 free == f[1] # "secret" \/ answer[c][f[2]] = NoValue
             IN  \/ /\ value # NoCall /\ free
                    /\ answer' = [answer EXCEPT ![c][f[2]] = [of |-> value, from |-> f[1]]]
                 \/ UNCHANGED answer
    /\ UNCHANGED <<bpc, what, snap, files, secrets, lock>>

Resolved(c) ==
    /\ bpc[c] = "values" /\ todo[c] = {} /\ On(c, "ok")
    /\ UNCHANGED <<what, todo, snap, answer, files, secrets, lock>>

\* The project, its language and the Dockerfile are found through the shell, and both
\* artifacts are written; any of it may fail.
BuildManifest(c) ==
    /\ bpc[c] = "manifest" /\ (On(c, "ok") \/ On(c, "refused"))
    /\ todo' = [todo EXCEPT ![c] = {}]
    /\ UNCHANGED <<what, snap, answer, files, secrets, lock>>

BindNext ==
    \/ \E c \in Call :
          \/ BindBegins(c) \/ BindAgain(c) \/ SecretBegins(c) \/ WriteFile(c) \/ ReadLock(c)
          \/ WriteLock(c) \/ ReadPins(c) \/ ReadValue(c) \/ Resolved(c) \/ BuildManifest(c)
    \/ LockCorrupted

BindSpec == BindInit /\ [][BindNext]_bindVars

-----------------------------------------------------------------------------
(* Properties.                                                             *)

\* Whatever requests and failures come between, the lock file never promises a deploy
\* a variable or a secret that has no value in the sandbox (bindings.go:258 passes over
\* such a one without a word): the record comes after the files.
PinsAreBacked ==
    /\ \A p \in Pins(lock) : \A k \in p.keys : files[<<p.svc, k>>] # NoCall
    /\ \A k \in lock.secrets : secrets[k] # NoCall

\* A pin or a secret is lost only with the whole file or to a request that had read the
\* file before its last change (lockfile.go:125: "the central read-modify-write").
Named(l) == {p.svc : p \in Pins(l)} \cup l.secrets
PinsKept ==
    [][~(Named(lock) \subseteq Named(lock'))
         => \/ lock' = Empty
            \/ \E c \in Call : bpc[c] = "write" /\ bpc'[c] = "ok" /\ snap[c] # lock]_bindVars

\* handleBindingList: the services scanBindingFiles finds files of.
Listed == {s \in Svc : \E k \in Key : files[<<s, k>>] # NoCall}

\* What the list shows a deploy gets (from the lock file), once every request is over.
ListedIsResolved == (\A c \in Call : bpc[c] \in {"idle", "ok"}) => Listed \subseteq Named(lock)

\* bindings.go:285: the values of a service are those of one request.
OneSetOfValues ==
    (\A c \in Call : bpc[c] \in {"idle", "ok"}) =>
        \A p \in Pins(lock) : \E c \in Call : \A k \in p.keys : files[<<p.svc, k>>] = c
=============================================================================
