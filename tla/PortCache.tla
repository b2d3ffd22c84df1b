-------------------------------- MODULE PortCache --------------------------------
(***************************************************************************)
(* pkg/handlers/port_discovery.go: lookups of the ports a project listens  *)
(* on go through a cache that is filled outside its lock, while the        *)
(* project opens and closes ports and time passes.                         *)
(***************************************************************************)
EXTENDS Naturals

CONSTANTS
    Lookup,         \* bound: lookups of one process group's ports
    Port,           \* ports the group may listen on
    TTL,            \* portCacheTTL, in ticks
    MaxFetch,       \* bound: ticks a lookup takes that is not answered from the cache
    MaxTime,        \* bound: the clock
    MaxMoves,       \* bound: ports opened and closed
    NoEntry

ASSUME PortConstants == {MaxFetch, MaxTime, MaxMoves} \subseteq Nat /\ TTL \in Nat \ {0}

VARIABLES
    ptime,
    open,           \* ports the group listens on
    upSince, lastUp,    \* of a port: when it last started, when it was last listened on
    moves,
    portCache,      \* portCache[pgid], or NoEntry
    look            \* of a lookup: see PortsTypeOK

portVars == <<ptime, open, upSince, lastUp, moves, portCache, look>>

PortsTypeOK ==
    /\ ptime \in 0..MaxTime /\ open \subseteq Port /\ moves \in 0..MaxMoves
    /\ upSince \in [Port -> 0..MaxTime] /\ lastUp \in [Port -> 0..MaxTime]
    /\ portCache = NoEntry \/ portCache.at <= ptime
    /\ \A l \in Lookup : /\ look[l].pc \in {"new", "ss", "proc", "stamp", "put", "over"}
                         /\ look[l].ports \subseteq Port /\ look[l].from \in 0..MaxTime /\ look[l].at \in 0..MaxTime
                         /\ look[l].failed \in BOOLEAN

\* ports: what it found; from: when it began; at: time.Now() after the fetch;
\* failed: ss or a read of /proc failed for it, or for the lookup that filled the cache.
NewLookup == [pc |-> "new", ports |-> {}, from |-> 0, at |-> 0, failed |-> FALSE]

PortsInit ==
    /\ ptime = 0 /\ open = {} /\ moves = 0
    /\ upSince = [p \in Port |-> 0] /\ lastUp = [p \in Port |-> 0]
    /\ portCache = NoEntry /\ look = [l \in Lookup |-> NewLookup]

Fetching(l) == look[l].pc \in {"ss", "proc", "stamp", "put"}

\* Time passes; no fetch takes longer than MaxFetch.
PortTick ==
    /\ ptime < MaxTime /\ ptime' = ptime + 1
    /\ \A l \in Lookup : Fetching(l) => look[l].from + MaxFetch > ptime
    /\ lastUp' = [p \in Port |-> IF p \in open THEN ptime + 1 ELSE lastUp[p]]
    /\ UNCHANGED <<open, upSince, moves, portCache, look>>

\* A server of the group binds a port or goes.
Listen(p) ==
    /\ moves < MaxMoves /\ moves' = moves + 1
    /\ IF p \in open THEN open' = open \ {p} /\ UNCHANGED <<upSince, lastUp>>
       ELSE /\ open' = open \cup {p}
            /\ upSince' = [upSince EXCEPT ![p] = ptime] /\ lastUp' = [lastUp EXCEPT ![p] = ptime]
    /\ UNCHANGED <<ptime, portCache, look>>

Fresh == portCache # NoEntry /\ ptime - portCache.at < TTL

\* Under the lock: an entry younger than the TTL answers.
CacheHit(l) ==
    /\ look[l].pc = "new" /\ Fresh
    /\ look' = [look EXCEPT ![l] = [pc |-> "over", ports |-> portCache.ports, from |-> ptime, at |-> ptime,
                                    failed |-> portCache.failed]]
    /\ UNCHANGED <<ptime, open, upSince, lastUp, moves, portCache>>

CacheMiss(l) ==
    /\ look[l].pc = "new" /\ ~Fresh
    /\ look' = [look EXCEPT ![l].pc = "ss", ![l].from = ptime]
    /\ UNCHANGED <<ptime, open, upSince, lastUp, moves, portCache>>

\* portsForPGID: `ss' lists the sockets; any failure is an empty answer.
RunSS(l) ==
    /\ look[l].pc = "ss"
    /\ \/ look' = [look EXCEPT ![l].pc = "proc", ![l].ports = open]
       \/ look' = [look EXCEPT ![l].pc = "stamp", ![l].ports = {}, ![l].failed = TRUE]
    /\ UNCHANGED <<ptime, open, upSince, lastUp, moves, portCache>>

\* procPGID of every pid: a process that has gone meanwhile has no group.
ReadOwners(l) ==
    /\ look[l].pc = "proc"
    /\ look' = [look EXCEPT ![l].pc = "stamp", ![l].ports = @ \cap open]
    /\ UNCHANGED <<ptime, open, upSince, lastUp, moves, portCache>>

Stamp(l) ==
    /\ look[l].pc = "stamp" /\ look' = [look EXCEPT ![l].pc = "put", ![l].at = ptime]
    /\ UNCHANGED <<ptime, open, upSince, lastUp, moves, portCache>>

\* The last one to get the lock leaves its answer there, whenever it was found.  (The
\* sweep of entries a minute old removes only what no lookup would use.)
PutEntry(l) ==
    /\ look[l].pc = "put"
    /\ portCache' = [ports |-> look[l].ports, at |-> look[l].at, failed |-> look[l].failed]
    /\ look' = [look EXCEPT ![l].pc = "over"]
    /\ UNCHANGED <<ptime, open, upSince, lastUp, moves>>

\* The caller reads its answer and asks again.
Answered(l) ==
    /\ look[l].pc = "over" /\ look' = [look EXCEPT ![l] = NewLookup]
    /\ UNCHANGED <<ptime, open, upSince, lastUp, moves, portCache>>

PortsNext ==
    \/ PortTick \/ \E p \in Port : Listen(p)
    \/ \E l \in Lookup : \/ CacheHit(l) \/ CacheMiss(l) \/ RunSS(l) \/ ReadOwners(l)
                         \/ Stamp(l) \/ PutEntry(l) \/ Answered(l)

\* What a poller of project_list may rely on although fetches overlap and the slower one
\* overwrites the newer (port_discovery.go:40): an answer is late by one TTL and one fetch
\* at most.  A port that has been open for longer is in it, unless ss failed, and one that
\* has been closed for longer is not.
Horizon == TTL + MaxFetch
PortsFresh ==
    \A l \in Lookup : look[l].pc = "over" /\ look[l].at = ptime =>
        /\ \A p \in look[l].ports : lastUp[p] + Horizon > ptime
        /\ \A p \in open \ look[l].ports : upSince[p] + Horizon > ptime \/ look[l].failed

\* "a rare double-fetch ... is harmless (same answer)" (port_discovery.go:44): what was
\* answered once and is still so is answered again.
DoubleFetchHarmless ==
    [][\A l, m \in Lookup : look[m].pc = "over" /\ look[l].pc = "new" /\ look'[l].pc = "over" /\ ~look'[l].failed =>
           \A p \in look[m].ports \cap open : upSince[p] < look[m].at => p \in look'[l].ports]_portVars

==============================================================================
