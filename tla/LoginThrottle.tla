--------------------------- MODULE LoginThrottle ---------------------------
(***************************************************************************)
(* cmd/authproxy ratelimit.go: the sliding window in front of sign-in,     *)
(* sign-up and the mail for a forgotten password.  An attempt reads the    *)
(* clock before it takes the lock, so attempts are recorded in an order    *)
(* that need not be the order of their times.                              *)
(***************************************************************************)
EXTENDS Naturals, FiniteSets

CONSTANTS
    Client,         \* bound: addresses
    Attempt,        \* bound: requests at a time
    LoginMax,       \* loginRateMax
    LoginWindow,    \* loginRateWindow
    LoginKeys,      \* 1024 keys, past which old ones are dropped
    LoginDelay,     \* bound: how long a request waits for the lock
    LoginClock      \* bound: the clock

ASSUME ThrottleConstants == {LoginMax, LoginWindow, LoginKeys, LoginDelay, LoginClock} \subseteq Nat

VARIABLES
    tnow,       \* the clock
    hits,       \* of a client: the entries of its window; {} is no key
    attempt,    \* of a request: idle, or the client and time it has read
    passed      \* history: of a client, every entry ever made: the attempts allowed

throttleVars == <<tnow, hits, attempt, passed>>

NoAttempt == [at |-> "idle"]
Read == [at : {"read"}, client : Client, now : 0..LoginClock]

\* An allowed attempt as it is recorded: the time it read, and its place in the list.
Entry == [time : 0..LoginClock, place : Nat]

ThrottleTypeOK ==
    /\ tnow \in 0..LoginClock /\ attempt \in [Attempt -> Read \cup {NoAttempt}]
    /\ passed \in [Client -> SUBSET Entry] /\ hits \in [Client -> SUBSET Entry]
    /\ LoginMax > 0 => \A c \in Client : Cardinality(hits[c]) <= LoginMax

ThrottleInit ==
    /\ tnow = 0 /\ hits = [c \in Client |-> {}] /\ attempt = [a \in Attempt |-> NoAttempt]
    /\ passed = [c \in Client |-> {}]

\* Nobody waits longer than LoginDelay for the lock.
ThrottleTick ==
    /\ tnow < LoginClock /\ tnow' = tnow + 1
    /\ \A a \in Attempt : attempt[a] # NoAttempt => tnow < attempt[a].now + LoginDelay
    /\ UNCHANGED <<hits, attempt, passed>>

AttemptBegins(a, c) ==
    /\ attempt[a] = NoAttempt
    /\ attempt' = [attempt EXCEPT ![a] = [at |-> "read", client |-> c, now |-> tnow]]
    /\ UNCHANGED <<tnow, hits, passed>>

\* A time is in the window that ends at now (times are counted from 0, so a cutoff
\* before 0 keeps all of them).
Within(t, now) == t + LoginWindow > now

Kept(a) == {e \in hits[attempt[a].client] : Within(e.time, attempt[a].now)}

\* MUTANT: past the limit of keys, every other key goes.
SweptKeys_All(m, c, now) ==
    IF Cardinality({k \in Client : m[k] # {}}) > LoginKeys
    THEN [k \in Client |-> IF k = c THEN m[k] ELSE {}] ELSE m

\* The last entry of a list: not always the one of the latest time.
IsLast(e, list) == e \in list /\ \A f \in list : f.place <= e.place

\* Past the limit of keys, those whose last recorded time is before the window go.
SweptKeys(m, c, now) ==
    IF Cardinality({k \in Client : m[k] # {}}) > LoginKeys
    THEN [k \in Client |-> IF \E e \in m[k] : IsLast(e, m[k]) /\ e.time + LoginWindow >= now
                           THEN m[k] ELSE {}]
    ELSE m

\* allow, under the lock; 0 disables it, and nothing is recorded.
allow(a) ==
    /\ attempt[a] # NoAttempt /\ attempt' = [attempt EXCEPT ![a] = NoAttempt]
    /\ LET c == attempt[a].client
           new == [time |-> attempt[a].now, place |-> Cardinality(passed[c])]
       IN  \/ LoginMax = 0 /\ UNCHANGED <<hits, passed>>
           \/ /\ LoginMax > 0 /\ Cardinality(Kept(a)) >= LoginMax
              /\ hits' = [hits EXCEPT ![c] = Kept(a)] /\ UNCHANGED passed
           \/ /\ LoginMax > 0 /\ Cardinality(Kept(a)) < LoginMax
              /\ passed' = [passed EXCEPT ![c] = @ \cup {new}]
              /\ hits' = SweptKeys([hits EXCEPT ![c] = Kept(a) \cup {new}], c, new.time)
    /\ UNCHANGED tnow

ThrottleNext ==
    \/ ThrottleTick
    \/ \E a \in Attempt : allow(a) \/ \E c \in Client : AttemptBegins(a, c)

ThrottleSpec == ThrottleInit /\ [][ThrottleNext]_throttleVars

-----------------------------------------------------------------------------
(* Properties.                                                             *)

\* The attempts allowed to a client that came within width seconds of each other.
Burst(c, t, width) == Cardinality({e \in passed[c] : e.time >= t /\ e.time < t + width})

\* By how much waiting shortens the window: an attempt is late by its own wait, and the
\* sweep goes by the last entry, which is the older of two that overtook each other.
Slack == IF LoginDelay > 0 THEN 2 * LoginDelay - 1 ELSE 0

\* However requests wait for the lock, no more than the limit are allowed to one client
\* in a window that is shorter by the slack (ratelimit.go:57).
WindowKept ==
    LoginMax > 0 /\ Slack <= LoginWindow =>
        \A c \in Client, t \in 0..LoginClock : Burst(c, t, LoginWindow - Slack) <= LoginMax

\* The window itself: requests that wait can exceed it.
WindowExact ==
    LoginMax > 0 => \A c \in Client, t \in 0..LoginClock : Burst(c, t, LoginWindow) <= LoginMax
=============================================================================
