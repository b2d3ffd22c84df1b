------------------------------- MODULE Backoff -------------------------------
(***************************************************************************)
(* pkg/tunnel/backoff.go: exponential backoff with a cap, jitter, a limit  *)
(* on attempts and a reset after a quiet window, driven by a retry loop    *)
(* such as BrokerClient.Run.  time.Duration is a signed integer of Width   *)
(* bits; Next computes Base * 2^attempts in floating point and converts.   *)
(***************************************************************************)
EXTENDS Integers

CONSTANTS
    Base, Max, ResetAfter, MaxAttempts,     \* BackoffConfig
    Jitter,                                 \* in tenths
    Width,                                  \* bits of a Duration
    MaxTries,                               \* bound: attempts counted
    Slow                                    \* bound: time a dial may take

ASSUME BackoffConstants ==
    /\ Base \in Nat \ {0} /\ Max \in Nat /\ Base <= Max /\ ResetAfter \in Nat
    /\ MaxAttempts \in Nat /\ Jitter \in 0..10 /\ Width \in Nat \ {0} /\ MaxTries \in Nat
    /\ Slow \in Nat

VARIABLES
    attempts,   \* b.attempts
    since,      \* time since b.last, -1 when b.last is zero
    delay,      \* what Next returned last
    retryLoop   \* the caller: "try" before an attempt, "wait" in its timer, "over"

backoffVars == <<attempts, since, delay, retryLoop>>

BackoffTypeOK ==
    /\ attempts \in 0..MaxTries /\ since \in Int /\ delay \in Int
    /\ retryLoop \in {"try", "wait", "over"}
    /\ MaxAttempts > 0 => attempts <= MaxAttempts

BackoffInit == attempts = 0 /\ since = -1 /\ delay = 0 /\ retryLoop = "try"

\* time.Duration(x) of a float: exact in range; out of range amd64 yields the
\* smallest integer and arm64 the largest.
ToDuration(x) == IF x < 2^(Width - 1) THEN {x} ELSE {-(2^(Width - 1)), 2^(Width - 1) - 1}

\* The delay for the n-th attempt before jitter.
capped(n) == {IF d > Max THEN Max ELSE d : d \in ToDuration(Base * 2^n)}

\* Jitter takes off less than its fraction, and nothing from a delay it would
\* round to zero.
Jittered(d) ==
    LET spread == (d * Jitter) \div 10 IN
    IF d > 0 /\ spread > 0 THEN {d - s : s \in 0..(spread - 1)} ELSE {d}

\* The counter Next starts from: a long quiet window resets it.
Counted == IF ResetAfter > 0 /\ since > ResetAfter THEN 0 ELSE attempts

\* Next returns zero.
GivesUp == MaxAttempts > 0 /\ Counted >= MaxAttempts

\* An attempt failed and the loop asks for its next delay; zero means give up.
Next_ ==
    /\ retryLoop = "try"
    /\ IF GivesUp
       THEN attempts' = Counted /\ delay' = 0 /\ retryLoop' = "over" /\ UNCHANGED since
       ELSE /\ Counted < MaxTries
            /\ attempts' = Counted + 1 /\ since' = 0 /\ retryLoop' = "wait"
            /\ \E d \in capped(Counted) : delay' \in Jittered(d)

\* The attempt succeeded: Reset; the session lives for a while, then drops.
Reset ==
    /\ retryLoop = "try"
    /\ attempts' = 0 /\ since' = -1
    /\ UNCHANGED <<delay, retryLoop>>

\* time.After(delay), at once when it is not positive, and then the attempt
\* itself takes some time.
Wait ==
    /\ retryLoop = "wait"
    /\ \E took \in 0..Slow : since' = (IF delay > 0 THEN delay ELSE 0) + took
    /\ retryLoop' = "try"
    /\ UNCHANGED <<attempts, delay>>

BackoffNext == Next_ \/ Reset \/ Wait

BackoffSpec == BackoffInit /\ [][BackoffNext]_backoffVars

-----------------------------------------------------------------------------
(* Properties.                                                             *)

\* Without an overflow, every delay is the one the documentation gives: the
\* doubled base under the cap, less at most the jitter's share.
Ramp ==
    retryLoop = "wait" =>
        LET want == IF Base * 2^(attempts - 1) > Max THEN Max ELSE Base * 2^(attempts - 1) IN
        delay <= want /\ 10 * delay >= (10 - Jitter) * want

\* "Max caps the per-attempt delay" and the loop is never to be "trying to
\* drown the broker in retries": a delay that is not "give up" is positive.
NeverDrowns == retryLoop = "wait" => delay > 0 /\ delay <= Max
==============================================================================
