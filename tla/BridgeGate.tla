----------------------------- MODULE BridgeGate -----------------------------
(***************************************************************************)
(* cmd/bridge deploy_auth.go and deploy_auth_password.go: who gets through *)
(* to a published deployment.  An organisation's site wants a cookie that  *)
(* follows a sign-in with the app, a site with a password wants a cookie   *)
(* that follows the password it has now; neither is kept on the bridge.    *)
(* Attempts at passwords are counted by address and minute, in a map of    *)
(* bounded size.                                                           *)
(***************************************************************************)
EXTENDS Naturals, FiniteSets

CONSTANTS
    Browser,        \* bound: browsers, each with an address of its own
    Stranger,       \* bound: addresses from which passwords are only guessed
    Site,           \* bound: hostnames of deployments
    Tenant,         \* bound: organisations
    Pass,           \* bound: passwords, by their prefix (8 bytes of a salted hash)
    Handoff,        \* seconds a token is good for (5 minutes)
    SessTTL,        \* ... a session cookie (24 hours)
    UnlockTTL,      \* ... an unlock cookie (a week)
    Minute,         \* ... to a minute
    MaxTries,       \* unlockMaxPerMinPerIP
    MaxKeys,        \* rlMaxKeys
    MaxClock,       \* bound: the clock
    NoOne

ASSUME GateConstants ==
    /\ {Handoff, SessTTL, UnlockTTL, MaxTries, MaxKeys, MaxClock} \subseteq Nat
    /\ Minute \in 1..MaxClock /\ NoOne \notin Tenant \cup Pass /\ Browser \cap Stranger = {}

VARIABLES
    clock,
    published,  \* of a site: its route, or none
    token,      \* of a browser: the token in its address bar
    sess,       \* ... its _agentry_sess cookie
    unlock,     \* ... its _agentry_unlock cookie
    visit,      \* ... its request, past the gate
    bucket,     \* of an address: attempts in a minute, or none
    signedIn,   \* history: when a browser last signed in to a tenant (0: never)
    typed,      \* history: when it last typed a password that was right
    tries       \* history: passwords verified for an address in this minute

cookies == <<token, sess, unlock>>
history == <<signedIn, typed, tries>>
gateVars == <<clock, published, cookies, visit, bucket, history>>

Address == Browser \cup Stranger

\* A route's mode with its organisation and password (NoOne: none is set).
GateRoute == [mode : {"public", "org"}, org : Tenant, pass : {NoOne}]
             \cup [mode : {"password"}, org : Tenant, pass : Pass \cup {NoOne}]
NoRoute == [mode |-> "none"]

\* <org>.<exp>.<mac> and <prefix>.<exp>.<mac>: what it says and until when.
Signed(S) == [of : S, exp : Nat] \cup {[of |-> NoOne, exp |-> 0]}
Unsigned == [of |-> NoOne, exp |-> 0]

Away == [at |-> "away", site |-> NoOne, route |-> NoRoute, target |-> NoRoute, when |-> 0]

GateTypeOK ==
    /\ clock \in 1..MaxClock /\ published \in [Site -> GateRoute \cup {NoRoute}]
    /\ token \in [Browser -> Signed(Tenant)] /\ sess \in [Browser -> Signed(Tenant)]
    /\ unlock \in [Browser -> Signed(Pass)]
    /\ \A b \in Browser : visit[b].at \in {"away", "admitted", "proxied"}
    /\ bucket \in [Address -> [count : 0..MaxTries, at : Nat]]
    /\ signedIn \in [Browser -> [Tenant -> 0..MaxClock]] /\ typed \in [Browser -> [Pass -> 0..MaxClock]]

\* An address that is not in the map.
NoBucket == [count |-> 0, at |-> 0]

GateInit ==
    /\ clock = Minute /\ published = [s \in Site |-> NoRoute]
    /\ token = [b \in Browser |-> Unsigned] /\ sess = token /\ unlock = token
    /\ visit = [b \in Browser |-> Away] /\ bucket = [b \in Address |-> NoBucket]
    /\ signedIn = [b \in Browser |-> [o \in Tenant |-> 0]]
    /\ typed = [b \in Browser |-> [p \in Pass |-> 0]] /\ tries = [b \in Address |-> 0]

ThisMinute == clock \div Minute

\* Seconds go by; in a new minute nothing has been tried yet.
GateTick ==
    /\ clock < MaxClock /\ clock' = clock + 1
    /\ tries' = IF (clock + 1) % Minute = 0 THEN [b \in Address |-> 0] ELSE tries
    /\ UNCHANGED <<published, cookies, visit, bucket, signedIn, typed>>

\* A push of the control plane: published, withdrawn, another mode or password.
Publish(s, r) ==
    /\ published[s] # r /\ published' = [published EXCEPT ![s] = r]
    /\ UNCHANGED <<clock, cookies, visit, bucket, history>>

\* app.agentry.run after its own sign-in: a token in the address bar.
AppSignsIn(b, o) ==
    /\ token' = [token EXCEPT ![b] = [of |-> o, exp |-> clock + Handoff]]
    /\ signedIn' = [signedIn EXCEPT ![b][o] = clock]
    /\ UNCHANGED <<clock, published, sess, unlock, visit, bucket, typed, tries>>

-----------------------------------------------------------------------------
(* checkDeployAuth.                                                        *)

\* verifyDeploySignedValue: good to the second it names.
Valid(v) == v.of # NoOne /\ clock <= v.exp

Admit(b, s) ==
    visit' = [visit EXCEPT ![b] = [at |-> "admitted", site |-> s, route |-> published[s],
                                   target |-> NoRoute, when |-> clock]]

\* A token of the route's organisation becomes a fresh cookie and a redirect; any other
\* token is an answer of its own (401, 403).
TokenToCookie(b, s) ==
    /\ visit[b].at = "away" /\ published[s].mode = "org" /\ token[b] # Unsigned
    /\ IF Valid(token[b]) /\ token[b].of = published[s].org
       THEN sess' = [sess EXCEPT ![b] = [of |-> published[s].org, exp |-> clock + SessTTL]]
       ELSE UNCHANGED sess
    /\ token' = [token EXCEPT ![b] = Unsigned]
    /\ UNCHANGED <<clock, published, unlock, visit, bucket, history>>

\* MUTANT: any organisation's cookie will do.
OrgCookie_AnyOrg(b, s) ==
    /\ visit[b].at = "away" /\ published[s].mode = "org" /\ token[b] = Unsigned
    /\ Valid(sess[b])
    /\ Admit(b, s) /\ UNCHANGED <<clock, published, cookies, bucket, history>>

\* The cookie's organisation must be the route's; otherwise a redirect to the app.
OrgCookie(b, s) ==
    /\ visit[b].at = "away" /\ published[s].mode = "org" /\ token[b] = Unsigned
    /\ Valid(sess[b]) /\ sess[b].of = published[s].org
    /\ Admit(b, s) /\ UNCHANGED <<clock, published, cookies, bucket, history>>

\* Public routes pass.
Open(b, s) ==
    /\ visit[b].at = "away" /\ published[s].mode = "public"
    /\ Admit(b, s) /\ UNCHANGED <<clock, published, cookies, bucket, history>>

-----------------------------------------------------------------------------
(* checkDeployAuthPassword.                                                *)

\* verifyUnlockCookie: good until the second it names; a rotated password's prefix is
\* no longer the route's.  Otherwise the form is shown.
UnlockCookie(b, s) ==
    /\ visit[b].at = "away" /\ published[s].mode = "password" /\ published[s].pass # NoOne
    /\ unlock[b].of = published[s].pass /\ clock < unlock[b].exp
    /\ Admit(b, s) /\ UNCHANGED <<clock, published, cookies, bucket, history>>

\* MUTANT: past the cap, every other address is forgotten.
Evicted_All(m, b) == IF Cardinality({a \in Address : m[a] # NoBucket}) > MaxKeys
                     THEN [a \in Address |-> IF a = b THEN m[a] ELSE NoBucket] ELSE m

\* Past the cap, buckets of other minutes are dropped.
Evicted(m, b) ==
    IF Cardinality({a \in Address : m[a] # NoBucket}) > MaxKeys
    THEN [a \in Address |-> IF m[a].at # ThisMinute THEN NoBucket ELSE m[a]] ELSE m

\* rateLimiter.Allow.
Fresh(b) == IF bucket[b].at = ThisMinute THEN bucket[b] ELSE [count |-> 0, at |-> ThisMinute]
Allowed(b) == Fresh(b).count < MaxTries
Counted(b) == Evicted([bucket EXCEPT ![b] = [Fresh(b) EXCEPT !.count = @ + 1]], b)

\* verifyArgon2id: an empty attempt is never right; the hash is taken to be injective.
Right(p, pass) == p # NoOne /\ p = pass

\* handleUnlockSubmit: counted; the right password sets the cookie, a wrong, empty or
\* unreadable one shows the form again.
UnlockSubmit(b, s, p) ==
    /\ visit[b].at = "away" /\ published[s].mode = "password" /\ published[s].pass # NoOne
    /\ IF ~Allowed(b)
       THEN bucket' = [bucket EXCEPT ![b] = Fresh(b)] /\ UNCHANGED <<unlock, typed, tries>>
       ELSE /\ bucket' = Counted(b) /\ tries' = [tries EXCEPT ![b] = @ + 1]
            /\ IF Right(p, published[s].pass)
               THEN /\ unlock' = [unlock EXCEPT ![b] = [of |-> p, exp |-> clock + UnlockTTL]]
                    /\ typed' = [typed EXCEPT ![b][p] = clock]
               ELSE UNCHANGED <<unlock, typed>>
    /\ UNCHANGED <<clock, published, token, sess, visit, signedIn>>

\* The same from an address without a browser, with a wrong password.
Guess(a) ==
    /\ \E s \in Site : published[s].mode = "password" /\ published[s].pass # NoOne
    /\ IF ~Allowed(a) THEN bucket' = [bucket EXCEPT ![a] = Fresh(a)] /\ UNCHANGED tries
       ELSE bucket' = Counted(a) /\ tries' = [tries EXCEPT ![a] = @ + 1]
    /\ UNCHANGED <<clock, published, cookies, visit, signedIn, typed>>

-----------------------------------------------------------------------------
(* HandleDeployment looks the route up again.                              *)

GateProxies(b) ==
    /\ visit[b].at = "admitted"
    /\ visit' = [visit EXCEPT ![b] = IF published[visit[b].site] = NoRoute THEN Away
                   ELSE [@ EXCEPT !.at = "proxied", !.target = published[visit[b].site]]]
    /\ UNCHANGED <<clock, published, cookies, bucket, history>>

GateAnswered(b) ==
    /\ visit[b].at = "proxied" /\ visit' = [visit EXCEPT ![b] = Away]
    /\ UNCHANGED <<clock, published, cookies, bucket, history>>

GateNext ==
    \/ GateTick
    \/ \E s \in Site, r \in GateRoute \cup {NoRoute} : Publish(s, r)
    \/ \E b \in Browser :
          \/ \E o \in Tenant : AppSignsIn(b, o)
          \/ \E s \in Site : \/ TokenToCookie(b, s) \/ OrgCookie(b, s) \/ Open(b, s)
                             \/ UnlockCookie(b, s)
                             \/ \E p \in Pass \cup {NoOne} : UnlockSubmit(b, s, p)
          \/ GateProxies(b) \/ GateAnswered(b)
    \/ \E a \in Stranger : Guess(a)

GateSpec == GateInit /\ [][GateNext]_gateVars

-----------------------------------------------------------------------------
(* Properties.                                                             *)

\* Whoever is past the gate has shown what the route wanted when it was looked up:
\* the password the site has had since its last rotation, typed less than a week ago
\* (deploy_auth_password.go:32), or a sign-in to its organisation not longer ago than
\* the token and the cookie last together.
AdmittedRight ==
    \A b \in Browser : visit[b].at # "away" =>
        LET r == visit[b].route IN
        /\ r.mode = "password" => /\ r.pass # NoOne /\ typed[b][r.pass] > 0
                                  /\ visit[b].when < typed[b][r.pass] + UnlockTTL
        /\ r.mode = "org" => /\ signedIn[b][r.org] > 0
                             /\ visit[b].when <= signedIn[b][r.org] + Handoff + SessTTL

\* No address has more passwords verified in a minute than the budget, although the
\* map of addresses is swept (deploy_auth_password.go:278).
TriesBounded == \A a \in Address : tries[a] <= MaxTries

GateSound == AdmittedRight /\ TriesBounded

\* What is proxied is what the gate has looked at (main.go:215 and HandleDeployment).
GateIsCurrent == \A b \in Browser : visit[b].at = "proxied" => visit[b].target = visit[b].route
=============================================================================
