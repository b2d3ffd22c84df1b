----------------------------- MODULE AuthFront -----------------------------
(***************************************************************************)
(* The request path of the auth proxy (cmd/authproxy proxy.go, session.go, *)
(* csrf.go, same_origin.go, the start and the state of oauth.go): nothing  *)
(* about a visitor is kept on the server.  A form, a session and an OAuth  *)
(* flow are values signed with the app's key, which the browser brings     *)
(* back: later, twice, or to another app on the same host, whose cookies   *)
(* share one jar.                                                          *)
(***************************************************************************)
EXTENDS Naturals, FiniteSets

CONSTANTS
    Visitor,        \* bound: browsers
    App,            \* bound: apps on one host, by app id
    User,           \* bound: accounts
    Passthrough,    \* apps without AGENTRY_AUTH_ENABLED
    Flow,           \* bound: OAuth flows, by their nonce
    SessionAge,     \* sessionMaxAge
    FormAge,        \* csrfTokenTTL
    StateAge,       \* oauthStateMaxAge
    FrontClock,     \* bound: the clock
    None_

ASSUME FrontConstants ==
    /\ {SessionAge, FormAge, StateAge, FrontClock} \subseteq Nat /\ Passthrough \subseteq App
    /\ None_ \notin User \cup Flow \cup App

\* loadConfig: what starts under an environment, given by which of its parts are right.
\* A value of AGENTRY_AUTH_ENABLED that is not a yes is a no.
Env == [enabled : {"yes", "no", "other"}, db : BOOLEAN, url : BOOLEAN, secret : BOOLEAN,
        smtp : BOOLEAN, verify : BOOLEAN]
LoadConfig(e) ==
    IF e.enabled # "yes" THEN [mode |-> "passthrough", gate |-> FALSE]
    ELSE IF e.db /\ e.url /\ e.secret THEN [mode |-> "agentry", gate |-> e.verify /\ e.smtp]
    ELSE [mode |-> "refused", gate |-> FALSE]

\* A broken binding never turns the auth off, and nobody is asked for a verification that
\* cannot be mailed (config.go:103 and :180).
ASSUME NeverDowngraded ==
    \A e \in Env : /\ e.enabled = "yes" => LoadConfig(e).mode # "passthrough"
                   /\ LoadConfig(e).gate => e.smtp

VARIABLES
    fnow,       \* the clock
    form,       \* of a browser: the form token in its page
    session,    \* ... its session cookie
    nonce,      \* ... its OAuth state cookie
    flow,       \* of a flow: the state in the provider's redirect, and who started it
    exchange,   \* of a browser: a callback that talks to the provider
    forged      \* history: a sign-in by another site's page

frontVars == <<fnow, form, session, nonce, flow, exchange, forged>>

\* deriveAppSecret: a key of the app's own.
AppKey == App
\* A signed value: the key, what it says, until when.  "by" is the browser in which its
\* user signed in (not part of the value).
FormToken == [key : AppKey, exp : Nat]
SessionPayload == [key : AppKey, user : User, exp : Nat, by : Visitor]
OAuthState == [key : AppKey, exp : Nat, by : Visitor, user : User \cup {None_}]
Absent == [key |-> None_]

FrontTypeOK ==
    /\ fnow \in 0..FrontClock /\ forged \in BOOLEAN
    /\ form \in [Visitor -> FormToken \cup {Absent}]
    /\ session \in [Visitor -> SessionPayload \cup {Absent}]
    /\ nonce \in [Visitor -> Flow \cup {None_}] /\ flow \in [Flow -> OAuthState \cup {Absent}]
    /\ exchange \in [Visitor -> Flow \cup {None_}]

FrontInit ==
    /\ fnow = 0 /\ form = [b \in Visitor |-> Absent] /\ session = form
    /\ nonce = [b \in Visitor |-> None_] /\ exchange = nonce
    /\ flow = [f \in Flow |-> Absent] /\ forged = FALSE

FrontTick ==
    /\ fnow < FrontClock /\ fnow' = fnow + 1
    /\ UNCHANGED <<form, session, nonce, flow, exchange, forged>>

-----------------------------------------------------------------------------
(* What is read back.                                                      *)

\* openSession, openOAuthState, validateCSRF: the app's key, and good to the second.
Opened(v, a) == v # Absent /\ v.key = a /\ fnow <= v.exp
ValidForm(b, a) == Opened(form[b], a)
SessionOf(b, a) == IF Opened(session[b], a) THEN session[b].user ELSE None_

\* MUTANT: the headers of the request are left in place where there is no session.
Identity_Unstripped(b, a, claim) ==
    IF a \in Passthrough THEN claim ELSE SessionOf(b, a)

\* proxyHandler: who the app is told the visitor is.  The identity headers that came with
\* the request are taken out; without a session the app does not see the request at all.
Identity(b, a, claim) == IF a \in Passthrough THEN None_ ELSE SessionOf(b, a)

\* MUTANT: an Origin of "null" is one of ours.
SameOrigin_NullIsOurs(origin, referer) ==
    IF origin \in {"ours", "theirs"} THEN origin = "ours" ELSE origin = "null" \/ referer = "ours"

\* validateSameOrigin, by the host the browser saw: the Origin decides unless it is
\* absent or "null", then the Referer; without both the request is refused.
SameOrigin(origin, referer) ==
    IF origin \in {"ours", "theirs"} THEN origin = "ours" ELSE referer = "ours"

\* A form that a page of some site posts, with the headers a browser may put on it.
Accepted(site) ==
    \E origin \in {site, "null", "none"}, referer \in {site, "none"} : SameOrigin(origin, referer)

-----------------------------------------------------------------------------
(* The handlers.                                                           *)

\* getLogin, getSignup: a form, unless the visitor is signed in.
GetLogin(b, a) ==
    /\ a \notin Passthrough /\ SessionOf(b, a) = None_
    /\ form' = [form EXCEPT ![b] = [key |-> a, exp |-> fnow + FormAge]]
    /\ UNCHANGED <<fnow, session, nonce, flow, exchange, forged>>

SetSession(b, a, u, by) ==
    session' = [session EXCEPT ![b] = [key |-> a, user |-> u, exp |-> fnow + SessionAge, by |-> by]]

\* postLogin, postSignup with an outcome of AuthAccounts: a session, or the form again
\* with a fresh token.  A form of another site has a token of its own visit.
PostLogin(b, a, u, site) ==
    /\ a \notin Passthrough /\ Accepted(site)
    /\ \/ /\ site = "ours" => ValidForm(b, a)
          /\ SetSession(b, a, u, b) /\ UNCHANGED form
          /\ forged' = (forged \/ site = "theirs")
       \/ /\ form' = [form EXCEPT ![b] = [key |-> a, exp |-> fnow + FormAge]]
          /\ UNCHANGED <<session, forged>>
    /\ UNCHANGED <<fnow, nonce, flow, exchange>>

\* postLogout: from our pages only; an old token does not keep anyone signed in.
PostLogout(b, a, site) ==
    /\ a \notin Passthrough /\ Accepted(site) /\ session[b] # Absent
    /\ session' = [session EXCEPT ![b] = Absent]
    /\ forged' = (forged \/ site = "theirs")
    /\ UNCHANGED <<fnow, form, nonce, flow, exchange>>

\* start: the nonce in a cookie, the state in the provider's URL.
Start(b, a, f) ==
    /\ a \notin Passthrough /\ flow[f] = Absent
    /\ flow' = [flow EXCEPT ![f] = [key |-> a, exp |-> fnow + StateAge, by |-> b, user |-> None_]]
    /\ nonce' = [nonce EXCEPT ![b] = f]
    /\ UNCHANGED <<fnow, form, session, exchange, forged>>

\* At the provider, in the browser that was sent there.
Approve(f, u) ==
    /\ flow[f] # Absent /\ flow[f].user = None_
    /\ flow' = [flow EXCEPT ![f].user = u]
    /\ UNCHANGED <<fnow, form, session, nonce, exchange, forged>>

\* MUTANT: the nonce is not compared with the cookie.
Callback_NoNonce(b, a, f) ==
    /\ exchange[b] = None_ /\ flow[f] # Absent /\ flow[f].user # None_
    /\ Opened(flow[f], a)
    /\ exchange' = [exchange EXCEPT ![b] = f]
    /\ UNCHANGED <<fnow, form, session, nonce, flow, forged>>

\* callback, in any browser that follows the redirect: the app's own state, the cookie's
\* nonce, not expired.
Callback(b, a, f) ==
    /\ exchange[b] = None_ /\ flow[f] # Absent /\ flow[f].user # None_
    /\ Opened(flow[f], a) /\ nonce[b] = f
    /\ exchange' = [exchange EXCEPT ![b] = f]
    /\ UNCHANGED <<fnow, form, session, nonce, flow, forged>>

\* exchangeCode and fetchUserInfo fail, or the session is set and the state cookie
\* cleared, whichever flow it is of by now.
CallbackEnds(b) ==
    /\ exchange[b] # None_ /\ exchange' = [exchange EXCEPT ![b] = None_]
    /\ \/ UNCHANGED <<session, nonce>>
       \/ LET st == flow[exchange[b]] IN SetSession(b, st.key, st.user, st.by)
          /\ nonce' = [nonce EXCEPT ![b] = None_]
    /\ UNCHANGED <<fnow, form, flow, forged>>

FrontNext ==
    \/ FrontTick
    \/ \E b \in Visitor, a \in App :
          \/ GetLogin(b, a)
          \/ \E site \in {"ours", "theirs"} :
                \/ \E u \in User : PostLogin(b, a, u, site)
                \/ PostLogout(b, a, site)
          \/ \E f \in Flow : Start(b, a, f) \/ Callback(b, a, f)
    \/ \E f \in Flow, u \in User : Approve(f, u)
    \/ \E b \in Visitor : CallbackEnds(b)

FrontSpec == FrontInit /\ [][FrontNext]_frontVars

-----------------------------------------------------------------------------
(* Properties.                                                             *)

\* Whatever a request claims, an app is only told of a user who has signed in to that
\* app, in that browser, less than a session's age ago (proxy.go:18, config.go:155,
\* oauth.go:34).
IdentityProven ==
    \A b \in Visitor, a \in App, claim \in User \cup {None_} :
        Identity(b, a, claim) # None_ =>
            /\ session[b] # Absent /\ session[b].key = a
            /\ Identity(b, a, claim) = session[b].user
            /\ session[b].by = b /\ fnow <= session[b].exp

\* No page of another site signs a visitor in or out (same_origin.go:405).
OnlyOurForms == ~forged

FrontSound == IdentityProven /\ OnlyOurForms

\* The newest flow a browser has started can still be finished: a callback that ends
\* meanwhile clears its cookie too (oauth.go:224).
NewestFlowLives ==
    [][\A b \in Visitor : nonce[b] # None_ /\ nonce'[b] = None_ => exchange[b] = nonce[b]]_frontVars
=============================================================================
