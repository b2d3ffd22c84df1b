---------------------------- MODULE AuthAccounts ----------------------------
(***************************************************************************)
(* The accounts of a deployed app: the auth proxy's request handlers       *)
(* (cmd/authproxy/handlers.go, handlers_reset.go, oauth.go) over the user  *)
(* and email-token tables of its store (store.go, store_security.go and    *)
(* their mongo twins).                                                     *)
(*                                                                         *)
(* A handler is a goroutine that makes several database calls and holds no *)
(* lock or transaction across them, so each CALL is one action here and    *)
(* the rows a request has read are kept in its job: they may be stale when *)
(* it writes.  Any call may report an error (a timeout, a lost connection) *)
(* and a write that did may or may not have been committed; what the       *)
(* handler does then is part of the action.  A row is never deleted and    *)
(* its email never changes, so an account is named by its email.           *)
(***************************************************************************)
EXTENDS Integers, FiniteSets

CONSTANTS Email, Password, Subject,    \* Subject: (provider, provider_id)
          Proc,                        \* request goroutines
          MaxToken,                    \* bound: links minted
          MaxTime,                     \* bound: the clock's horizon
          MaxRequests,                 \* bound: requests that get past a refusal
          lockoutThreshold, lockoutBaseDelay, lockoutMaxDelay,
          resetTokenTTL, verifyTokenTTL,
          Backends,                    \* databases the binding may offer
          RequireVerification,         \* the operator's opt-in
          NoUser, NoPassword, NoSubject, NoRow

ASSUME AuthBounds ==
    /\ MaxToken \in Nat /\ MaxTime \in Nat /\ MaxRequests \in Nat
    /\ lockoutThreshold \in Nat \ {0}
    /\ lockoutBaseDelay \in Nat \ {0} /\ lockoutMaxDelay \in Nat \ {0}
    /\ resetTokenTTL \in Nat \ {0} /\ verifyTokenTTL \in Nat \ {0}
    /\ Backends \subseteq {"sql", "mongo"}
    /\ RequireVerification \in BOOLEAN
VARIABLES backend,   \* which store the binding opened
          now,       \* the clock
          users,     \* agentry_users: email -> row
          tokens,    \* agentry_email_tokens: token -> row
          issued,    \* history: what each token was minted for
          mailed,    \* tokens whose link reached an inbox
          applied,   \* history: how often each token took effect
          served,    \* requests so far (MaxRequests bounds it)
          req        \* what each request goroutine is doing

vars == <<backend, now, users, tokens, issued, mailed, applied, served, req>>

TokenId == 1..MaxToken
purpose == {"reset", "verify"}

UserRow ==
    [pw : Password \cup {NoPassword}, subject : Subject \cup {NoSubject},
     verified : BOOLEAN, failed : Nat, locked : Nat]
TokenRow == [owner : Email, purpose : purpose, exp : Nat, used : BOOLEAN]

ASSUME AuthModelValues ==
    /\ NoPassword \notin Password /\ NoSubject \notin Subject
    /\ NoUser \notin UserRow
    /\ NoRow \notin TokenRow /\ NoRow \notin [owner : Email, purpose : purpose]

\* locked = 0 is locked_until NULL.
Fresh(pw, s) == [pw |-> pw, subject |-> s, verified |-> FALSE,
                 failed |-> 0, locked |-> 0]

Idle == [pc |-> "idle"]
Jobs ==
    [pc : {"idle"}]
    \cup [pc : {"taken"}, email : Email]
    \cup [pc : {"fail"}, email : Email, attempts : Nat]
    \cup [pc : {"success"}, email : Email]
    \cup [pc : {"delete", "insert"}, email : Email, purpose : purpose]
    \cup [pc : {"owner"}, token : TokenId, purpose : purpose,
          pw : Password \cup {NoPassword}]
    \cup [pc : {"apply"}, token : TokenId, email : Email, purpose : purpose,
          pw : Password \cup {NoPassword}]
    \cup [pc : {"byEmail", "attach", "create"}, email : Email, subject : Subject]

TypeOK ==
    /\ backend \in Backends
    /\ now \in 0..MaxTime
    /\ users \in [Email -> UserRow \cup {NoUser}]
    /\ tokens \in [TokenId -> TokenRow \cup {NoRow}]
    /\ issued \in [TokenId -> [owner : Email, purpose : purpose] \cup {NoRow}]
    /\ mailed \subseteq TokenId
    /\ applied \in [TokenId -> Nat]
    /\ served \in 0..MaxRequests
    /\ req \in [Proc -> Jobs]

Init ==
    /\ backend \in Backends
    /\ now = 0
    /\ users = [e \in Email |-> NoUser]
    /\ tokens = [t \in TokenId |-> NoRow]
    /\ issued = [t \in TokenId |-> NoRow]
    /\ mailed = {}
    /\ applied = [t \in TokenId |-> 0]
    /\ served = 0
    /\ req = [p \in Proc |-> Idle]

\* A request that is refused, or whose first read fails, changes nothing and
\* is left out; every other one begins here.
Begin(p, job) ==
    /\ req[p] = Idle /\ served < MaxRequests
    /\ served' = served + 1
    /\ req' = [req EXCEPT ![p] = job]
Step(p, job) == req' = [req EXCEPT ![p] = job] /\ UNCHANGED served
Answer(p) == Step(p, Idle)
Tables == <<tokens, issued, mailed, applied>>
Clock == <<backend, now>>
-----------------------------------------------------------------------------
(* The lockout policy. *)

lockDelay[over \in Nat] ==
    IF over = 0 THEN lockoutBaseDelay
    ELSE IF 2 * lockDelay[over - 1] >= lockoutMaxDelay THEN lockoutMaxDelay
         ELSE 2 * lockDelay[over - 1]

\* MUTANT: the delay is taken off the clock.
lockoutUntil_Past(t, attempts) ==
    IF attempts < lockoutThreshold THEN 0
    ELSE t - 2 * lockDelay[attempts - lockoutThreshold]

lockoutUntil(t, attempts) ==
    IF attempts < lockoutThreshold THEN 0
    ELSE LET d == lockDelay[attempts - lockoutThreshold] IN
         t + (IF d \in 1..lockoutMaxDelay THEN d ELSE lockoutMaxDelay)

isLocked(row) == row.locked > now
-----------------------------------------------------------------------------
(* Signing in with a password. *)

\* MUTANT: the verification gate is skipped.
postLogin_NoGate(p, e, pw) ==
    /\ users[e] # NoUser
    /\ ~isLocked(users[e]) /\ users[e].pw # NoPassword
    /\ \/ /\ users[e].pw # pw
          /\ Begin(p, [pc |-> "fail", email |-> e, attempts |-> users[e].failed + 1])
       \/ /\ users[e].pw = pw
          /\ Begin(p, [pc |-> "success", email |-> e])
    /\ UNCHANGED <<Clock, users, Tables>>

\* The request reads the row, and decides everything from what it read: no such
\* account, a locked one and one without a password are refused.
postLogin(p, e, pw) ==
    /\ users[e] # NoUser
    /\ ~isLocked(users[e]) /\ users[e].pw # NoPassword
    /\ \/ /\ users[e].pw # pw
          /\ Begin(p, [pc |-> "fail", email |-> e, attempts |-> users[e].failed + 1])
       \/ /\ users[e].pw = pw /\ RequireVerification /\ ~users[e].verified
          /\ Begin(p, [pc |-> "delete", email |-> e, purpose |-> "verify"])
       \/ /\ users[e].pw = pw /\ ~(RequireVerification /\ ~users[e].verified)
          /\ Begin(p, [pc |-> "success", email |-> e])
    /\ UNCHANGED <<Clock, users, Tables>>

\* Best effort: when the UPDATE fails, the failure goes uncounted.
recordLoginFailure(p) ==
    /\ req[p].pc = "fail"
    /\ LET e == req[p].email  n == req[p].attempts IN
       \/ users' = [users EXCEPT ![e].failed = n,
                                 ![e].locked = lockoutUntil(now, n)]
       \/ UNCHANGED users
    /\ Answer(p)
    /\ UNCHANGED <<Clock, Tables>>

\* The result of ResetLoginAttempts is ignored; the cookie is set either way.
loginSuccess(p) ==
    /\ req[p].pc = "success"
    /\ \/ users' = [users EXCEPT ![req[p].email].failed = 0,
                                 ![req[p].email].locked = 0]
       \/ UNCHANGED users
    /\ Answer(p)
    /\ UNCHANGED <<Clock, Tables>>

\* A unique index refuses the INSERT.  Mongo's second one is on (provider,
\* provider_id), and every password account stores ("password", "").
duplicate(e, s) ==
    \/ users[e] # NoUser
    \/ /\ backend = "mongo"
       /\ \E f \in Email : users[f] # NoUser /\ users[f].subject = s

postSignup(p, e, pw) ==
    /\ \/ /\ duplicate(e, NoSubject)
          /\ Begin(p, [pc |-> "taken", email |-> e])
          /\ UNCHANGED users
       \/ /\ ~duplicate(e, NoSubject)
          /\ users' = [users EXCEPT ![e] = Fresh(pw, NoSubject)]
          /\ \/ Begin(p, Idle)           \* signed in, or the reply was lost
             \/ /\ RequireVerification
                /\ Begin(p, [pc |-> "delete", email |-> e, purpose |-> "verify"])
    /\ UNCHANGED <<Clock, Tables>>

\* "An account with that email already exists."
signupError(p) ==
    /\ req[p].pc = "taken"
    /\ Answer(p)
    /\ UNCHANGED <<Clock, users, Tables>>
-----------------------------------------------------------------------------
(* Emailed links. *)

\* The answer is the same whether or not the address has an account.
postForgot(p, e) ==
    /\ users[e] # NoUser
    /\ Begin(p, [pc |-> "delete", email |-> e, purpose |-> "reset"])
    /\ UNCHANGED <<Clock, users, Tables>>

sameLink(t, e, u) ==
    tokens[t] # NoRow /\ tokens[t].owner = e /\ tokens[t].purpose = u

\* CreateEmailToken first drops the account's links of this purpose; an error
\* is ignored.
dropOldLinks(p) ==
    /\ req[p].pc = "delete"
    /\ \/ tokens' = [t \in TokenId |->
            IF sameLink(t, req[p].email, req[p].purpose) THEN NoRow ELSE tokens[t]]
       \/ UNCHANGED tokens
    /\ Step(p, [req[p] EXCEPT !.pc = "insert"])
    /\ UNCHANGED <<Clock, users, issued, mailed, applied>>

\* ... then inserts the new one; the mail that carries it may be lost.
CreateEmailToken(p) ==
    /\ req[p].pc = "insert"
    /\ LET e == req[p].email  u == req[p].purpose
           ttl == IF u = "reset" THEN resetTokenTTL ELSE verifyTokenTTL IN
       \/ UNCHANGED <<tokens, issued, mailed>>
       \/ \E t \in TokenId :
            /\ issued[t] = NoRow /\ \A r \in 1..(t - 1) : issued[r] # NoRow
            /\ tokens' = [tokens EXCEPT ![t] = [owner |-> e, purpose |-> u,
                                                exp |-> now + ttl, used |-> FALSE]]
            /\ issued' = [issued EXCEPT ![t] = [owner |-> e, purpose |-> u]]
            /\ mailed' \in {mailed, mailed \cup {t}}
    /\ Answer(p)
    /\ UNCHANGED <<Clock, users, applied>>

\* MUTANT: the UPDATE forgets used_at IS NULL.
consumable_Reusable(t, u) ==
    tokens[t] # NoRow /\ tokens[t].purpose = u /\ tokens[t].exp > now

consumable(t, u) ==
    /\ tokens[t] # NoRow
    /\ tokens[t].purpose = u /\ ~tokens[t].used /\ tokens[t].exp > now

\* ConsumeEmailToken: one conditional UPDATE burns the token.  SQL learns whose
\* it was with a second statement, mongo from the same one.
ConsumeEmailToken(p, t, u, pw) ==
    /\ consumable(t, u)
    /\ tokens' = [tokens EXCEPT ![t].used = TRUE]
    /\ \/ Begin(p, Idle)                 \* the reply was lost
       \/ /\ backend = "sql"
          /\ Begin(p, [pc |-> "owner", token |-> t, purpose |-> u, pw |-> pw])
       \/ /\ backend = "mongo"
          /\ Begin(p, [pc |-> "apply", token |-> t, email |-> tokens[t].owner,
                       purpose |-> u, pw |-> pw])
    /\ UNCHANGED <<Clock, users, issued, mailed, applied>>

\* A link the user follows; the raw token is known from the mail only.
postReset(p, t, pw) == t \in mailed /\ ConsumeEmailToken(p, t, "reset", pw)
getVerify(p, t) == t \in mailed /\ ConsumeEmailToken(p, t, "verify", NoPassword)

\* The row may have gone since the UPDATE: the request ends in an error.
tokenOwner(p) ==
    /\ req[p].pc = "owner"
    /\ LET t == req[p].token IN
       \/ Answer(p)
       \/ /\ tokens[t] # NoRow
          /\ Step(p, [pc |-> "apply", token |-> t, email |-> tokens[t].owner,
                      purpose |-> req[p].purpose, pw |-> req[p].pw])
    /\ UNCHANGED <<Clock, users, Tables>>

\* MUTANT: the deadline survives a password change.
UpdatePassword_StaysLocked(row, pw) == [row EXCEPT !.pw = pw, !.failed = 0]

UpdatePassword(row, pw) == [row EXCEPT !.pw = pw, !.failed = 0, !.locked = 0]
MarkEmailVerified(row) == [row EXCEPT !.verified = TRUE]

\* When the write fails the token is burned and nothing was changed.
applyToken(p) ==
    /\ req[p].pc = "apply"
    /\ LET e == req[p].email  t == req[p].token IN
       \/ UNCHANGED <<users, applied>>
       \/ /\ users[e] # NoUser
          /\ users' = [users EXCEPT ![e] =
                IF req[p].purpose = "reset" THEN UpdatePassword(@, req[p].pw)
                ELSE MarkEmailVerified(@)]
          /\ applied' = [applied EXCEPT ![t] = @ + 1]
    /\ Answer(p)
    /\ UNCHANGED <<Clock, tokens, issued, mailed>>
-----------------------------------------------------------------------------
(* Signing in with an OAuth provider: UpsertUserFromOAuth. *)

\* The provider vouches for (subject, email); state, nonce and code exchange
\* errors end the request before the store is touched, and a subject that has
\* an account is signed in without a write.
callback(p, s, e) ==
    /\ ~\E f \in Email : users[f] # NoUser /\ users[f].subject = s
    /\ Begin(p, [pc |-> "byEmail", email |-> e, subject |-> s])
    /\ UNCHANGED <<Clock, users, Tables>>

upsertByEmail(p) ==
    /\ req[p].pc = "byEmail"
    /\ \/ Answer(p)
       \/ users[req[p].email] # NoUser /\ Step(p, [req[p] EXCEPT !.pc = "attach"])
       \/ users[req[p].email] = NoUser /\ Step(p, [req[p] EXCEPT !.pc = "create"])
    /\ UNCHANGED <<Clock, users, Tables>>

subjectClash(e, s) ==
    /\ backend = "mongo"
    /\ \E f \in Email \ {e} : users[f] # NoUser /\ users[f].subject = s

\* MUTANT: linking an identity drops the password, as a created row has none.
upsertAttach_DropPassword(p) ==
    /\ req[p].pc = "attach"
    /\ users' = [users EXCEPT ![req[p].email].subject = req[p].subject,
                              ![req[p].email].pw = NoPassword]
    /\ Answer(p)
    /\ UNCHANGED <<Clock, Tables>>

upsertAttach(p) ==
    /\ req[p].pc = "attach"
    /\ LET e == req[p].email  s == req[p].subject IN
       \/ Answer(p) /\ UNCHANGED users
       \/ /\ ~subjectClash(e, s)
          /\ users' = [users EXCEPT ![e].subject = s]
          /\ Answer(p)
    /\ UNCHANGED <<Clock, Tables>>

upsertCreate(p) ==
    /\ req[p].pc = "create"
    /\ LET e == req[p].email  s == req[p].subject IN
       \/ Answer(p) /\ UNCHANGED users
       \/ /\ ~duplicate(e, s)
          /\ users' = [users EXCEPT ![e] = Fresh(NoPassword, s)]
          /\ Answer(p)
    /\ UNCHANGED <<Clock, Tables>>
-----------------------------------------------------------------------------
\* Mongo's TTL monitor removes expired tokens, some time after they expire.
expireTokens ==
    /\ backend = "mongo"
    /\ \E t \in TokenId :
         /\ tokens[t] # NoRow /\ tokens[t].exp <= now
         /\ tokens' = [tokens EXCEPT ![t] = NoRow]
    /\ UNCHANGED <<Clock, users, issued, mailed, applied, served, req>>

Tick == now < MaxTime /\ now' = now + 1
        /\ UNCHANGED <<backend, users, Tables, served, req>>

Next ==
    \/ \E p \in Proc :
         \/ \E e \in Email, pw \in Password : postLogin(p, e, pw) \/ postSignup(p, e, pw)
         \/ \E e \in Email : postForgot(p, e)
         \/ \E t \in TokenId, pw \in Password : postReset(p, t, pw)
         \/ \E t \in TokenId : getVerify(p, t)
         \/ \E s \in Subject, e \in Email : callback(p, s, e)
         \/ recordLoginFailure(p) \/ loginSuccess(p) \/ signupError(p)
         \/ dropOldLinks(p) \/ CreateEmailToken(p) \/ tokenOwner(p) \/ applyToken(p)
         \/ upsertByEmail(p) \/ upsertAttach(p) \/ upsertCreate(p)
    \/ expireTokens \/ Tick

Spec == Init /\ [][Next]_vars
-----------------------------------------------------------------------------
(* What the handlers and the two stores promise. *)

\* A link works once (store_security.go:88-92): however many requests follow
\* it at the same time, and however their two statements interleave with a
\* newer link's DELETE, it takes effect at most once, and never for an account
\* or a purpose other than those it was minted for.
TokenOnce ==
    /\ \A t \in TokenId : applied[t] <= 1
    /\ \A p \in Proc : req[p].pc = "apply" =>
         issued[req[p].token] = [owner |-> req[p].email, purpose |-> req[p].purpose]

\* A verified mark is never there without a click on a verification link that
\* was mailed to that address, and in verification-required mode no password
\* sign-in reaches its session without one (handlers.go:201-208), whatever
\* became of the row since the request read it.
Clicked(e) == \E t \in mailed :
                 issued[t] = [owner |-> e, purpose |-> "verify"] /\ applied[t] > 0
VerifiedGate ==
    /\ \A e \in Email : users[e] # NoUser /\ users[e].verified => Clicked(e)
    /\ \A p \in Proc : RequireVerification /\ req[p].pc = "success" =>
         Clicked(req[p].email)

\* The counter and the deadline, which four statements write
\* (store_security.go:18-71), never disagree: an account has a deadline exactly
\* when it has reached the threshold, and no deadline is further off than the
\* policy's cap (lockout.go:21-38).
LockConsistent ==
    \A e \in Email : users[e] # NoUser =>
        /\ (users[e].locked # 0) <=> (users[e].failed >= lockoutThreshold)
        /\ users[e].locked <= now + lockoutMaxDelay

\* What TokenOnce and VerifiedGate rest on: a burned token is in the hands of at
\* most one request until it has taken effect, a row agrees with what its token
\* was minted for, and the accounts that jobs name exist.
Holds(p, t) == req[p].pc \in {"owner", "apply"} /\ req[p].token = t
Burned(t) == tokens[t] # NoRow => tokens[t].used
TokenInv ==
    /\ \A t \in TokenId : tokens[t] # NoRow =>
         issued[t] = [owner |-> tokens[t].owner, purpose |-> tokens[t].purpose]
    /\ \A t \in TokenId : applied[t] > 0 => issued[t] # NoRow /\ Burned(t)
    /\ \A p \in Proc, t \in TokenId : Holds(p, t) =>
         /\ issued[t] # NoRow /\ Burned(t) /\ applied[t] = 0
         /\ t \in mailed /\ issued[t].purpose = req[p].purpose
    /\ \A p, q \in Proc, t \in TokenId : Holds(p, t) /\ Holds(q, t) => p = q
JobInv ==
    \A p \in Proc :
        /\ req[p].pc \in {"fail", "success", "attach"} => users[req[p].email] # NoUser
        /\ RequireVerification /\ req[p].pc = "success" => users[req[p].email].verified
IInv == TypeOK /\ TokenInv /\ JobInv /\ TokenOnce /\ VerifiedGate /\ LockConsistent

\* An account's password is only ever replaced through a reset link minted for
\* that very account: not by linking an OAuth identity, a late failure or a
\* second sign-up (handlers_reset.go:118-135, store.go:394-410).
PasswordProvenance ==
    [][\A e \in Email :
         users[e] # NoUser /\ users'[e].pw # users[e].pw =>
           \E t \in TokenId : /\ issued[t] = [owner |-> e, purpose |-> "reset"]
                              /\ applied'[t] = applied[t] + 1]_vars

\* A sign-up is refused as taken only when the address has an account
\* (store_mongo.go:122-124: password accounts must not collide on the empty
\* provider id).
TakenIsTaken ==
    \A p \in Proc : req[p].pc = "taken" => users[req[p].email] # NoUser

\* A sign-in or a password reset clears the counter (lockout.go:10-11): each
\* failure adds one to what the account has, so an account that recovered is
\* not locked again by failures from before.
FailuresAddOne ==
    [][\A e \in Email : users[e] # NoUser =>
         users'[e].failed <= users[e].failed + 1]_vars
=============================================================================
