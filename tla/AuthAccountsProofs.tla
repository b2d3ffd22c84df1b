-------------------------- MODULE AuthAccountsProofs --------------------------
(***************************************************************************)
(* Accounts and emailed links for any number of accounts, requests, tokens *)
(* and lockout parameters.                                                 *)
(***************************************************************************)
EXTENDS MCAuthAccounts, WellFoundedInduction, FiniteSetTheorems, TLAPS

\* The policy: a deadline exactly from the threshold on, never beyond the cap.
LEMMA LockoutBounds ==
    ASSUME NEW t \in Nat, NEW n \in Nat
    PROVE  /\ lockoutUntil(t, n) \in Nat
           /\ (lockoutUntil(t, n) # 0) <=> (n >= lockoutThreshold)
           /\ lockoutUntil(t, n) <= t + lockoutMaxDelay
<1> DEFINE d == lockDelay[n - lockoutThreshold]
           c == IF d \in 1..lockoutMaxDelay THEN d ELSE lockoutMaxDelay
<1>1. c \in 1..lockoutMaxDelay
  BY AuthBounds
<1>2. lockoutUntil(t, n) = IF n < lockoutThreshold THEN 0 ELSE t + c
  BY DEF lockoutUntil
<1> HIDE DEF c
<1> QED BY <1>1, <1>2, AuthBounds

\* The fields a job of each kind has.
LEMMA JobFields ==
    ASSUME NEW j \in Jobs
    PROVE  /\ j.pc \in {"idle", "taken", "fail", "success", "delete", "insert",
                        "owner", "apply", "byEmail", "attach", "create"}
           /\ j.pc \in {"taken", "fail", "success", "delete", "insert", "apply",
                        "byEmail", "attach", "create"} => j.email \in Email
           /\ j.pc = "fail" => j.attempts \in Nat
           /\ j.pc \in {"delete", "insert", "owner", "apply"} => j.purpose \in purpose
           /\ j.pc \in {"owner", "apply"} =>
                j.token \in TokenId /\ j.pw \in Password \cup {NoPassword}
           /\ j.pc \in {"byEmail", "attach", "create"} => j.subject \in Subject
BY DEF Jobs

\* A deletion's job becomes an insertion's, and likewise for the upsert.
LEMMA JobMoves ==
    ASSUME NEW j \in Jobs
    PROVE  /\ j.pc = "delete" => [j EXCEPT !.pc = "insert"] \in Jobs
                                 /\ [j EXCEPT !.pc = "insert"].pc = "insert"
           /\ j.pc = "byEmail" => /\ [j EXCEPT !.pc = "attach"] \in Jobs
                                  /\ [j EXCEPT !.pc = "attach"].pc = "attach"
                                  /\ [j EXCEPT !.pc = "attach"].email = j.email
                                  /\ [j EXCEPT !.pc = "create"] \in Jobs
                                  /\ [j EXCEPT !.pc = "create"].pc = "create"
<1>1. ASSUME j.pc = "delete" PROVE j \in [pc : {"delete", "insert"}, email : Email, purpose : purpose]
  BY <1>1 DEF Jobs
<1>2. ASSUME j.pc = "byEmail"
      PROVE  j \in [pc : {"byEmail", "attach", "create"}, email : Email, subject : Subject]
  BY <1>2 DEF Jobs
<1>3. ASSUME j.pc = "delete" PROVE [j EXCEPT !.pc = "insert"] \in Jobs /\ [j EXCEPT !.pc = "insert"].pc = "insert"
  BY <1>1, <1>3 DEF Jobs
<1>4. ASSUME j.pc = "byEmail"
      PROVE  /\ [j EXCEPT !.pc = "attach"] \in Jobs
             /\ [j EXCEPT !.pc = "attach"].pc = "attach"
             /\ [j EXCEPT !.pc = "attach"].email = j.email
             /\ [j EXCEPT !.pc = "create"] \in Jobs
             /\ [j EXCEPT !.pc = "create"].pc = "create"
  BY <1>2, <1>4 DEF Jobs
<1> QED BY <1>3, <1>4

LEMMA InitOK == Init => IInv
<1> SUFFICES ASSUME Init PROVE IInv
  OBVIOUS
<1>1. Idle \in Jobs /\ Idle.pc = "idle"
  BY DEF Idle, Jobs
<1>2. TypeOK
  BY <1>1, AuthBounds DEF Init, TypeOK
<1>3. \A p \in Proc : req[p].pc = "idle"
  BY <1>1 DEF Init
<1> QED BY <1>2, <1>3
        DEF Init, IInv, TokenInv, JobInv, TokenOnce, VerifiedGate, LockConsistent, Holds

\* A step of one request that leaves the links alone: no mark is set or lost,
\* and what the new job relies on holds.
LEMMA AccountStep ==
    ASSUME IInv, NEW p \in Proc, NEW j \in Jobs,
           req' = [req EXCEPT ![p] = j], served' \in 0..MaxRequests,
           UNCHANGED <<Clock, Tables>>,
           users' \in [Email -> UserRow \cup {NoUser}],
           \A e \in Email : users[e] # NoUser => users'[e] # NoUser,
           \A e \in Email : users[e] # NoUser => users'[e].verified = users[e].verified,
           \A e \in Email : users[e] = NoUser /\ users'[e] # NoUser => ~users'[e].verified,
           LockConsistent',
           j.pc \in {"fail", "success", "attach"} => users[j.email] # NoUser,
           RequireVerification /\ j.pc = "success" => users[j.email].verified,
           j.pc \in {"owner", "apply"} => Holds(p, j.token) /\ j.purpose = req[p].purpose,
           j.pc = "apply" => issued[j.token] = [owner |-> j.email, purpose |-> j.purpose]
    PROVE  IInv'
<1>1. \A q \in Proc : req'[q] = IF q = p THEN j ELSE req[q]
  BY DEF IInv, TypeOK
<1>2. \A q \in Proc : req[q] \in Jobs
  BY DEF IInv, TypeOK
<1>3. TypeOK'
  BY DEF IInv, TypeOK, Clock, Tables
<1>4. \A q \in Proc, t \in TokenId :
        Holds(q, t)' => Holds(q, t) /\ req'[q].purpose = req[q].purpose
  BY <1>1 DEF Holds
<1>5. TokenInv'
  BY <1>4 DEF IInv, TokenInv, Tables, Burned
<1>6. JobInv'
  <2> SUFFICES ASSUME NEW q \in Proc
               PROVE  /\ req'[q].pc \in {"fail", "success", "attach"} => users'[req'[q].email] # NoUser
                      /\ RequireVerification /\ req'[q].pc = "success" => users'[req'[q].email].verified
    BY DEF JobInv
  <2>1. req'[q].pc \in {"fail", "success", "attach"} => req'[q].email \in Email
    BY <1>1, <1>2, JobFields
  <2>2. req'[q].pc \in {"fail", "success", "attach"} => users[req'[q].email] # NoUser
    BY <1>1 DEF IInv, JobInv
  <2>3. RequireVerification /\ req'[q].pc = "success" => users[req'[q].email].verified
    BY <1>1 DEF IInv, JobInv
  <2> QED BY <2>1, <2>2, <2>3
<1>7. TokenOnce'
  BY <1>1 DEF IInv, TokenOnce, Tables
<1>9. \A e \in Email : users'[e] # NoUser /\ users'[e].verified => Clicked(e)
  BY DEF IInv, VerifiedGate
<1>10. \A q \in Proc : RequireVerification /\ req'[q].pc = "success" => Clicked(req'[q].email)
  <2> SUFFICES ASSUME NEW q \in Proc, RequireVerification, req'[q].pc = "success"
               PROVE  Clicked(req'[q].email)
    OBVIOUS
  <2>1. req'[q].email \in Email
    BY <1>1, <1>2, JobFields
  <2>2. users'[req'[q].email] # NoUser /\ users'[req'[q].email].verified
    BY <1>6 DEF JobInv
  <2> QED BY <2>1, <2>2, <1>9
<1>11. VerifiedGate'
  BY <1>9, <1>10 DEF VerifiedGate, Clicked, Tables
<1> QED BY <1>3, <1>5, <1>6, <1>7, <1>11 DEF IInv

\* A request that only reads moves on to a job whose account it has seen.
LEMMA ReadStep ==
    ASSUME IInv, NEW p \in Proc, NEW j \in Jobs,
           req' = [req EXCEPT ![p] = j], served' \in 0..MaxRequests,
           UNCHANGED <<Clock, users, Tables>>,
           j.pc \in {"fail", "success", "attach"} => users[j.email] # NoUser,
           RequireVerification /\ j.pc = "success" => users[j.email].verified,
           j.pc \in {"owner", "apply"} => Holds(p, j.token) /\ j.purpose = req[p].purpose,
           j.pc = "apply" => issued[j.token] = [owner |-> j.email, purpose |-> j.purpose]
    PROVE  IInv'
<1>1. LockConsistent'
  BY DEF IInv, LockConsistent, Clock
<1>2. users' \in [Email -> UserRow \cup {NoUser}]
  BY DEF IInv, TypeOK
<1> QED BY <1>1, <1>2, AccountStep

LEMMA BeginServed ==
    ASSUME IInv, NEW p \in Proc, NEW j, Begin(p, j) \/ Step(p, j)
    PROVE  served' \in 0..MaxRequests /\ req' = [req EXCEPT ![p] = j]
BY AuthBounds DEF IInv, TypeOK, Begin, Step

LEMMA IdleJob == Idle \in Jobs /\ Idle.pc = "idle"
BY DEF Idle, Jobs

LEMMA ReadSteps ==
    ASSUME IInv, NEW p \in Proc,
           \/ \E e \in Email, pw \in Password : postLogin(p, e, pw)
           \/ \E e \in Email : postForgot(p, e)
           \/ signupError(p)
           \/ \E s \in Subject, e \in Email : callback(p, s, e)
           \/ upsertByEmail(p)
           \/ tokenOwner(p)
    PROVE  IInv'
<1>0. req[p] \in Jobs
  BY DEF IInv, TypeOK
<1>1. ASSUME NEW e \in Email, NEW pw \in Password, postLogin(p, e, pw)
      PROVE  IInv'
  <2> DEFINE f == [pc |-> "fail", email |-> e, attempts |-> users[e].failed + 1]
             v == [pc |-> "delete", email |-> e, purpose |-> "verify"]
             k == [pc |-> "success", email |-> e]
  <2>1. users[e] \in UserRow
    BY <1>1 DEF postLogin, IInv, TypeOK
  <2>2. f \in Jobs /\ v \in Jobs /\ k \in Jobs
    BY <2>1 DEF Jobs, UserRow, purpose
  <2>3. CASE Begin(p, f)
    BY ZenonT(40), <1>1, <2>2, <2>3, BeginServed, ReadStep DEF postLogin
  <2>4. CASE Begin(p, v)
    BY <1>1, <2>2, <2>4, BeginServed, ReadStep DEF postLogin
  <2>5. CASE Begin(p, k) /\ ~(RequireVerification /\ ~users[e].verified)
    BY ZenonT(40), <1>1, <2>1, <2>2, <2>5, BeginServed, ReadStep DEF postLogin, UserRow
  <2> QED BY <1>1, <2>3, <2>4, <2>5 DEF postLogin
<1>2. ASSUME NEW e \in Email, postForgot(p, e)
      PROVE  IInv'
  <2> DEFINE v == [pc |-> "delete", email |-> e, purpose |-> "reset"]
  <2>1. v \in Jobs
    BY DEF Jobs, purpose
  <2> QED BY <1>2, <2>1, BeginServed, ReadStep DEF postForgot
<1>3. CASE signupError(p)
  BY <1>3, IdleJob, BeginServed, ReadStep DEF signupError, Answer
<1>4. ASSUME NEW s \in Subject, NEW e \in Email, callback(p, s, e)
      PROVE  IInv'
  <2> DEFINE v == [pc |-> "byEmail", email |-> e, subject |-> s]
  <2>1. v \in Jobs
    BY DEF Jobs
  <2> QED BY ZenonT(40), <1>4, <2>1, BeginServed, ReadStep DEF callback
<1>5. CASE upsertByEmail(p)
  <2>1. CASE Answer(p)
    BY <1>5, <2>1, IdleJob, BeginServed, ReadStep DEF upsertByEmail, Answer
  <2> DEFINE a == [req[p] EXCEPT !.pc = "attach"]
             c == [req[p] EXCEPT !.pc = "create"]
  <2>2. /\ a \in Jobs /\ a.pc = "attach" /\ a.email = req[p].email
        /\ c \in Jobs /\ c.pc = "create"
    BY <1>0, <1>5, JobMoves DEF upsertByEmail
  <2> HIDE DEF a, c
  <2>3. CASE users[req[p].email] # NoUser /\ Step(p, a)
    BY <1>5, <2>2, <2>3, BeginServed, ReadStep DEF upsertByEmail
  <2>4. CASE Step(p, c)
    BY <1>5, <2>2, <2>4, BeginServed, ReadStep DEF upsertByEmail
  <2> QED BY <1>5, <2>1, <2>3, <2>4 DEF upsertByEmail, a, c
<1>6. CASE tokenOwner(p)
  <2>1. CASE Answer(p)
    BY <1>6, <2>1, IdleJob, BeginServed, ReadStep DEF tokenOwner, Answer
  <2> DEFINE t == req[p].token
             j == [pc |-> "apply", token |-> t, email |-> tokens[t].owner,
                   purpose |-> req[p].purpose, pw |-> req[p].pw]
  <2>2. CASE tokens[t] # NoRow /\ Step(p, j)
    <3>1. /\ t \in TokenId /\ req[p].pw \in Password \cup {NoPassword}
          /\ req[p].purpose \in purpose
      BY <1>0, <1>6, JobFields DEF tokenOwner
    <3>2. tokens[t] \in TokenRow
      BY <2>2, <3>1 DEF IInv, TypeOK
    <3>3. j \in Jobs
      BY <3>1, <3>2 DEF Jobs, TokenRow
    <3>4. Holds(p, t)
      BY <1>6 DEF Holds, tokenOwner
    <3>5. issued[t] = [owner |-> tokens[t].owner, purpose |-> tokens[t].purpose]
          /\ issued[t].purpose = req[p].purpose
      BY <2>2, <3>1, <3>4 DEF IInv, TokenInv
    <3>6. issued[t] = [owner |-> j.email, purpose |-> j.purpose]
      BY <3>5
    <3> QED BY <1>6, <2>2, <3>3, <3>4, <3>6, BeginServed, ReadStep DEF tokenOwner
  <2> QED BY <1>6, <2>1, <2>2 DEF tokenOwner
<1> QED BY <1>1, <1>2, <1>3, <1>4, <1>5, <1>6

\* A request that writes one row of an existing account, keeping its mark.
LEMMA RowStep ==
    ASSUME IInv, NEW p \in Proc, NEW e \in Email, NEW row \in UserRow,
           users' = [users EXCEPT ![e] = row], Answer(p),
           UNCHANGED <<Clock, Tables>>,
           users[e] # NoUser => row.verified = users[e].verified,
           users[e] = NoUser => ~row.verified,
           (row.locked # 0) <=> (row.failed >= lockoutThreshold),
           row.locked <= now + lockoutMaxDelay
    PROVE  IInv'
<1>1. row # NoUser
  BY AuthModelValues
<1>2. \A f \in Email : users'[f] = IF f = e THEN row ELSE users[f]
  BY DEF IInv, TypeOK
<1>3. users' \in [Email -> UserRow \cup {NoUser}]
  BY DEF IInv, TypeOK
<1>4. LockConsistent'
  BY <1>2 DEF IInv, LockConsistent, Clock
<1>5. /\ req' = [req EXCEPT ![p] = Idle] /\ served' \in 0..MaxRequests
  BY BeginServed DEF Answer
<1> QED BY <1>1, <1>2, <1>3, <1>4, <1>5, IdleJob, AccountStep

LEMMA FreshRow ==
    ASSUME NEW pw \in Password \cup {NoPassword}, NEW s \in Subject \cup {NoSubject}
    PROVE  /\ Fresh(pw, s) \in UserRow /\ ~Fresh(pw, s).verified
           /\ Fresh(pw, s).locked = 0 /\ Fresh(pw, s).failed = 0
BY DEF Fresh, UserRow

LEMMA WriteSteps ==
    ASSUME IInv, NEW p \in Proc,
           \/ recordLoginFailure(p) \/ loginSuccess(p)
           \/ upsertAttach(p) \/ upsertCreate(p)
           \/ \E e \in Email, pw \in Password : postSignup(p, e, pw)
    PROVE  IInv'
<1>0. req[p] \in Jobs /\ now \in Nat
  BY AuthBounds DEF IInv, TypeOK
<1>q. ASSUME Answer(p), UNCHANGED <<Clock, users, Tables>> PROVE IInv'
  BY <1>q, IdleJob, BeginServed, ReadStep DEF Answer
<1>1. CASE recordLoginFailure(p)
  <2> DEFINE e == req[p].email
             n == req[p].attempts
             row == [users[e] EXCEPT !.failed = n, !.locked = lockoutUntil(now, n)]
  <2>1. e \in Email /\ n \in Nat /\ users[e] # NoUser
    BY <1>0, <1>1, JobFields DEF recordLoginFailure, IInv, JobInv
  <2>2. users[e] \in UserRow
    BY <2>1 DEF IInv, TypeOK
  <2>3. lockoutUntil(now, n) \in Nat
    BY <1>0, <2>1, LockoutBounds
  <2>4. /\ row \in UserRow /\ row.verified = users[e].verified
        /\ row.failed = n /\ row.locked = lockoutUntil(now, n)
    BY <2>1, <2>2, <2>3 DEF UserRow
  <2> HIDE DEF row
  <2>5. CASE users' = [users EXCEPT ![e] = row]
    BY ZenonT(40), <1>0, <1>1, <2>1, <2>4, <2>5, LockoutBounds, RowStep DEF recordLoginFailure
  <2>6. [users EXCEPT ![e].failed = n, ![e].locked = lockoutUntil(now, n)] = [users EXCEPT ![e] = row]
    BY <2>1, <2>2 DEF row, IInv, TypeOK
  <2> QED BY <1>1, <1>q, <2>5, <2>6 DEF recordLoginFailure
<1>2. CASE loginSuccess(p)
  <2> DEFINE e == req[p].email
             row == [users[e] EXCEPT !.failed = 0, !.locked = 0]
  <2>1. e \in Email /\ users[e] # NoUser
    BY <1>0, <1>2, JobFields DEF loginSuccess, IInv, JobInv
  <2>2. users[e] \in UserRow
    BY <2>1 DEF IInv, TypeOK
  <2>3. /\ row \in UserRow /\ row.verified = users[e].verified
        /\ row.failed = 0 /\ row.locked = 0
    BY <2>1, <2>2 DEF UserRow
  <2> HIDE DEF row
  <2>4. CASE users' = [users EXCEPT ![e] = row]
    <3>1. ((row.locked # 0) <=> (row.failed >= lockoutThreshold))
          /\ row.locked <= now + lockoutMaxDelay
      BY <1>0, <2>3, AuthBounds
    <3> QED BY <1>2, <2>1, <2>3, <2>4, <3>1, RowStep DEF loginSuccess
  <2>5. [users EXCEPT ![e].failed = 0, ![e].locked = 0] = [users EXCEPT ![e] = row]
    BY <2>1, <2>2 DEF row, IInv, TypeOK
  <2> QED BY <1>2, <1>q, <2>4, <2>5 DEF loginSuccess
<1>3. CASE upsertAttach(p)
  <2> DEFINE e == req[p].email
             row == [users[e] EXCEPT !.subject = req[p].subject]
  <2>1. e \in Email /\ users[e] # NoUser /\ req[p].subject \in Subject
    BY <1>0, <1>3, JobFields DEF upsertAttach, IInv, JobInv
  <2>2. users[e] \in UserRow
    BY <2>1 DEF IInv, TypeOK
  <2>3. /\ row \in UserRow /\ row.verified = users[e].verified
        /\ row.failed = users[e].failed /\ row.locked = users[e].locked
    BY <2>1, <2>2 DEF UserRow
  <2>4. /\ (users[e].locked # 0) <=> (users[e].failed >= lockoutThreshold)
        /\ users[e].locked <= now + lockoutMaxDelay
    BY <2>1 DEF IInv, LockConsistent
  <2>5. [users EXCEPT ![e].subject = req[p].subject] = [users EXCEPT ![e] = row]
    BY <2>1, <2>2 DEF IInv, TypeOK
  <2> HIDE DEF row
  <2>6. CASE users' = [users EXCEPT ![e] = row] /\ Answer(p)
    BY <1>3, <2>1, <2>3, <2>4, <2>6, RowStep DEF upsertAttach
  <2> QED BY <1>3, <1>q, <2>5, <2>6 DEF upsertAttach
<1>4. CASE upsertCreate(p)
  <2> DEFINE e == req[p].email
             row == Fresh(NoPassword, req[p].subject)
  <2>1. e \in Email /\ req[p].subject \in Subject
    BY <1>0, <1>4, JobFields DEF upsertCreate
  <2>2. row \in UserRow /\ ~row.verified /\ row.failed = 0 /\ row.locked = 0
    BY <2>1, FreshRow
  <2> HIDE DEF row
  <2>3. CASE users' = [users EXCEPT ![e] = row] /\ Answer(p) /\ ~duplicate(e, req[p].subject)
    <3>1. users[e] = NoUser
      BY <2>3 DEF duplicate
    <3>2. ((row.locked # 0) <=> (row.failed >= lockoutThreshold))
          /\ row.locked <= now + lockoutMaxDelay
      BY <1>0, <2>2, AuthBounds
    <3> QED BY <1>4, <2>1, <2>2, <2>3, <3>1, <3>2, RowStep DEF upsertCreate
  <2> QED BY <1>4, <1>q, <2>3 DEF upsertCreate, row
<1>5. ASSUME NEW e \in Email, NEW pw \in Password, postSignup(p, e, pw)
      PROVE  IInv'
  <2> DEFINE row == Fresh(pw, NoSubject)
             k == [pc |-> "taken", email |-> e]
             v == [pc |-> "delete", email |-> e, purpose |-> "verify"]
  <2>1. k \in Jobs /\ v \in Jobs
    BY DEF Jobs, purpose
  <2>2. row \in UserRow /\ ~row.verified /\ row.failed = 0 /\ row.locked = 0
    BY FreshRow
  <2>3. CASE Begin(p, k) /\ UNCHANGED users
    BY <1>5, <2>1, <2>3, BeginServed, ReadStep DEF postSignup
  <2> HIDE DEF row
  <2>4. ASSUME NEW j \in Jobs, j.pc \in {"idle", "delete"}, Begin(p, j),
               users' = [users EXCEPT ![e] = row], ~duplicate(e, NoSubject)
        PROVE  IInv'
    <3>1. users[e] = NoUser /\ row # NoUser
      BY <2>2, <2>4, AuthModelValues DEF duplicate
    <3>2. \A f \in Email : users'[f] = IF f = e THEN row ELSE users[f]
      BY <2>4 DEF IInv, TypeOK
    <3>3. users' \in [Email -> UserRow \cup {NoUser}]
      BY <2>2, <2>4 DEF IInv, TypeOK
    <3>4. LockConsistent'
      BY <1>0, <1>5, <2>2, <3>2, AuthBounds DEF IInv, LockConsistent, postSignup, Clock
    <3>5. /\ req' = [req EXCEPT ![p] = j] /\ served' \in 0..MaxRequests
      BY <2>4, BeginServed
    <3> QED BY <1>5, <2>2, <2>4, <3>1, <3>2, <3>3, <3>4, <3>5, AccountStep DEF postSignup
  <2> QED BY <1>5, <2>1, <2>3, <2>4, IdleJob DEF postSignup, row
<1> QED BY <1>1, <1>2, <1>3, <1>4, <1>5

\* A step that removes, burns or adds links, or moves the clock, and leaves the
\* accounts alone.
LEMMA DropStep ==
    ASSUME IInv, req' \in [Proc -> Jobs],
           \A q \in Proc : req'[q] = req[q] \/ req'[q].pc \in {"idle", "insert"},
           served' \in 0..MaxRequests,
           UNCHANGED <<backend, users, issued, mailed, applied>>,
           now' \in 0..MaxTime, now' >= now,
           \A t \in TokenId : tokens'[t] \in {tokens[t], NoRow},
           tokens' \in [TokenId -> TokenRow \cup {NoRow}]
    PROVE  IInv'
<1>1. \A q \in Proc : req'[q] = req[q] \/ req'[q].pc \in {"idle", "insert"}
  OBVIOUS
<1>3. TypeOK'
  BY DEF IInv, TypeOK
<1>4. \A q \in Proc, t \in TokenId :
        Holds(q, t)' => Holds(q, t) /\ req'[q].purpose = req[q].purpose
  BY <1>1 DEF Holds
<1>5. TokenInv'
  BY <1>4 DEF IInv, TokenInv, Burned
<1>6. JobInv'
  BY <1>1 DEF IInv, JobInv
<1>7. TokenOnce'
  BY <1>1 DEF IInv, TokenOnce
<1>8. VerifiedGate'
  BY <1>1 DEF IInv, VerifiedGate, Clicked
<1>9. LockConsistent'
  <2> SUFFICES ASSUME NEW e \in Email, users[e] # NoUser
               PROVE  /\ (users[e].locked # 0) <=> (users[e].failed >= lockoutThreshold)
                      /\ users[e].locked <= now' + lockoutMaxDelay
    BY DEF LockConsistent
  <2>1. users[e].locked \in Nat /\ now \in Nat /\ now' \in Nat
    BY AuthBounds DEF IInv, TypeOK, UserRow
  <2>2. /\ (users[e].locked # 0) <=> (users[e].failed >= lockoutThreshold)
        /\ users[e].locked <= now + lockoutMaxDelay
    BY DEF IInv, LockConsistent
  <2> QED BY <2>1, <2>2, AuthBounds
<1> QED BY <1>3, <1>5, <1>6, <1>7, <1>8, <1>9 DEF IInv

LEMMA DropSteps ==
    ASSUME IInv, (\E p \in Proc : dropOldLinks(p)) \/ expireTokens \/ Tick
    PROVE  IInv'
<1>0. now \in Nat /\ MaxTime \in Nat
  BY AuthBounds DEF IInv, TypeOK
<1>1. ASSUME NEW p \in Proc, dropOldLinks(p) PROVE IInv'
  <2> DEFINE j == [req[p] EXCEPT !.pc = "insert"]
  <2>1. j \in Jobs /\ j.pc = "insert"
    BY <1>1, JobMoves DEF dropOldLinks, IInv, TypeOK
  <2> HIDE DEF j
  <2>2. req' = [req EXCEPT ![p] = j] /\ served' \in 0..MaxRequests
    BY <1>1, BeginServed DEF dropOldLinks, j
  <2>3. req' \in [Proc -> Jobs]
        /\ \A q \in Proc : req'[q] = req[q] \/ req'[q].pc \in {"idle", "insert"}
    BY <2>1, <2>2 DEF IInv, TypeOK
  <2>4. tokens' \in [TokenId -> TokenRow \cup {NoRow}]
        /\ \A t \in TokenId : tokens'[t] \in {tokens[t], NoRow}
    BY <1>1 DEF dropOldLinks, IInv, TypeOK
  <2> QED BY <1>0, <1>1, <2>2, <2>3, <2>4, DropStep DEF dropOldLinks, Clock, IInv, TypeOK
<1>2. CASE expireTokens
  <2>1. tokens' \in [TokenId -> TokenRow \cup {NoRow}]
        /\ \A t \in TokenId : tokens'[t] \in {tokens[t], NoRow}
    BY <1>2 DEF expireTokens, IInv, TypeOK
  <2> QED BY <1>0, <1>2, <2>1, DropStep DEF expireTokens, Clock, IInv, TypeOK
<1>3. CASE Tick
  <2>1. now' \in 0..MaxTime /\ now' >= now
    BY <1>0, <1>3 DEF Tick
  <2> QED BY <1>3, <2>1, DropStep DEF Tick, Tables, IInv, TypeOK
<1> QED BY <1>1, <1>2, <1>3

\* A fresh token is nobody's: the request inserts it and is done.
LEMMA CreateStep ==
    ASSUME IInv, NEW p \in Proc, CreateEmailToken(p)
    PROVE  IInv'
<1>0. req[p] \in Jobs /\ now \in Nat
  BY AuthBounds DEF IInv, TypeOK
<1>1. req' = [req EXCEPT ![p] = Idle] /\ served' \in 0..MaxRequests
  BY BeginServed DEF CreateEmailToken, Answer
<1>2. req' \in [Proc -> Jobs]
      /\ \A q \in Proc : req'[q] = req[q] \/ req'[q].pc = "idle"
  BY <1>1, IdleJob DEF IInv, TypeOK
<1>3. CASE UNCHANGED <<tokens, issued, mailed>>
  BY <1>0, <1>1, <1>2, <1>3, DropStep DEF CreateEmailToken, Clock, IInv, TypeOK
<1> DEFINE e == req[p].email
           u == req[p].purpose
           row(x) == [owner |-> e, purpose |-> u, exp |-> x, used |-> FALSE]
           ttl == IF u = "reset" THEN resetTokenTTL ELSE verifyTokenTTL
           use == [owner |-> e, purpose |-> u]
<1>4. ASSUME NEW t \in TokenId, NEW r \in TokenRow, r.owner = e, r.purpose = u,
             issued[t] = NoRow,
             tokens' = [tokens EXCEPT ![t] = r],
             issued' = [issued EXCEPT ![t] = use],
             mailed' \in {mailed, mailed \cup {t}}
      PROVE  IInv'
  <2>1. e \in Email /\ u \in purpose
    BY <1>0, JobFields DEF CreateEmailToken
  <2>2. use \in [owner : Email, purpose : purpose]
    BY <2>1
  <2>3. r # NoRow /\ use # NoRow /\ use = [owner |-> r.owner, purpose |-> r.purpose]
    BY <1>4, <2>2, AuthModelValues
  <2> HIDE DEF use
  <2>4. TypeOK'
    BY <1>1, <1>2, <1>4, <2>2 DEF IInv, TypeOK, CreateEmailToken, Clock
  <2>5. /\ \A s \in TokenId : tokens'[s] = IF s = t THEN r ELSE tokens[s]
        /\ \A s \in TokenId : issued'[s] = IF s = t THEN use ELSE issued[s]
    <3>1. tokens \in [TokenId -> TokenRow \cup {NoRow}]
          /\ issued \in [TokenId -> [owner : Email, purpose : purpose] \cup {NoRow}]
      BY DEF IInv, TypeOK
    <3> QED BY <1>4, <3>1
  <2>6. applied' = applied /\ users' = users /\ now' = now
    BY DEF CreateEmailToken, Clock
  <2>7. applied[t] = 0 /\ \A q \in Proc : ~Holds(q, t)
    BY <1>4 DEF IInv, TypeOK, TokenInv
  <2>8. \A q \in Proc, s \in TokenId :
          Holds(q, s)' => Holds(q, s) /\ req'[q].purpose = req[q].purpose /\ s # t
    BY <1>2, <2>7 DEF Holds
  <2>9. TokenInv'
    <3>1. \A s \in TokenId : tokens'[s] # NoRow =>
            issued'[s] = [owner |-> tokens'[s].owner, purpose |-> tokens'[s].purpose]
      BY <2>3, <2>5 DEF IInv, TokenInv
    <3>2. \A s \in TokenId : applied'[s] > 0 => issued'[s] # NoRow /\ Burned(s)'
      BY <2>5, <2>6, <2>7 DEF IInv, TokenInv, Burned
    <3>3. \A q \in Proc, s \in TokenId : Holds(q, s)' =>
            /\ issued'[s] # NoRow /\ Burned(s)' /\ applied'[s] = 0
            /\ s \in mailed' /\ issued'[s].purpose = req'[q].purpose
      BY <1>4, <2>5, <2>6, <2>8 DEF IInv, TokenInv, Burned
    <3> QED BY <2>8, <3>1, <3>2, <3>3 DEF IInv, TokenInv
  <2>10. JobInv'
    BY <1>2, <2>6 DEF IInv, JobInv
  <2>11. TokenOnce'
    <3>1. \A q \in Proc : req'[q].pc = "apply" =>
             req'[q] = req[q] /\ req[q].token \in TokenId /\ Holds(q, req[q].token)
      BY <1>2, JobFields DEF IInv, TypeOK, Holds
    <3> QED BY <2>5, <2>6, <2>7, <3>1 DEF IInv, TokenOnce
  <2>12. \A f \in Email : Clicked(f) => \E s \in mailed' :
            issued'[s] = [owner |-> f, purpose |-> "verify"] /\ applied'[s] > 0
    BY <1>4, <2>5, <2>6, <2>7 DEF Clicked, IInv, TypeOK
  <2>13. VerifiedGate'
    <3>1. \A q \in Proc : req'[q].pc = "success" => req'[q] = req[q] /\ req[q].email \in Email
      BY <1>2, JobFields DEF IInv, TypeOK
    <3> QED BY <2>6, <2>12, <3>1 DEF IInv, VerifiedGate, Clicked
  <2>14. LockConsistent'
    BY <2>6 DEF IInv, LockConsistent
  <2> QED BY <2>4, <2>9, <2>10, <2>11, <2>13, <2>14 DEF IInv
<1>5. row(now + ttl) \in TokenRow
  BY <1>0, AuthBounds, JobFields DEF CreateEmailToken, TokenRow
<1> QED BY <1>3, <1>4, <1>5 DEF CreateEmailToken

\* Burning an unused token: nobody held it, and only this request holds it now.
LEMMA ConsumeStep ==
    ASSUME IInv, NEW p \in Proc, NEW t \in mailed, NEW u \in purpose,
           NEW pw \in Password \cup {NoPassword}, ConsumeEmailToken(p, t, u, pw)
    PROVE  IInv'
<1> DEFINE row == [tokens[t] EXCEPT !.used = TRUE]
           o == [pc |-> "owner", token |-> t, purpose |-> u, pw |-> pw]
           a == [pc |-> "apply", token |-> t, email |-> tokens[t].owner,
                 purpose |-> u, pw |-> pw]
<1>0. /\ t \in TokenId /\ tokens[t] \in TokenRow /\ tokens[t].purpose = u
      /\ ~tokens[t].used /\ tokens[t] # NoRow
  BY DEF IInv, TypeOK, ConsumeEmailToken, consumable
<1>1. /\ row \in TokenRow /\ row # NoRow /\ row.used
      /\ row.owner = tokens[t].owner /\ row.purpose = tokens[t].purpose
  BY <1>0, AuthModelValues DEF TokenRow
<1>2. o \in Jobs /\ a \in Jobs
  BY <1>0 DEF Jobs, TokenRow
<1>3. tokens' = [tokens EXCEPT ![t] = row]
  BY <1>0 DEF ConsumeEmailToken, IInv, TypeOK
<1>4. PICK j \in Jobs : /\ j = Idle \/ j = o \/ j = a
                        /\ req' = [req EXCEPT ![p] = j] /\ served' \in 0..MaxRequests
  BY <1>2, IdleJob, BeginServed DEF ConsumeEmailToken
<1> HIDE DEF row
<1>5. /\ issued[t] = [owner |-> tokens[t].owner, purpose |-> u]
      /\ applied[t] = 0 /\ \A q \in Proc : ~Holds(q, t)
  BY <1>0 DEF IInv, TypeOK, TokenInv, Burned
<1>6. \A s \in TokenId : tokens'[s] = IF s = t THEN row ELSE tokens[s]
  BY <1>3 DEF IInv, TypeOK
<1>7. \A q \in Proc : req'[q] = IF q = p THEN j ELSE req[q]
  BY <1>4 DEF IInv, TypeOK
<1>8. UNCHANGED <<backend, now, users, issued, mailed, applied>>
  BY DEF ConsumeEmailToken, Clock
<1>9. TypeOK'
  BY <1>1, <1>3, <1>4, <1>8 DEF IInv, TypeOK
<1>10. /\ j.pc \in {"idle", "owner", "apply"}
       /\ j.pc \in {"owner", "apply"} => j.token = t /\ j.purpose = u
       /\ j.pc = "apply" => j.email = tokens[t].owner
  BY <1>4, IdleJob
<1>11. \A q \in Proc, s \in TokenId : Holds(q, s)' =>
          \/ q = p /\ s = t /\ req'[q].purpose = u
          \/ q # p /\ s # t /\ Holds(q, s) /\ req'[q].purpose = req[q].purpose
  BY <1>5, <1>7, <1>10 DEF Holds
<1>12. TokenInv'
  <2>1. \A s \in TokenId : tokens'[s] # NoRow =>
            issued'[s] = [owner |-> tokens'[s].owner, purpose |-> tokens'[s].purpose]
    BY <1>1, <1>0, <1>5, <1>6, <1>8 DEF IInv, TokenInv
  <2>2. \A s \in TokenId : Burned(s) => Burned(s)'
    BY <1>1, <1>6 DEF Burned
  <2>3. Burned(t)' /\ issued[t] # NoRow /\ issued[t].purpose = u
    BY <1>0, <1>1, <1>5, <1>6, AuthModelValues DEF Burned, TokenRow
  <2>4. \A s \in TokenId : applied'[s] > 0 => issued'[s] # NoRow /\ Burned(s)'
    BY <1>8, <2>2 DEF IInv, TokenInv
  <2>5. \A q \in Proc, s \in TokenId : Holds(q, s)' =>
            /\ issued'[s] # NoRow /\ Burned(s)' /\ applied'[s] = 0
            /\ s \in mailed' /\ issued'[s].purpose = req'[q].purpose
    BY <1>5, <1>8, <1>11, <2>2, <2>3 DEF IInv, TokenInv
  <2> QED BY <1>11, <2>1, <2>4, <2>5 DEF IInv, TokenInv
<1>13. JobInv'
  BY <1>7, <1>8, <1>10 DEF IInv, JobInv
<1>14. TokenOnce'
  BY <1>5, <1>7, <1>8, <1>10 DEF IInv, TokenOnce
<1>15. VerifiedGate' /\ LockConsistent'
  BY <1>7, <1>8, <1>10 DEF IInv, VerifiedGate, Clicked, LockConsistent
<1> QED BY <1>9, <1>12, <1>13, <1>14, <1>15 DEF IInv

\* The one request that holds the token applies it to the account it is for.
LEMMA ApplyStep ==
    ASSUME IInv, NEW p \in Proc, applyToken(p)
    PROVE  IInv'
<1> DEFINE e == req[p].email
           t == req[p].token
           row == IF req[p].purpose = "reset" THEN UpdatePassword(users[e], req[p].pw)
                  ELSE MarkEmailVerified(users[e])
<1>0. /\ req[p] \in Jobs /\ req[p].pc = "apply" /\ e \in Email /\ t \in TokenId
      /\ req[p].purpose \in purpose /\ req[p].pw \in Password \cup {NoPassword}
  BY JobFields DEF IInv, TypeOK, applyToken
<1>1. req' = [req EXCEPT ![p] = Idle] /\ served' \in 0..MaxRequests
  BY BeginServed DEF applyToken, Answer
<1>2. UNCHANGED <<backend, now, tokens, issued, mailed>>
  BY DEF applyToken, Clock
<1>3. CASE UNCHANGED <<users, applied>>
  BY <1>1, <1>2, <1>3, IdleJob, ReadStep DEF Clock, Tables
<1>4. CASE /\ users[e] # NoUser /\ users' = [users EXCEPT ![e] = row]
           /\ applied' = [applied EXCEPT ![t] = @ + 1]
  <2>1. users[e] \in UserRow
    BY <1>0, <1>4 DEF IInv, TypeOK
  <2>2. /\ row \in UserRow /\ row # NoUser
        /\ users[e].verified => row.verified
        /\ req[p].purpose = "reset" => row.verified = users[e].verified
        /\ \/ row.locked = 0 /\ row.failed = 0
           \/ row.locked = users[e].locked /\ row.failed = users[e].failed
    <3>1. CASE req[p].purpose = "reset"
      <4>1. row = [users[e] EXCEPT !.pw = req[p].pw, !.failed = 0, !.locked = 0]
        BY <3>1 DEF UpdatePassword
      <4> HIDE DEF row
      <4>2. row \in UserRow
        BY <1>0, <2>1, <4>1 DEF UserRow
      <4>3. row.verified = users[e].verified /\ row.failed = 0 /\ row.locked = 0
        BY <2>1, <4>1 DEF UserRow
      <4> QED BY <4>2, <4>3, AuthModelValues
    <3>2. CASE req[p].purpose # "reset"
      BY <1>0, <2>1, <3>2, AuthModelValues DEF MarkEmailVerified, UserRow
    <3> QED BY <3>1, <3>2
  <2> HIDE DEF row
  <2>3. Holds(p, t) /\ applied[t] = 0 /\ t \in mailed /\ Burned(t)
        /\ issued[t] = [owner |-> e, purpose |-> req[p].purpose] /\ issued[t] # NoRow
    BY <1>0 DEF Holds, IInv, TokenInv, TokenOnce
  <2>4. \A q \in Proc : (req'[q] = req[q] /\ q # p) \/ req'[q].pc = "idle"
    BY <1>1, IdleJob DEF IInv, TypeOK
  <2>5. \A f \in Email : users'[f] = IF f = e THEN row ELSE users[f]
    BY <1>4 DEF IInv, TypeOK
  <2>6. \A s \in TokenId : applied'[s] = IF s = t THEN 1 ELSE applied[s]
    BY <1>4, <2>3 DEF IInv, TypeOK
  <2>7. TypeOK'
    <3>1. req' \in [Proc -> Jobs]
      BY <1>1, IdleJob DEF IInv, TypeOK
    <3>2. applied' \in [TokenId -> Nat]
      <4>1. applied \in [TokenId -> Nat] /\ applied[t] + 1 \in Nat
        BY <2>3 DEF IInv, TypeOK
      <4> QED BY <1>4, <4>1
    <3>3. users' \in [Email -> UserRow \cup {NoUser}]
      BY <1>4, <2>2 DEF IInv, TypeOK
    <3> QED BY <1>1, <1>2, <3>1, <3>2, <3>3 DEF IInv, TypeOK
  <2>8. \A q \in Proc, s \in TokenId :
          Holds(q, s)' => Holds(q, s) /\ req'[q].purpose = req[q].purpose /\ s # t
    BY <2>3, <2>4 DEF Holds, IInv, TokenInv
  <2>9. TokenInv'
    BY <1>2, <2>3, <2>6, <2>8 DEF IInv, TokenInv, Burned
  <2>10. JobInv'
    <3>1. \A q \in Proc : req'[q].pc \in {"fail", "success", "attach"} =>
             req'[q] = req[q] /\ req[q].email \in Email
      BY <2>4, JobFields DEF IInv, TypeOK
    <3> QED BY <2>2, <2>5, <3>1 DEF IInv, JobInv
  <2>11. TokenOnce'
    BY <1>2, <2>4, <2>6 DEF IInv, TokenOnce
  <2>12. \A f \in Email : Clicked(f) => \E s \in mailed' :
            issued'[s] = [owner |-> f, purpose |-> "verify"] /\ applied'[s] > 0
    BY <1>2, <2>6 DEF Clicked, IInv, TypeOK
  <2>13. req[p].purpose # "reset" => \E s \in mailed' :
            issued'[s] = [owner |-> e, purpose |-> "verify"] /\ applied'[s] > 0
    BY <1>0, <1>2, <2>3, <2>6 DEF purpose
  <2>14. VerifiedGate'
    <3>1. \A q \in Proc : req'[q].pc = "success" => req'[q] = req[q] /\ req[q].email \in Email
      BY <2>4, JobFields DEF IInv, TypeOK
    <3>2. \A f \in Email : users'[f] # NoUser /\ users'[f].verified =>
            \E s \in mailed' : issued'[s] = [owner |-> f, purpose |-> "verify"] /\ applied'[s] > 0
      <4> SUFFICES ASSUME NEW f \in Email, users'[f] # NoUser, users'[f].verified
                   PROVE  \E s \in mailed' :
                            issued'[s] = [owner |-> f, purpose |-> "verify"] /\ applied'[s] > 0
        OBVIOUS
      <4>1. CASE f = e /\ req[p].purpose # "reset"
        BY <4>1, <2>13
      <4>2. CASE ~(f = e /\ req[p].purpose # "reset")
        <5>1. users[f] # NoUser /\ users[f].verified
          BY <1>4, <2>2, <2>5, <4>2
        <5> QED BY <5>1, <2>12 DEF IInv, VerifiedGate
      <4> QED BY <4>1, <4>2
    <3> QED BY <2>12, <3>1, <3>2 DEF IInv, VerifiedGate, Clicked
  <2>15. LockConsistent'
    <3> SUFFICES ASSUME NEW f \in Email, users'[f] # NoUser
                 PROVE  /\ (users'[f].locked # 0) <=> (users'[f].failed >= lockoutThreshold)
                        /\ users'[f].locked <= now + lockoutMaxDelay
      BY <1>2 DEF LockConsistent
    <3>1. CASE f = e /\ row.locked = 0 /\ row.failed = 0
      BY <2>5, <3>1, AuthBounds DEF IInv, TypeOK
    <3>2. CASE f = e /\ row.locked = users[e].locked /\ row.failed = users[e].failed
      BY <1>0, <1>4, <2>5, <3>2 DEF IInv, LockConsistent
    <3>3. CASE f # e
      BY <2>5, <3>3 DEF IInv, LockConsistent
    <3> QED BY <2>2, <3>1, <3>2, <3>3
  <2> QED BY <2>7, <2>9, <2>10, <2>11, <2>14, <2>15 DEF IInv
<1>5. users[e] # NoUser => [users EXCEPT ![e] =
            IF req[p].purpose = "reset" THEN UpdatePassword(@, req[p].pw)
            ELSE MarkEmailVerified(@)] = [users EXCEPT ![e] = row]
  BY <1>0 DEF IInv, TypeOK
<1> QED BY <1>3, <1>4, <1>5 DEF applyToken

LEMMA Inductive == IInv /\ [Next]_vars => IInv'
<1> SUFFICES ASSUME IInv, [Next]_vars PROVE IInv'
  OBVIOUS
<1>1. CASE UNCHANGED vars
  BY <1>1 DEF vars, IInv, TypeOK, TokenInv, JobInv, TokenOnce, VerifiedGate,
              LockConsistent, Holds, Burned, Clicked
<1>2. ASSUME NEW p \in Proc,
             \/ \E t \in TokenId, pw \in Password : postReset(p, t, pw)
             \/ \E t \in TokenId : getVerify(p, t)
      PROVE  IInv'
  BY <1>2, ConsumeStep DEF postReset, getVerify, purpose
<1> QED BY <1>1, <1>2, ReadSteps, WriteSteps, DropSteps, CreateStep, ApplyStep DEF Next

\* Whatever the number of accounts, links and concurrent requests, and whichever
\* database calls fail or are lost: a link takes effect at most once and for
\* its own account.
THEOREM LinksAreSingleUse == Spec => []TokenOnce
<1>1. IInv => TokenOnce
  BY DEF IInv
<1> QED BY InitOK, Inductive, <1>1, PTL DEF Spec

\* ... a verified mark, and in verification-required mode a password sign-in,
\* always has a click on a mailed link behind it.
THEOREM GateHolds == Spec => []VerifiedGate
<1>1. IInv => VerifiedGate
  BY DEF IInv
<1> QED BY InitOK, Inductive, <1>1, PTL DEF Spec

\* ... the failure counter and the lock deadline agree, for every threshold and
\* every pair of delays.
THEOREM LockoutAgrees == Spec => []LockConsistent
<1>1. IInv => LockConsistent
  BY DEF IInv
<1> QED BY InitOK, Inductive, <1>1, PTL DEF Spec
-----------------------------------------------------------------------------
(* The throttle.  An entry that is no longer in its list is out of every   *)
(* window an attempt still under way can be in: that is what the sweep,    *)
(* which looks at the last entry only, has to be given the slack for.      *)

Late == IF LoginDelay > 0 THEN LoginDelay - 1 ELSE 0
Recent(c, t) == {e \in passed[c] : e.time >= t /\ e.time + Slack < t + LoginWindow}

\* Entries are numbered, and one overtakes another by no more than the wait.
Ranked(log) ==
    /\ log \subseteq Entry /\ IsFiniteSet(log)
    /\ \A e \in log : e.place < Cardinality(log) /\ e.time <= tnow
    /\ \A e, f \in log : e.place <= f.place => e.time <= f.time + LoginDelay

Forgotten(log, list) == \A e \in log \ list : e.time + LoginWindow <= tnow + Late

ThrottleInv ==
    /\ ThrottleTypeOK
    /\ \A c \in Client : Ranked(passed[c]) /\ hits[c] \subseteq passed[c]
    /\ LoginMax > 0 => \A c \in Client : Forgotten(passed[c], hits[c])
    /\ \A a \in Attempt : attempt[a] # NoAttempt =>
          attempt[a].now <= tnow /\ tnow <= attempt[a].now + LoginDelay
    /\ LoginMax > 0 => \A c \in Client, t \in 0..LoginClock : Cardinality(Recent(c, t)) <= LoginMax

LEMMA SlackIs == Late \in Nat /\ Slack \in Nat /\ Slack = LoginDelay + Late /\ LoginDelay <= Late + 1
BY ThrottleConstants DEF Late, Slack

LEMMA ThrottleInitInv == ThrottleInit => ThrottleInv
<1> SUFFICES ASSUME ThrottleInit PROVE ThrottleInv
  OBVIOUS
<1>1. \A c \in Client : passed[c] = {} /\ hits[c] = {}
  BY DEF ThrottleInit
<1>2. \A c \in Client, t \in 0..LoginClock : Recent(c, t) = {}
  BY <1>1 DEF Recent
<1>3. ThrottleTypeOK
  BY <1>1, FS_EmptySet, ThrottleConstants DEF ThrottleInit, ThrottleTypeOK
<1>4. \A c \in Client : Ranked(passed[c]) /\ hits[c] \subseteq passed[c] /\ Forgotten(passed[c], hits[c])
  BY <1>1, FS_EmptySet DEF Ranked, Forgotten
<1>5. \A a \in Attempt : attempt[a] = NoAttempt
  BY DEF ThrottleInit
<1> QED
  BY <1>2, <1>3, <1>4, <1>5, FS_EmptySet, ThrottleConstants DEF ThrottleInv

\* A set of numbers has a least, and a bounded one a greatest.
LEMMA LeastPlace ==
    ASSUME NEW T \in SUBSET Nat, T # {}
    PROVE  \E n \in T : \A m \in T : n <= m
<1>1. PICK n \in T : \A m \in T : ~(<<m, n>> \in OpToRel(<, Nat))
  BY NatLessThanWellFounded, WFMin
<1>2. \A m \in T : ~(m < n)
  BY <1>1 DEF OpToRel
<1> QED
  BY <1>2

LEMMA GreatestPlace ==
    ASSUME NEW T \in SUBSET Nat, T # {}, NEW b \in Nat, \A m \in T : m <= b
    PROVE  \E n \in T : \A m \in T : m <= n
<1> DEFINE Above == {k \in Nat : \A m \in T : m <= k}
<1>0. PICK n \in Above : \A k \in Above : n <= k
  <2>1. b \in Above /\ Above \subseteq Nat
    OBVIOUS
  <2> QED
    BY <2>1, LeastPlace
<1>1. n \in Nat /\ (\A m \in T : m <= n) /\ \A k \in Nat : (\A m \in T : m <= k) => n <= k
  BY <1>0
<1>2. CASE n \in T
  BY <1>1, <1>2
<1>3. CASE n \notin T
  <2>1. \A m \in T : m \in Nat /\ m < n
    BY <1>1, <1>3
  <2>3. PICK m \in T : m \in Nat /\ m < n
    BY <2>1
  <2>4. n - 1 \in Nat
    BY <1>1, <2>3
  <2>5. \A k \in T : k <= n - 1
    BY <1>1, <2>1, <2>4
  <2>2. n - 1 \in Nat /\ \A k \in T : k <= n - 1
    BY <2>4, <2>5
  <2> QED
    BY SMTT(30), <1>1, <2>2
<1> QED
  BY <1>2, <1>3

\* A list that is not empty has a last entry.
LEMMA HasLast ==
    ASSUME NEW log, Ranked(log), NEW list \in SUBSET log, list # {}
    PROVE  \E e \in list : IsLast(e, list)
<1> DEFINE places == {e.place : e \in list}
<1>1. \A e \in list : e.place \in Nat /\ e.place < Cardinality(log)
  BY DEF Ranked, Entry
<1>2. Cardinality(log) \in Nat
  BY FS_CardinalityType DEF Ranked
<1>3. places \in SUBSET Nat /\ places # {} /\ \A k \in places : k <= Cardinality(log)
  BY <1>1, <1>2
<1>4. PICK n \in places : \A k \in places : k <= n
  BY <1>2, <1>3, GreatestPlace
<1>5. PICK e \in list : e.place = n
  OBVIOUS
<1> QED
  BY <1>4, <1>5 DEF IsLast

\* The clock moves only while nobody waits too long.
LEMMA ThrottleTickStep == ThrottleInv /\ ThrottleTick => ThrottleInv'
<1> SUFFICES ASSUME ThrottleInv, ThrottleTick PROVE ThrottleInv'
  OBVIOUS
<1>1. tnow \in 0..LoginClock /\ tnow' \in 0..LoginClock /\ tnow' = tnow + 1
  BY ThrottleConstants DEF ThrottleInv, ThrottleTypeOK, ThrottleTick
<1>2. UNCHANGED <<hits, attempt, passed>>
  BY DEF ThrottleTick
<1>3. ThrottleTypeOK'
  BY <1>1, <1>2 DEF ThrottleInv, ThrottleTypeOK
<1>4. ASSUME NEW c \in Client PROVE Ranked(passed[c])' /\ (hits[c] \subseteq passed[c])'
  <2>1. \A e \in passed[c] : e.time \in Nat
    BY <1>4, ThrottleConstants DEF ThrottleInv, Ranked, Entry
  <2> QED
    BY <1>1, <1>2, <1>4, <2>1, ThrottleConstants DEF ThrottleInv, Ranked
<1>5. ASSUME LoginMax > 0, NEW c \in Client PROVE Forgotten(passed[c], hits[c])'
  <2>1. \A e \in passed[c] : e.time \in Nat
    BY <1>5, ThrottleConstants DEF ThrottleInv, Ranked, Entry
  <2>2. \A e \in passed[c] \ hits[c] : e.time + LoginWindow <= tnow + Late
    BY <1>5 DEF ThrottleInv, Forgotten
  <2>3. \A e \in passed[c] \ hits[c] : e.time + LoginWindow <= tnow' + Late
    BY <1>1, <2>1, <2>2, SlackIs, ThrottleConstants
  <2> QED
    BY <1>2, <2>3 DEF Forgotten
<1>6. \A a \in Attempt : attempt[a] # NoAttempt => attempt[a].now <= tnow' /\ tnow' <= attempt[a].now + LoginDelay
  <2>1. ASSUME NEW a \in Attempt, attempt[a] # NoAttempt PROVE attempt[a].now \in Nat
    BY <2>1, ThrottleConstants DEF ThrottleInv, ThrottleTypeOK, Read
  <2> QED
    BY <1>1, <2>1, ThrottleConstants DEF ThrottleInv, ThrottleTick
<1>7. LoginMax > 0 => \A c \in Client, t \in 0..LoginClock : Cardinality(Recent(c, t))' <= LoginMax
  BY <1>2 DEF ThrottleInv, Recent
<1> QED
  BY <1>2, <1>3, <1>4, <1>5, <1>6, <1>7 DEF ThrottleInv
LEMMA BeginsStep ==
    ASSUME ThrottleInv, NEW a \in Attempt, NEW c \in Client, AttemptBegins(a, c)
    PROVE  ThrottleInv'
<1>1. UNCHANGED <<tnow, hits, passed>> /\ tnow \in 0..LoginClock
  BY DEF AttemptBegins, ThrottleInv, ThrottleTypeOK
<1>2. PICK r : r = [at |-> "read", client |-> c, now |-> tnow]
  OBVIOUS
<1>3. r \in Read /\ r.now = tnow
  BY <1>1, <1>2 DEF Read
<1>4. attempt' = [attempt EXCEPT ![a] = r]
  BY <1>2 DEF AttemptBegins
<1>5. attempt \in [Attempt -> Read \cup {NoAttempt}]
  BY DEF ThrottleInv, ThrottleTypeOK
<1>6. ThrottleTypeOK'
  BY <1>1, <1>3, <1>4, <1>5 DEF ThrottleInv, ThrottleTypeOK
<1>7. \A b \in Attempt : attempt'[b] # NoAttempt => attempt'[b].now <= tnow /\ tnow <= attempt'[b].now + LoginDelay
  <2>1. tnow <= tnow + LoginDelay
    BY <1>1, ThrottleConstants
  <2> QED
    BY <1>1, <1>3, <1>4, <1>5, <2>1 DEF ThrottleInv
<1>8. \A k \in Client : Ranked(passed[k])' /\ (hits[k] \subseteq passed[k])'
  BY <1>1 DEF ThrottleInv, Ranked
<1>9. LoginMax > 0 => \A k \in Client : Forgotten(passed[k], hits[k])'
  BY <1>1 DEF ThrottleInv, Forgotten
<1>10. LoginMax > 0 => \A k \in Client, t \in 0..LoginClock : Cardinality(Recent(k, t))' <= LoginMax
  BY <1>1 DEF ThrottleInv, Recent
<1> QED
  BY <1>1, <1>6, <1>7, <1>8, <1>9, <1>10 DEF ThrottleInv

\* What an attempt of a client read, and what is left of the client's list.
LEMMA KeptIs ==
    ASSUME ThrottleInv, NEW a \in Attempt, attempt[a] # NoAttempt
    PROVE  /\ attempt[a].client \in Client /\ attempt[a].now \in 0..LoginClock
           /\ attempt[a].now <= tnow /\ tnow <= attempt[a].now + LoginDelay
           /\ Kept(a) \subseteq hits[attempt[a].client]
           /\ IsFiniteSet(Kept(a)) /\ Cardinality(Kept(a)) \in Nat
           /\ LoginMax > 0 => Cardinality(Kept(a)) <= LoginMax
<1>1. attempt[a] \in Read
  BY DEF ThrottleInv, ThrottleTypeOK
<1>2. attempt[a].client \in Client /\ attempt[a].now \in 0..LoginClock
  BY <1>1 DEF Read
<1>3. IsFiniteSet(hits[attempt[a].client])
  BY <1>2, FS_Subset DEF ThrottleInv, Ranked
<1>4. Kept(a) \in SUBSET hits[attempt[a].client]
  BY DEF Kept
<1>5. IsFiniteSet(Kept(a)) /\ Cardinality(Kept(a)) <= Cardinality(hits[attempt[a].client])
  BY <1>3, <1>4, FS_Subset
<1>6. Cardinality(Kept(a)) \in Nat /\ Cardinality(hits[attempt[a].client]) \in Nat
  BY <1>3, <1>5, FS_CardinalityType
<1>7. LoginMax > 0 => Cardinality(hits[attempt[a].client]) <= LoginMax
  BY <1>2 DEF ThrottleInv, ThrottleTypeOK
<1>8. LoginMax > 0 => Cardinality(Kept(a)) <= LoginMax
  BY <1>5, <1>6, <1>7, ThrottleConstants
<1>9. attempt[a].now <= tnow /\ tnow <= attempt[a].now + LoginDelay
  BY DEF ThrottleInv
<1> QED
  BY <1>2, <1>4, <1>5, <1>6, <1>8, <1>9

\* What pruning leaves out is out of the window of whoever prunes.
LEMMA Pruned ==
    ASSUME ThrottleInv, LoginMax > 0, NEW a \in Attempt, attempt[a] # NoAttempt
    PROVE  Forgotten(passed[attempt[a].client], Kept(a))
<1> DEFINE c == attempt[a].client
           n == attempt[a].now
<1>1. c \in Client /\ n \in Nat /\ n <= tnow /\ tnow \in Nat
  BY KeptIs, ThrottleConstants DEF ThrottleInv, ThrottleTypeOK
<1>2. SUFFICES ASSUME NEW e \in passed[c] \ Kept(a) PROVE e.time + LoginWindow <= tnow + Late
  BY DEF Forgotten
<1>3. e.time \in Nat
  BY <1>1, <1>2, ThrottleConstants DEF ThrottleInv, Ranked, Entry
<1>4. CASE e \notin hits[c]
  BY <1>1, <1>2, <1>4 DEF ThrottleInv, Forgotten
<1>5. CASE e \in hits[c]
  <2>1. ~(e.time + LoginWindow > n)
    BY <1>2, <1>5 DEF Kept, Within
  <2> QED
    BY <1>1, <1>3, <2>1, SlackIs, ThrottleConstants
<1> QED
  BY <1>4, <1>5

LEMMA RefusedStep ==
    ASSUME ThrottleInv, LoginMax > 0, NEW a \in Attempt, attempt[a] # NoAttempt,
           attempt' = [attempt EXCEPT ![a] = NoAttempt],
           hits' = [hits EXCEPT ![attempt[a].client] = Kept(a)], UNCHANGED <<tnow, passed>>
    PROVE  ThrottleInv'
<1>1. attempt[a].client \in Client /\ hits \in [Client -> SUBSET Entry]
  BY KeptIs DEF ThrottleInv, ThrottleTypeOK
<1>2. ASSUME NEW k \in Client
      PROVE  /\ hits'[k] \subseteq passed[k] /\ hits'[k] \in SUBSET Entry
             /\ Cardinality(hits'[k]) <= LoginMax /\ Forgotten(passed[k], hits'[k])
  <2>1. CASE k = attempt[a].client
    BY <1>1, <1>2, <2>1, KeptIs, Pruned DEF ThrottleInv, ThrottleTypeOK
  <2>2. CASE k # attempt[a].client
    BY <1>1, <1>2, <2>2 DEF ThrottleInv, ThrottleTypeOK
  <2> QED
    BY <2>1, <2>2
<1>3. \A b \in Attempt : attempt'[b] # NoAttempt => attempt[b] # NoAttempt /\ attempt'[b] = attempt[b]
  BY DEF ThrottleInv, ThrottleTypeOK
<1>4. ThrottleTypeOK'
  BY <1>1, <1>2 DEF ThrottleInv, ThrottleTypeOK
<1>5. \A k \in Client : Ranked(passed[k])' /\ (hits[k] \subseteq passed[k])'
  BY <1>2 DEF ThrottleInv, Ranked
<1>6. \A k \in Client : Forgotten(passed[k], hits[k])'
  BY <1>2 DEF Forgotten
<1>7. \A k \in Client, t \in 0..LoginClock : Cardinality(Recent(k, t))' <= LoginMax
  BY DEF ThrottleInv, Recent
<1> QED
  BY <1>3, <1>4, <1>5, <1>6, <1>7 DEF ThrottleInv
\* A new entry goes to the end of the list of its client.
LEMMA RankedGrows ==
    ASSUME NEW log, Ranked(log), NEW x \in Entry, x.place = Cardinality(log),
           tnow \in Nat, x.time <= tnow, tnow <= x.time + LoginDelay
    PROVE  /\ Ranked(log \cup {x}) /\ x \notin log
<1>1. Cardinality(log) \in Nat /\ IsFiniteSet(log) /\ log \subseteq Entry
  BY FS_CardinalityType DEF Ranked
<1>2. \A e \in log : e.place \in Nat /\ e.place < Cardinality(log) /\ e.time \in Nat /\ e.time <= tnow
  BY <1>1, ThrottleConstants DEF Ranked, Entry
<1>3. x \notin log
  BY <1>1, <1>2
<1>4. IsFiniteSet(log \cup {x}) /\ Cardinality(log \cup {x}) = Cardinality(log) + 1
  BY <1>1, <1>3, FS_AddElement
<1>5. x.time \in Nat
  BY ThrottleConstants DEF Entry
<1>6. \A e \in log \cup {x} : e.place < Cardinality(log \cup {x}) /\ e.time <= tnow
  BY <1>1, <1>2, <1>4
<1>7. ASSUME NEW e \in log \cup {x}, NEW f \in log \cup {x}, e.place <= f.place
      PROVE  e.time <= f.time + LoginDelay
  <2>1. CASE e \in log /\ f \in log
    BY <1>7, <2>1 DEF Ranked
  <2>2. CASE f = x /\ e \in log
    BY <1>2, <1>5, <2>2, ThrottleConstants
  <2>3. CASE e = x /\ f \in log
    BY <1>1, <1>2, <1>7, <2>3
  <2>4. CASE e = x /\ f = x
    BY <1>5, <2>4, ThrottleConstants
  <2> QED
    BY <1>7, <2>1, <2>2, <2>3, <2>4
<1> QED
  BY <1>1, <1>3, <1>4, <1>6, <1>7 DEF Ranked

\* What the sweep drops is out of every window, up to the slack.
LEMMA Swept ==
    ASSUME NEW m, NEW log, NEW c, NEW n \in Nat, n <= tnow, tnow \in Nat, NEW k \in Client,
           Ranked(log), m[k] \subseteq log,
           Forgotten(log, m[k])
    PROVE  /\ SweptKeys(m, c, n)[k] \in {m[k], {}}
           /\ Forgotten(log, SweptKeys(m, c, n)[k])
<1> DEFINE s == SweptKeys(m, c, n)[k]
<1>1. \/ s = m[k]
      \/ s = {} /\ ~\E e \in m[k] : IsLast(e, m[k]) /\ e.time + LoginWindow >= n
  BY DEF SweptKeys
<1>2. CASE s = m[k]
  BY <1>2
<1>3. CASE s = {} /\ m[k] # {} /\ ~\E e \in m[k] : IsLast(e, m[k]) /\ e.time + LoginWindow >= n
  <2>1. PICK l \in m[k] : IsLast(l, m[k])
    BY <1>3, HasLast
  <2>2. l \in Entry /\ l.time \in Nat /\ l.time + LoginWindow < n
    BY <1>3, <2>1, ThrottleConstants DEF Ranked, Entry
  <2>3. ASSUME NEW e \in log PROVE e.time + LoginWindow <= tnow + Late
    <3>1. CASE e \notin m[k]
      BY <2>3, <3>1 DEF Forgotten
    <3>2. CASE e \in m[k]
      <4>1. e.time \in Nat /\ e.time <= l.time + LoginDelay
        BY <2>1, <2>3, <3>2, ThrottleConstants DEF IsLast, Ranked, Entry
      <4> QED
        BY <2>2, <4>1, SlackIs, ThrottleConstants
    <3> QED
      BY <3>1, <3>2
  <2> QED
    BY <1>3, <2>3 DEF Forgotten
<1> QED
  BY <1>1, <1>2, <1>3
LEMMA OneMore ==
    ASSUME NEW K, IsFiniteSet(K), NEW x, NEW b \in Nat, Cardinality(K) < b
    PROVE  IsFiniteSet(K \cup {x}) /\ Cardinality(K \cup {x}) <= b
<1>1. Cardinality(K) \in Nat
  BY FS_CardinalityType
<1>2. IsFiniteSet(K \cup {x})
      /\ (Cardinality(K \cup {x}) = Cardinality(K) \/ Cardinality(K \cup {x}) = Cardinality(K) + 1)
  BY FS_AddElement
<1> QED
  BY <1>1, <1>2

\* An attempt that is let through: everybody it shares a window with is still in its list.
LEMMA AllowedBurst ==
    ASSUME ThrottleInv, LoginMax > 0, NEW a \in Attempt, attempt[a] # NoAttempt,
           Cardinality(Kept(a)) < LoginMax, NEW x \in Entry, x.time = attempt[a].now,
           NEW t \in 0..LoginClock, NEW log, log = passed[attempt[a].client] \cup {x}
    PROVE  Cardinality({e \in log : e.time >= t /\ e.time + Slack < t + LoginWindow}) <= LoginMax
<1> DEFINE c == attempt[a].client
           W == {e \in log : e.time >= t /\ e.time + Slack < t + LoginWindow}
<1>1. c \in Client /\ x.time \in Nat /\ tnow \in Nat /\ tnow <= x.time + LoginDelay /\ t \in Nat
  BY KeptIs, ThrottleConstants DEF ThrottleInv, ThrottleTypeOK
<1>2. \A e \in passed[c] : e.time \in Nat
  BY <1>1, ThrottleConstants DEF ThrottleInv, Ranked, Entry
<1>3. CASE x \in W
  <2>1. x.time + Slack < t + LoginWindow
    BY <1>3
  <2>2. ASSUME NEW e \in W, e # x PROVE e \in Kept(a)
    <3>1. e \in passed[c] /\ e.time >= t
      BY <2>2
    <3>2. CASE e \notin Kept(a)
      <4>1. e.time + LoginWindow <= tnow + Late
        BY <3>1, <3>2, Pruned DEF Forgotten
      <4> QED
        BY <1>1, <1>2, <2>1, <3>1, <4>1, SlackIs, ThrottleConstants
    <3> QED
      BY <3>2
  <2>3. W \in SUBSET (Kept(a) \cup {x})
    BY <2>2
  <2>4. IsFiniteSet(Kept(a) \cup {x}) /\ Cardinality(Kept(a) \cup {x}) <= LoginMax
    BY KeptIs, OneMore, ThrottleConstants
  <2>5. Cardinality(W) <= Cardinality(Kept(a) \cup {x}) /\ IsFiniteSet(W)
    BY <2>3, <2>4, FS_Subset
  <2>6. Cardinality(W) \in Nat /\ Cardinality(Kept(a) \cup {x}) \in Nat
    BY <2>4, <2>5, FS_CardinalityType
  <2> QED
    BY <2>4, <2>5, <2>6, ThrottleConstants
<1>4. CASE x \notin W
  <2>1. W = Recent(c, t)
    BY <1>4 DEF Recent
  <2> QED
    BY <1>1, <2>1 DEF ThrottleInv
<1> QED
  BY <1>3, <1>4

LEMMA AllowedStep ==
    ASSUME ThrottleInv, LoginMax > 0, NEW a \in Attempt, attempt[a] # NoAttempt,
           attempt' = [attempt EXCEPT ![a] = NoAttempt], Cardinality(Kept(a)) < LoginMax,
           NEW x, x = [time |-> attempt[a].now, place |-> Cardinality(passed[attempt[a].client])],
           passed' = [passed EXCEPT ![attempt[a].client] = @ \cup {x}],
           hits' = SweptKeys([hits EXCEPT ![attempt[a].client] = Kept(a) \cup {x}], attempt[a].client, x.time),
           UNCHANGED tnow
    PROVE  ThrottleInv'
<1>1. PICK c \in Client : c = attempt[a].client
  BY KeptIs
<1>2. /\ hits \in [Client -> SUBSET Entry] /\ passed \in [Client -> SUBSET Entry]
      /\ tnow \in Nat /\ tnow \in 0..LoginClock
  BY ThrottleConstants DEF ThrottleInv, ThrottleTypeOK
<1>3. Cardinality(passed[c]) \in Nat
  BY FS_CardinalityType DEF ThrottleInv, Ranked
<1>4. x \in Entry /\ x.time = attempt[a].now /\ x.place = Cardinality(passed[c])
  BY <1>1, <1>3, KeptIs DEF Entry
<1>5. x.time \in Nat /\ x.time <= tnow /\ tnow <= x.time + LoginDelay
  BY <1>4, KeptIs, ThrottleConstants
<1>6. Ranked(passed[c] \cup {x}) /\ x \notin passed[c]
  BY <1>2, <1>4, <1>5, RankedGrows DEF ThrottleInv
<1>7. PICK m : m = [hits EXCEPT ![c] = Kept(a) \cup {x}]
  OBVIOUS
<1>8. ASSUME NEW k \in Client
      PROVE  /\ Ranked(passed'[k]) /\ m[k] \subseteq passed'[k] /\ Forgotten(passed'[k], m[k])
             /\ Cardinality(m[k]) <= LoginMax
  <2>1. CASE k = c
    <3>1. passed'[k] = passed[c] \cup {x} /\ m[k] = Kept(a) \cup {x}
      BY <1>1, <1>2, <1>7, <2>1
    <3>2. Kept(a) \subseteq passed[c] /\ Forgotten(passed[c], Kept(a))
      BY <1>1, KeptIs, Pruned DEF ThrottleInv
    <3>3. Cardinality(Kept(a) \cup {x}) <= LoginMax
      BY KeptIs, OneMore, ThrottleConstants
    <3> QED
      BY <1>6, <3>1, <3>2, <3>3 DEF Forgotten
  <2>2. CASE k # c
    <3>1. passed'[k] = passed[k] /\ m[k] = hits[k]
      BY <1>1, <1>2, <1>7, <2>2
    <3> QED
      BY <1>8, <3>1 DEF ThrottleInv, ThrottleTypeOK
  <2> QED
    BY <2>1, <2>2
<1>9. hits' = SweptKeys(m, c, x.time)
  BY <1>1, <1>7
<1>10. ASSUME NEW k \in Client PROVE hits'[k] \in {m[k], {}} /\ Forgotten(passed'[k], hits'[k])
  <2>1. PICK log : log = passed'[k]
    OBVIOUS
  <2>2. PICK n \in Nat : n = x.time
    BY <1>5
  <2>3. Ranked(log) /\ m[k] \subseteq log /\ Forgotten(log, m[k]) /\ n <= tnow
    BY <1>5, <1>8, <1>10, <2>1, <2>2
  <2>4. SweptKeys(m, c, n)[k] \in {m[k], {}} /\ Forgotten(log, SweptKeys(m, c, n)[k])
    BY <1>2, <1>10, <2>3, Swept
  <2> QED
    BY <1>9, <2>1, <2>2, <2>4
<1>11. DOMAIN hits' = Client
  BY <1>2, <1>7, <1>9 DEF SweptKeys
<1>12. \A k \in Client : hits'[k] \subseteq passed'[k] /\ Cardinality(hits'[k]) <= LoginMax
  <2>1. Cardinality({}) <= LoginMax
    BY FS_EmptySet, ThrottleConstants
  <2> QED
    BY <1>8, <1>10, <2>1
<1>13. passed' \in [Client -> SUBSET Entry]
  BY <1>2, <1>4
<1>14. hits' \in [Client -> SUBSET Entry]
  <2>1. hits' = [k \in Client |-> hits'[k]]
    BY <1>2, <1>7, <1>9 DEF SweptKeys
  <2>2. \A k \in Client : hits'[k] \in SUBSET Entry
    BY <1>12, <1>13
  <2> QED
    BY <2>1, <2>2
<1>15. attempt' \in [Attempt -> Read \cup {NoAttempt}]
       /\ \A b \in Attempt : attempt'[b] # NoAttempt => attempt[b] # NoAttempt /\ attempt'[b] = attempt[b]
  BY DEF ThrottleInv, ThrottleTypeOK
<1>16. ThrottleTypeOK'
  BY <1>2, <1>12, <1>13, <1>14, <1>15 DEF ThrottleTypeOK
<1>17. \A k \in Client : Ranked(passed[k])'
  BY <1>8 DEF Ranked
<1>18. \A k \in Client : Forgotten(passed[k], hits[k])'
  BY <1>10 DEF Forgotten
<1>19. ASSUME NEW k \in Client, NEW t \in 0..LoginClock PROVE Cardinality(Recent(k, t))' <= LoginMax
  <2>1. CASE k = c
    <3>1. passed'[k] = passed[c] \cup {x}
      BY <1>1, <1>2, <2>1
    <3>2. Cardinality({e \in passed'[k] : e.time >= t /\ e.time + Slack < t + LoginWindow}) <= LoginMax
      BY ZenonT(40), <1>1, <1>4, <3>1, AllowedBurst
    <3> QED
      BY <3>2 DEF Recent
  <2>2. CASE k # c
    <3>1. passed'[k] = passed[k]
      BY <1>1, <1>2, <2>2
    <3>2. Cardinality(Recent(k, t)) <= LoginMax
      BY <1>19 DEF ThrottleInv
    <3> QED
      BY <3>1, <3>2 DEF Recent
  <2> QED
    BY <2>1, <2>2
<1> QED
  BY <1>12, <1>15, <1>16, <1>17, <1>18, <1>19 DEF ThrottleInv

LEMMA ThrottleStep == ThrottleInv /\ [ThrottleNext]_throttleVars => ThrottleInv'
<1> SUFFICES ASSUME ThrottleInv, [ThrottleNext]_throttleVars PROVE ThrottleInv'
  OBVIOUS
<1>1. CASE ThrottleTick
  BY <1>1, ThrottleTickStep
<1>2. ASSUME NEW a \in Attempt, NEW c \in Client, AttemptBegins(a, c) PROVE ThrottleInv'
  BY <1>2, BeginsStep
<1>3. ASSUME NEW a \in Attempt, allow(a) PROVE ThrottleInv'
  <2>1. attempt[a] # NoAttempt /\ attempt' = [attempt EXCEPT ![a] = NoAttempt] /\ UNCHANGED tnow
    BY <1>3 DEF allow
  <2>2. CASE LoginMax = 0 /\ UNCHANGED <<hits, passed>>
    <3>1. attempt' \in [Attempt -> Read \cup {NoAttempt}]
          /\ \A b \in Attempt : attempt'[b] # NoAttempt => attempt[b] # NoAttempt /\ attempt'[b] = attempt[b]
      BY <2>1 DEF ThrottleInv, ThrottleTypeOK
    <3>2. ThrottleTypeOK'
      BY <2>1, <2>2, <3>1 DEF ThrottleInv, ThrottleTypeOK
    <3>3. \A k \in Client : Ranked(passed[k])' /\ (hits[k] \subseteq passed[k])'
      BY <2>1, <2>2 DEF ThrottleInv, Ranked
    <3> QED
      BY <2>1, <2>2, <3>1, <3>2, <3>3 DEF ThrottleInv
  <2>3. CASE LoginMax > 0 /\ Cardinality(Kept(a)) >= LoginMax
              /\ hits' = [hits EXCEPT ![attempt[a].client] = Kept(a)] /\ UNCHANGED passed
    BY <2>1, <2>3, RefusedStep
  <2>4. CASE LoginMax > 0 /\ Cardinality(Kept(a)) < LoginMax /\ ~(LoginMax = 0) /\ ~(Cardinality(Kept(a)) >= LoginMax)
    <3>1. PICK x : x = [time |-> attempt[a].now, place |-> Cardinality(passed[attempt[a].client])]
      OBVIOUS
    <3>2. /\ passed' = [passed EXCEPT ![attempt[a].client] = @ \cup {x}]
          /\ hits' = SweptKeys([hits EXCEPT ![attempt[a].client] = Kept(a) \cup {x}], attempt[a].client, x.time)
      BY <1>3, <2>4, <3>1 DEF allow
    <3> QED
      BY <2>1, <2>4, <3>1, <3>2, AllowedStep
  <2>5. Cardinality(Kept(a)) \in Nat
    BY <2>1, KeptIs
  <2> QED
    BY <1>3, <2>2, <2>3, <2>4, <2>5, ThrottleConstants DEF allow
<1>4. CASE UNCHANGED throttleVars
  BY <1>4 DEF throttleVars, ThrottleInv, ThrottleTypeOK, Ranked, Forgotten, Recent
<1> QED
  BY <1>1, <1>2, <1>3, <1>4 DEF ThrottleNext

LEMMA ThrottleRight == ThrottleInv => ThrottleTypeOK /\ WindowKept
<1> SUFFICES ASSUME ThrottleInv, LoginMax > 0, Slack <= LoginWindow, NEW c \in Client, NEW t \in 0..LoginClock
             PROVE  Burst(c, t, LoginWindow - Slack) <= LoginMax
  BY DEF ThrottleInv, WindowKept
<1>1. \A e \in passed[c] : e.time \in Nat
  BY ThrottleConstants DEF ThrottleInv, Ranked, Entry
<1>2. {e \in passed[c] : e.time >= t /\ e.time < t + (LoginWindow - Slack)} = Recent(c, t)
  BY <1>1, SlackIs, ThrottleConstants DEF Recent
<1> QED
  BY <1>2 DEF Burst, ThrottleInv
-----------------------------------------------------------------------------
(* The signed values.  A flow belongs to the browser that started it: the  *)
(* nonce in the cookie ties the two, from the start to the callback's end. *)

FrontInv ==
    /\ FrontTypeOK /\ ~forged
    /\ \A b \in Visitor : session[b] # Absent => session[b].by = b
    /\ \A b \in Visitor : nonce[b] # None_ => flow[nonce[b]] # Absent /\ flow[nonce[b]].by = b
    /\ \A b \in Visitor : exchange[b] # None_ =>
          flow[exchange[b]] # Absent /\ flow[exchange[b]].by = b /\ flow[exchange[b]].user # None_

LEMMA FrontInitInv == FrontInit => FrontInv
<1> SUFFICES ASSUME FrontInit PROVE FrontInv
  OBVIOUS
<1>0. 0 \in 0..FrontClock
  BY FrontConstants
<1>1. fnow \in 0..FrontClock
  BY <1>0 DEF FrontInit
<1>6. forged \in BOOLEAN /\ ~forged
  BY DEF FrontInit
<1>2. \A b \in Visitor : session[b] = Absent /\ nonce[b] = None_ /\ exchange[b] = None_
  BY DEF FrontInit
<1>3. form \in [Visitor -> FormToken \cup {Absent}] /\ session \in [Visitor -> SessionPayload \cup {Absent}]
  BY DEF FrontInit
<1>4. nonce \in [Visitor -> Flow \cup {None_}] /\ exchange \in [Visitor -> Flow \cup {None_}]
  BY DEF FrontInit
<1>5. flow \in [Flow -> OAuthState \cup {Absent}]
  BY DEF FrontInit
<1> QED
  BY <1>1, <1>2, <1>3, <1>4, <1>5, <1>6 DEF FrontInv, FrontTypeOK

\* No header a browser puts on a page of another site passes for ours.
LEMMA TheirsRefused == ~Accepted("theirs")
BY DEF Accepted, SameOrigin

LEMMA Signed ==
    ASSUME FrontInv, NEW f \in Flow, flow[f] # Absent
    PROVE  flow[f] \in OAuthState /\ flow[f].key \in App /\ flow[f].by \in Visitor
           /\ flow[f].user \in User \cup {None_} /\ flow[f].exp \in Nat
BY DEF FrontInv, FrontTypeOK, OAuthState, AppKey

\* A session that is set in a browser in which its user signed in.
LEMMA SessionSet ==
    ASSUME FrontInv, NEW b \in Visitor, NEW a \in App, NEW u \in User, SetSession(b, a, u, b)
    PROVE  /\ session' \in [Visitor -> SessionPayload \cup {Absent}]
           /\ \A v \in Visitor : session'[v] # Absent => session'[v].by = v
<1>1. PICK s : s = [key |-> a, user |-> u, exp |-> fnow + SessionAge, by |-> b]
  OBVIOUS
<1>2. fnow + SessionAge \in Nat
  BY FrontConstants DEF FrontInv, FrontTypeOK
<1>3. s \in SessionPayload /\ s.by = b
  BY <1>1, <1>2 DEF SessionPayload, AppKey
<1>4. session' = [session EXCEPT ![b] = s] /\ session \in [Visitor -> SessionPayload \cup {Absent}]
  BY <1>1 DEF SetSession, FrontInv, FrontTypeOK
<1> QED
  BY <1>3, <1>4 DEF FrontInv

LEMMA FormSet ==
    ASSUME FrontInv, NEW b \in Visitor, NEW a \in App,
           form' = [form EXCEPT ![b] = [key |-> a, exp |-> fnow + FormAge]]
    PROVE  form' \in [Visitor -> FormToken \cup {Absent}]
<1>1. fnow + FormAge \in Nat
  BY FrontConstants DEF FrontInv, FrontTypeOK
<1>2. [key |-> a, exp |-> fnow + FormAge] \in FormToken
  BY <1>1 DEF FormToken, AppKey
<1> QED
  BY <1>2 DEF FrontInv, FrontTypeOK

LEMMA StartStep ==
    ASSUME FrontInv, NEW b \in Visitor, NEW a \in App, NEW f \in Flow, Start(b, a, f)
    PROVE  FrontInv'
<1>1. PICK st : st = [key |-> a, exp |-> fnow + StateAge, by |-> b, user |-> None_]
  OBVIOUS
<1>2. fnow + StateAge \in Nat
  BY FrontConstants DEF FrontInv, FrontTypeOK
<1>3. st \in OAuthState /\ st.by = b /\ st.key = a
  BY <1>1, <1>2 DEF OAuthState, AppKey
<1>4. st # Absent
  BY <1>3, FrontConstants DEF Absent
<1>5. flow' = [flow EXCEPT ![f] = st] /\ flow[f] = Absent /\ nonce' = [nonce EXCEPT ![b] = f]
      /\ UNCHANGED <<fnow, form, session, exchange, forged>>
  BY <1>1 DEF Start
<1>6. flow' \in [Flow -> OAuthState \cup {Absent}] /\ nonce' \in [Visitor -> Flow \cup {None_}]
  BY <1>3, <1>5 DEF FrontInv, FrontTypeOK
<1>7. FrontTypeOK'
  BY <1>5, <1>6 DEF FrontInv, FrontTypeOK
<1>8. ASSUME NEW v \in Visitor, nonce'[v] # None_ PROVE flow'[nonce'[v]] # Absent /\ flow'[nonce'[v]].by = v
  BY <1>3, <1>4, <1>5, <1>8 DEF FrontInv, FrontTypeOK
<1>9. ASSUME NEW v \in Visitor, exchange'[v] # None_
      PROVE  flow'[exchange'[v]] # Absent /\ flow'[exchange'[v]].by = v /\ flow'[exchange'[v]].user # None_
  BY <1>5, <1>9 DEF FrontInv, FrontTypeOK
<1> QED
  BY <1>5, <1>7, <1>8, <1>9 DEF FrontInv

LEMMA ApproveStep ==
    ASSUME FrontInv, NEW f \in Flow, NEW u \in User, Approve(f, u)
    PROVE  FrontInv'
<1>1. PICK s : s = flow[f]
  OBVIOUS
<1>2. PICK st : st = [s EXCEPT !.user = u]
  OBVIOUS
<1>3. s \in OAuthState
  BY <1>1, Signed DEF Approve
<1>4. st \in OAuthState /\ st.by = s.by /\ st.key = s.key /\ st.user = u /\ s.key \in App
  BY <1>2, <1>3 DEF OAuthState, AppKey
<1>5. st # Absent /\ u # None_
  BY <1>4, FrontConstants DEF Absent
<1>6. flow' = [flow EXCEPT ![f] = st] /\ UNCHANGED <<fnow, form, session, nonce, exchange, forged>>
  BY <1>1, <1>2 DEF Approve, FrontInv, FrontTypeOK
<1>7. FrontTypeOK'
  BY <1>4, <1>6 DEF FrontInv, FrontTypeOK
<1>8. \A g \in Flow : flow[g] # Absent => flow'[g] # Absent /\ flow'[g].by = flow[g].by
                                          /\ (flow[g].user # None_ => flow'[g].user # None_)
  BY <1>1, <1>4, <1>5, <1>6 DEF FrontInv, FrontTypeOK
<1>9. \A v \in Visitor : nonce[v] \in Flow \cup {None_} /\ exchange[v] \in Flow \cup {None_}
  BY DEF FrontInv, FrontTypeOK
<1> QED
  BY <1>6, <1>7, <1>8, <1>9 DEF FrontInv

LEMMA CallbackStep ==
    ASSUME FrontInv, NEW b \in Visitor, NEW a \in App, NEW f \in Flow, Callback(b, a, f)
    PROVE  FrontInv'
<1>1. exchange' = [exchange EXCEPT ![b] = f] /\ flow[f] # Absent /\ flow[f].user # None_ /\ nonce[b] = f
      /\ UNCHANGED <<fnow, form, session, nonce, flow, forged>>
  BY DEF Callback
<1>2. flow[f].by = b
  BY <1>1, FrontConstants DEF FrontInv
<1>3. FrontTypeOK'
  BY <1>1 DEF FrontInv, FrontTypeOK
<1>4. ASSUME NEW v \in Visitor, exchange'[v] # None_
      PROVE  flow[exchange'[v]] # Absent /\ flow[exchange'[v]].by = v /\ flow[exchange'[v]].user # None_
  BY <1>1, <1>2, <1>4 DEF FrontInv, FrontTypeOK
<1> QED
  BY <1>1, <1>3, <1>4 DEF FrontInv

LEMMA CallbackEndsStep ==
    ASSUME FrontInv, NEW b \in Visitor, CallbackEnds(b)
    PROVE  FrontInv'
<1>1. exchange[b] \in Flow /\ exchange' = [exchange EXCEPT ![b] = None_]
      /\ UNCHANGED <<fnow, form, flow, forged>>
  BY DEF CallbackEnds, FrontInv, FrontTypeOK
<1>2. PICK st : st = flow[exchange[b]]
  OBVIOUS
<1>3. st.key \in App /\ st.user \in User /\ st.by = b
  BY <1>1, <1>2, Signed, FrontConstants DEF FrontInv
<1>4. exchange' \in [Visitor -> Flow \cup {None_}]
      /\ \A v \in Visitor : exchange'[v] # None_ => exchange'[v] = exchange[v]
  BY <1>1 DEF FrontInv, FrontTypeOK
<1>5. CASE UNCHANGED <<session, nonce>>
  BY <1>1, <1>4, <1>5 DEF FrontInv, FrontTypeOK
<1>6. CASE SetSession(b, st.key, st.user, st.by) /\ nonce' = [nonce EXCEPT ![b] = None_]
  <2>1. session' \in [Visitor -> SessionPayload \cup {Absent}]
        /\ \A v \in Visitor : session'[v] # Absent => session'[v].by = v
    BY <1>3, <1>6, SessionSet
  <2>2. nonce' \in [Visitor -> Flow \cup {None_}] /\ \A v \in Visitor : nonce'[v] # None_ => nonce'[v] = nonce[v]
    BY <1>6 DEF FrontInv, FrontTypeOK
  <2> QED
    BY <1>1, <1>4, <2>1, <2>2 DEF FrontInv, FrontTypeOK
<1> QED
  BY <1>2, <1>5, <1>6 DEF CallbackEnds

LEMMA FrontStep == FrontInv /\ [FrontNext]_frontVars => FrontInv'
<1> SUFFICES ASSUME FrontInv, [FrontNext]_frontVars PROVE FrontInv'
  OBVIOUS
<1>1. CASE FrontTick
  BY <1>1, FrontConstants DEF FrontTick, FrontInv, FrontTypeOK
<1>2. ASSUME NEW b \in Visitor, NEW a \in App, GetLogin(b, a) PROVE FrontInv'
  BY <1>2, FormSet DEF GetLogin, FrontInv, FrontTypeOK
<1>3. ASSUME NEW b \in Visitor, NEW a \in App, NEW u \in User, NEW site \in {"ours", "theirs"}, PostLogin(b, a, u, site)
      PROVE  FrontInv'
  <2>1. site = "ours" /\ UNCHANGED <<fnow, nonce, flow, exchange>>
    BY <1>3, TheirsRefused DEF PostLogin
  <2>2. CASE SetSession(b, a, u, b) /\ UNCHANGED form /\ forged' = (forged \/ site = "theirs")
    BY <2>1, <2>2, SessionSet DEF FrontInv, FrontTypeOK
  <2>3. CASE form' = [form EXCEPT ![b] = [key |-> a, exp |-> fnow + FormAge]] /\ UNCHANGED <<session, forged>>
    BY <2>1, <2>3, FormSet DEF FrontInv, FrontTypeOK
  <2> QED
    BY <1>3, <2>2, <2>3 DEF PostLogin
<1>4. ASSUME NEW b \in Visitor, NEW a \in App, NEW site \in {"ours", "theirs"}, PostLogout(b, a, site) PROVE FrontInv'
  <2>1. site = "ours" /\ session' = [session EXCEPT ![b] = Absent] /\ forged' = (forged \/ site = "theirs")
        /\ UNCHANGED <<fnow, form, nonce, flow, exchange>>
    BY <1>4, TheirsRefused DEF PostLogout
  <2>2. session' \in [Visitor -> SessionPayload \cup {Absent}]
        /\ \A v \in Visitor : session'[v] # Absent => session'[v].by = v
    BY <2>1 DEF FrontInv, FrontTypeOK
  <2> QED
    BY <2>1, <2>2 DEF FrontInv, FrontTypeOK
<1>5. CASE UNCHANGED frontVars
  BY <1>5 DEF frontVars, FrontInv, FrontTypeOK
<1> QED
  BY <1>1, <1>2, <1>3, <1>4, <1>5, StartStep, CallbackStep, ApproveStep, CallbackEndsStep DEF FrontNext

LEMMA FrontRight == FrontInv => FrontTypeOK /\ FrontSound
<1> SUFFICES ASSUME FrontInv PROVE IdentityProven
  BY DEF FrontInv, FrontSound, OnlyOurForms
<1> SUFFICES ASSUME NEW b \in Visitor, NEW a \in App, NEW claim \in User \cup {None_}, Identity(b, a, claim) # None_
             PROVE  /\ session[b] # Absent /\ session[b].key = a
                    /\ Identity(b, a, claim) = session[b].user
                    /\ session[b].by = b /\ fnow <= session[b].exp
  BY DEF IdentityProven
<1>1. Identity(b, a, claim) = SessionOf(b, a) /\ Opened(session[b], a)
  BY DEF Identity, SessionOf
<1> QED
  BY <1>1 DEF SessionOf, Opened, FrontInv
-----------------------------------------------------------------------------
(* The password of an account, from one step to the next.                  *)

\* Every write but a reset's leaves the column of an account that exists alone.
LEMMA OtherWrites ==
    ASSUME IInv, NEW p \in Proc, NEW f \in Email, users[f] # NoUser,
           \/ \E e \in Email, pw \in Password : postSignup(p, e, pw)
           \/ recordLoginFailure(p) \/ loginSuccess(p) \/ upsertAttach(p) \/ upsertCreate(p)
    PROVE  users'[f].pw = users[f].pw
<1>1. users \in [Email -> UserRow \cup {NoUser}] /\ users[f] \in UserRow
  BY DEF IInv, TypeOK
<1>2. PICK r : r = users[f]
  OBVIOUS
<1>4. ASSUME NEW e \in Email, NEW pw \in Password, postSignup(p, e, pw) PROVE users'[f] = users[f]
  BY <1>1, <1>4 DEF postSignup, duplicate
<1>5. CASE recordLoginFailure(p)
  <2>1. PICK n, m : users' = [users EXCEPT ![req[p].email].failed = n, ![req[p].email].locked = m]
                    \/ users' = users
    BY <1>5 DEF recordLoginFailure
  <2>2. users'[f] = [r EXCEPT !.failed = n, !.locked = m] \/ users'[f] = r
    BY ZenonT(40), <1>1, <1>2, <2>1
  <2>3. [r EXCEPT !.failed = n, !.locked = m].pw = r.pw
    BY <1>1, <1>2 DEF UserRow
  <2> QED
    BY <1>2, <2>2, <2>3
<1>6. CASE loginSuccess(p)
  <2>1. users'[f] = [r EXCEPT !.failed = 0, !.locked = 0] \/ users'[f] = r
    BY <1>1, <1>2, <1>6 DEF loginSuccess
  <2>2. [r EXCEPT !.failed = 0, !.locked = 0].pw = r.pw
    BY <1>1, <1>2 DEF UserRow
  <2> QED
    BY <1>2, <2>1, <2>2
<1>7. CASE upsertAttach(p)
  <2>1. users'[f] = [r EXCEPT !.subject = req[p].subject] \/ users'[f] = r
    BY <1>1, <1>2, <1>7 DEF upsertAttach
  <2>2. [r EXCEPT !.subject = req[p].subject].pw = r.pw
    BY <1>1, <1>2 DEF UserRow
  <2> QED
    BY <1>2, <2>1, <2>2
<1>8. CASE upsertCreate(p)
  BY <1>1, <1>8 DEF upsertCreate, duplicate
<1> QED
  BY <1>4, <1>5, <1>6, <1>7, <1>8

\* A step that replaces a password takes a reset link of that account.
LEMMA PasswordStep ==
    ASSUME IInv, Next, NEW e \in Email, users[e] # NoUser, users'[e].pw # users[e].pw
    PROVE  \E t \in TokenId : issued[t] = [owner |-> e, purpose |-> "reset"] /\ applied'[t] = applied[t] + 1
<1>1. ASSUME NEW p \in Proc, applyToken(p)
      PROVE  \E t \in TokenId : issued[t] = [owner |-> e, purpose |-> "reset"] /\ applied'[t] = applied[t] + 1
  <2>1. PICK j : j = req[p]
    OBVIOUS
  <2>2. j \in Jobs /\ j.pc = "apply"
    BY <1>1, <2>1 DEF applyToken, IInv, TypeOK
  <2>3. j.token \in TokenId /\ j.purpose \in purpose
    BY <2>2, JobFields
  <2>4. issued[j.token] = [owner |-> j.email, purpose |-> j.purpose]
    BY <2>1, <2>2 DEF IInv, TokenOnce
  <2>5. users \in [Email -> UserRow \cup {NoUser}] /\ users[e] \in UserRow
    BY DEF IInv, TypeOK
  <2>6. /\ users' = [users EXCEPT ![j.email] = IF j.purpose = "reset" THEN UpdatePassword(@, j.pw)
                                               ELSE MarkEmailVerified(@)]
        /\ applied' = [applied EXCEPT ![j.token] = @ + 1]
    BY <1>1, <2>1 DEF applyToken
  <2>7. j.email = e
    BY <2>5, <2>6
  <2>8. j.purpose = "reset"
    <3>1. [users[e] EXCEPT !.verified = TRUE].pw = users[e].pw
      BY <2>5 DEF UserRow
    <3> QED
      BY <2>5, <2>6, <2>7, <3>1 DEF MarkEmailVerified
  <2>9. applied'[j.token] = applied[j.token] + 1
    BY <2>3, <2>6 DEF IInv, TypeOK
  <2> QED
    BY <2>3, <2>4, <2>7, <2>8, <2>9
<1>2. ASSUME NEW p \in Proc,
             \/ \E f \in Email, pw \in Password : postSignup(p, f, pw)
             \/ recordLoginFailure(p) \/ loginSuccess(p) \/ upsertAttach(p) \/ upsertCreate(p)
      PROVE  FALSE
  BY <1>2, OtherWrites
<1>3. ASSUME NEW p \in Proc,
             \/ \E f \in Email, pw \in Password : postLogin(p, f, pw)
             \/ \E f \in Email : postForgot(p, f)
             \/ \E t \in TokenId, pw \in Password : postReset(p, t, pw)
             \/ \E t \in TokenId : getVerify(p, t)
             \/ \E s \in Subject, f \in Email : callback(p, s, f)
             \/ signupError(p) \/ dropOldLinks(p) \/ CreateEmailToken(p) \/ tokenOwner(p) \/ upsertByEmail(p)
      PROVE  users' = users
  BY <1>3 DEF postLogin, postForgot, postReset, getVerify, ConsumeEmailToken, callback, signupError,
              dropOldLinks, CreateEmailToken, tokenOwner, upsertByEmail
<1>4. expireTokens \/ Tick => users' = users
  BY DEF expireTokens, Tick
<1> QED
  BY <1>1, <1>2, <1>3, <1>4 DEF Next

\* An account's password is replaced by a reset link of that account and by nothing
\* else, however the requests interleave and whichever calls fail.
THEOREM PasswordsComeFromLinks == Spec => PasswordProvenance
<1>1. IInv /\ [Next]_vars =>
        [\A e \in Email :
           users[e] # NoUser /\ users'[e].pw # users[e].pw =>
             \E t \in TokenId : /\ issued[t] = [owner |-> e, purpose |-> "reset"]
                                /\ applied'[t] = applied[t] + 1]_vars
  BY PasswordStep
<1> QED
  BY InitOK, Inductive, <1>1, PTL DEF Spec, PasswordProvenance-----------------------------------------------------------------------------
(* The supervisor.  Each place of the main goroutine knows why it was      *)
(* reached; both waiters leave the application reaped, with its status.    *)

ExecInv ==
    /\ ExecTypeOK /\ ExecSound
    /\ main = "booting" => child = "none" /\ waiter = "off"
    /\ main \in {"booting", "select"} => cause = "none"
    /\ main \in {"grace", "lastwait"} => exec /\ cause \in {"signal", "listener"}
    /\ main = "lastwait" => killed
    /\ main = "ending" => exec /\ cause # "none" /\ (child = "up" => killed)
    /\ main = "drain" => ~exec /\ cause = "signal"
    /\ waiter = "sent" \/ cause = "child" => child = "reaped"
    /\ child \in {"exited", "reaped"} => status # "none"
    /\ ~exec => child = "none"
    /\ request = "cut" => main = "exited"

LEMMA ExecInitInv == ExecInit => ExecInv
BY DEF ExecInit, ExecInv, ExecTypeOK, ExecSound, NoStuckApp, StatusHonest

\* Starting, the listener, the requests and the application by itself.
LEMMA ExecRunsStep ==
    ASSUME ExecInv,
           \/ BootFails \/ StartChild \/ StartPlain \/ BuildMux \/ ListenerFails \/ Request
           \/ (\E s \in {"0", "1", "signal"} : ChildExits(s)) \/ TreeExits \/ Signal \/ WaitReturns
    PROVE  ExecInv'
<1>1. CASE BootFails
  BY <1>1 DEF BootFails, Exit, ExecInv, ExecTypeOK, ExecSound, NoStuckApp, StatusHonest
<1>2. CASE StartChild
  BY <1>2 DEF StartChild, Exit, ExecInv, ExecTypeOK, ExecSound, NoStuckApp, StatusHonest
<1>3. CASE StartPlain
  BY <1>3 DEF StartPlain, ExecInv, ExecTypeOK, ExecSound, NoStuckApp, StatusHonest
<1>4. CASE BuildMux
  BY <1>4 DEF BuildMux, ExecInv, ExecTypeOK, ExecSound, NoStuckApp, StatusHonest
<1>5. CASE ListenerFails
  BY <1>5 DEF ListenerFails, ExecInv, ExecTypeOK, ExecSound, NoStuckApp, StatusHonest
<1>6. CASE Request
  BY <1>6 DEF Request, ExecInv, ExecTypeOK, ExecSound, NoStuckApp, StatusHonest
<1>7. ASSUME NEW s \in {"0", "1", "signal"}, ChildExits(s) PROVE ExecInv'
  BY <1>7 DEF ChildExits, ExecInv, ExecTypeOK, ExecSound, NoStuckApp, StatusHonest
<1>8. CASE TreeExits
  <2>1. tree' \in BOOLEAN
    BY <1>8 DEF TreeExits
  <2>2. UNCHANGED <<exec, main, child, status, waiter, listen, store, sigCh, cause, killed, stray, request, code>>
    BY <1>8 DEF TreeExits
  <2> QED
    BY <2>1, <2>2 DEF ExecInv, ExecTypeOK, ExecSound, NoStuckApp, StatusHonest
<1>9. CASE Signal
  BY <1>9 DEF Signal, ExecInv, ExecTypeOK, ExecSound, NoStuckApp, StatusHonest
<1>10. CASE WaitReturns
  BY <1>10 DEF WaitReturns, ExecInv, ExecTypeOK, ExecSound, NoStuckApp, StatusHonest
<1> QED
  BY <1>1, <1>2, <1>3, <1>4, <1>5, <1>6, <1>7, <1>8, <1>9, <1>10

\* The end of the process, by the select's three cases and in plain mode.
LEMMA ExecStopsStep ==
    ASSUME ExecInv,
           \/ TakeChild \/ TakeSignal \/ TakeListener \/ GraceEnds \/ GraceOver \/ ContextEnds \/ ExecEnds
           \/ PlainStops \/ PlainEnds \/ PlainFails
    PROVE  ExecInv'
<1>0. ExecTypeOK
  BY DEF ExecInv
<1>1. CASE TakeChild
  BY <1>1 DEF TakeChild, ExecInv, ExecTypeOK, ExecSound, NoStuckApp, StatusHonest
<1>2. CASE TakeSignal
  <2>1. sigCh' \in BOOLEAN /\ stray' \in BOOLEAN
    BY <1>2 DEF TakeSignal, Shutdown
  <2>2. main = "select" /\ exec /\ main' = "grace" /\ cause' = "signal"
        /\ UNCHANGED <<exec, child, status, tree, waiter, listen, store, killed, request, code>>
    BY <1>2 DEF TakeSignal, Shutdown
  <2> QED
    BY <2>1, <2>2 DEF ExecInv, ExecTypeOK, ExecSound, NoStuckApp, StatusHonest
<1>3. CASE TakeListener
  BY <1>3 DEF TakeListener, Shutdown, ExecInv, ExecTypeOK, ExecSound, NoStuckApp, StatusHonest
<1>4. CASE GraceEnds
  BY <1>4 DEF GraceEnds, ExecInv, ExecTypeOK, ExecSound, NoStuckApp, StatusHonest
<1>5. CASE GraceOver
  BY <1>5 DEF GraceOver, ExecInv, ExecTypeOK, ExecSound, NoStuckApp, StatusHonest
<1>6. CASE ContextEnds
  BY <1>6 DEF ContextEnds, ExecInv, ExecTypeOK, ExecSound, NoStuckApp, StatusHonest
<1>7. CASE ExecEnds
  <2>1. code' \in {"0", "1", "255"} /\ (code' = "0" => cause # "listener" /\ (cause = "child" => status = "0"))
    BY <1>7 DEF ExecEnds, Exit, CodeOf, ExecInv, ExecTypeOK
  <2>2. main' = "exited" /\ store' \in {"closed", "open", "released"} /\ request' \in {"none", "at", "cut"}
    BY <1>7 DEF ExecEnds, Exit, Cut, ExecInv, ExecTypeOK
  <2> QED
    BY <1>7, <2>1, <2>2 DEF ExecEnds, ExecInv, ExecTypeOK, ExecSound, NoStuckApp, StatusHonest
<1>8. CASE PlainStops
  <2>1. main = "select" /\ ~exec /\ main' = "drain" /\ cause' = "signal" /\ sigCh' = FALSE
        /\ UNCHANGED <<exec, child, status, tree, waiter, listen, store, killed, stray, request, code>>
    BY <1>8 DEF PlainStops
  <2>2. ExecTypeOK'
    <3>1. /\ exec' \in BOOLEAN /\ tree' \in BOOLEAN /\ killed' \in BOOLEAN /\ stray' \in BOOLEAN
          /\ sigCh' \in BOOLEAN
      BY Zenon, <1>0, <2>1 DEF ExecTypeOK
    <3>2. \A S : (child \in S => child' \in S) /\ (status \in S => status' \in S)
                 /\ (waiter \in S => waiter' \in S) /\ (listen \in S => listen' \in S)
      BY <2>1
    <3> QED
      BY <1>0, <2>1, <3>1, <3>2 DEF ExecTypeOK
  <2>3. ExecSound'
    BY <2>1 DEF ExecInv, ExecTypeOK, ExecSound, NoStuckApp, StatusHonest
  <2> QED
    BY <2>1, <2>2, <2>3 DEF ExecInv
<1>9. CASE PlainEnds
  <2>1. main = "drain" /\ main' = "exited" /\ code' \in {"0", "1"} /\ store' \in {store, "released"}
        /\ request' \in {request, "cut"} /\ (code' = "0" => request' = request) /\ store' # "open"
        /\ UNCHANGED <<exec, child, status, tree, waiter, listen, sigCh, cause, killed, stray>>
    BY <1>9 DEF PlainEnds, Exit, Cut
  <2>2. ExecTypeOK'
    <3>1. /\ exec' \in BOOLEAN /\ tree' \in BOOLEAN /\ killed' \in BOOLEAN /\ stray' \in BOOLEAN
          /\ sigCh' \in BOOLEAN
      BY Zenon, <1>0, <2>1 DEF ExecTypeOK
    <3>2. \A S : (child \in S => child' \in S) /\ (status \in S => status' \in S)
                 /\ (waiter \in S => waiter' \in S) /\ (listen \in S => listen' \in S)
      BY <2>1
    <3> QED
      BY <1>0, <2>1, <3>1, <3>2 DEF ExecTypeOK
  <2>3. ExecSound'
    BY <2>1 DEF ExecInv, ExecSound, NoStuckApp, StatusHonest
  <2> QED
    BY <2>1, <2>2, <2>3 DEF ExecInv
<1>10. CASE PlainFails
  <2>1. main = "select" /\ ~exec /\ cause' = "listener" /\ main' = "exited" /\ code' = "1"
        /\ store' \in {store, "released"} /\ request' \in {request, "cut"}
        /\ UNCHANGED <<exec, child, status, tree, waiter, listen, sigCh, killed, stray>>
    BY <1>10 DEF PlainFails, Exit, Cut
  <2>2. ExecTypeOK'
    <3>1. /\ exec' \in BOOLEAN /\ tree' \in BOOLEAN /\ killed' \in BOOLEAN /\ stray' \in BOOLEAN
          /\ sigCh' \in BOOLEAN
      BY Zenon, <1>0, <2>1 DEF ExecTypeOK
    <3>2. \A S : (child \in S => child' \in S) /\ (status \in S => status' \in S)
                 /\ (waiter \in S => waiter' \in S) /\ (listen \in S => listen' \in S)
      BY <2>1
    <3> QED
      BY <1>0, <2>1, <3>1, <3>2 DEF ExecTypeOK
  <2>3. ExecSound'
    BY <2>1 DEF ExecInv, ExecSound, NoStuckApp, StatusHonest
  <2> QED
    BY <2>1, <2>2, <2>3 DEF ExecInv
<1> QED
  BY <1>1, <1>2, <1>3, <1>4, <1>5, <1>6, <1>7, <1>8, <1>9, <1>10

LEMMA ExecStep == ExecInv /\ [ExecNext]_execVars => ExecInv'
<1>1. ExecInv /\ UNCHANGED execVars => ExecInv'
  BY DEF execVars, ExecInv, ExecTypeOK, ExecSound, NoStuckApp, StatusHonest
<1> QED
  BY <1>1, ExecRunsStep, ExecStopsStep DEF ExecNext
-----------------------------------------------------------------------------
(* The auth proxy as a whole: what moves is one part, with its own steps.  *)

AuthInv ==
    /\ part \in {"accounts", "forms", "flows", "throttle", "exec"}
    /\ IInv /\ FrontInv /\ ThrottleInv /\ ExecInv

LEMMA AuthInitInv == AuthInit => AuthInv
BY InitOK, FrontInitInv, ThrottleInitInv, ExecInitInv DEF AuthInit, AuthInv

LEMMA AuthParts ==
    [AuthNext]_<<part, accountVars, frontVars, throttleVars, execVars>> =>
        /\ UNCHANGED part /\ [Next]_vars /\ [FrontNext]_frontVars
        /\ [ThrottleNext]_throttleVars /\ [ExecNext]_execVars
BY DEF AuthNext, accountVars

LEMMA AuthStep == AuthInv /\ [AuthNext]_<<part, accountVars, frontVars, throttleVars, execVars>> => AuthInv'
BY AuthParts, Inductive, FrontStep, ThrottleStep, ExecStep DEF AuthInv

\* Every part of the auth proxy stays well-typed, whichever of them moves.
THEOREM AuthIsTyped == AuthSpec => []AuthTypeOK
<1>1. AuthInv => AuthTypeOK
  BY FrontRight, ThrottleRight DEF AuthInv, AuthTypeOK, IInv, ExecInv
<1> QED
  BY AuthInitInv, AuthStep, <1>1, PTL DEF AuthSpec

\* For any number of browsers, apps, flows, clients and attempts, and every age, limit
\* and delay: an app is told only of a user who signed in to it in that browser, no page
\* of another site signs anybody in or out, no client gets more attempts through in a
\* window than the limit, and the application neither outlives its supervisor unnoticed
\* nor is reported a success when it failed.
THEOREM FrontDoorHolds == AuthSpec => []FrontDoor
<1>1. AuthInv => FrontDoor
  BY FrontRight, ThrottleRight DEF AuthInv, FrontDoor, ExecInv
<1> QED
  BY AuthInitInv, AuthStep, <1>1, PTL DEF AuthSpec

\* A behaviour of the whole is a behaviour of each part, so what is proved of the
\* accounts alone holds of the proxy.
THEOREM ProxyHasItsParts == AuthSpec => Spec /\ FrontSpec /\ ThrottleSpec /\ ExecSpec
<1>1. AuthInit => Init /\ FrontInit /\ ThrottleInit /\ ExecInit
  BY DEF AuthInit
<1> QED
  BY <1>1, AuthParts, PTL DEF AuthSpec, Spec, FrontSpec, ThrottleSpec, ExecSpec
==============================================================================
