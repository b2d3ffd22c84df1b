-------------------------- MODULE MCAuthAccounts --------------------------
(***************************************************************************)
(* The auth proxy for TLC: its accounts, the throttle and the signed       *)
(* values in front of them, and the supervisor around the whole.  They     *)
(* share nothing, so a behaviour exercises one and leaves the others.      *)
(***************************************************************************)
EXTENDS AuthAccounts, AuthFront, LoginThrottle, ExecChild, TLC

Perms == Permutations(Email) \cup Permutations(Password) \cup Permutations(Proc)

VARIABLE part

accountVars == vars

AuthInit ==
    /\ part \in {"accounts", "forms", "flows", "throttle", "exec"}
    /\ Init /\ FrontInit /\ ThrottleInit /\ ExecInit
    /\ part # "accounts" => backend = (CHOOSE b \in Backends : TRUE)
    /\ part # "exec" => exec

\* The signed values by how a visitor signs in: with a form, or at a provider.
ByForms == flow' = flow
ByFlows == form' = form

AuthNext ==
    /\ UNCHANGED part
    /\ \/ part = "accounts" /\ Next /\ UNCHANGED <<frontVars, throttleVars, execVars>>
       \/ part = "forms" /\ FrontNext /\ ByForms /\ UNCHANGED <<accountVars, throttleVars, execVars>>
       \/ part = "flows" /\ FrontNext /\ ByFlows /\ UNCHANGED <<accountVars, throttleVars, execVars>>
       \/ part = "throttle" /\ ThrottleNext /\ UNCHANGED <<accountVars, frontVars, execVars>>
       \/ part = "exec" /\ ExecNext /\ UNCHANGED <<accountVars, frontVars, throttleVars>>

AuthSpec ==
    AuthInit /\ [][AuthNext]_<<part, accountVars, frontVars, throttleVars, execVars>>

\* The types of the part that moves.
AuthTypeOK ==
    CASE part = "accounts" -> TypeOK
      [] part \in {"forms", "flows"} -> FrontTypeOK
      [] part = "throttle" -> ThrottleTypeOK
      [] part = "exec" -> ExecTypeOK

\* The front of the proxy: identities are proven, no window of attempts is exceeded, and
\* the application does not outlive its supervisor unnoticed.
FrontDoor ==
    CASE part = "accounts" -> TRUE
      [] part \in {"forms", "flows"} -> FrontSound
      [] part = "throttle" -> WindowKept
      [] part = "exec" -> ExecSound
=============================================================================
