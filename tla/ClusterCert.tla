----------------------------- MODULE ClusterCert -----------------------------
(***************************************************************************)
(* The provisioner's mTLS bundle (pkg/provisioner/cert_bootstrap.go): the  *)
(* files cluster.crt and cluster.key, the tls.Config built from them, and  *)
(* the three tasks that enroll: the boot sequence of Provisioner.Run, the  *)
(* daily renewer, and the self-heal callback of the broker client.  Each   *)
(* file is replaced atomically, the bundle as a whole is not; the process  *)
(* may crash between any two writes and boots again from what is on disk.  *)
(***************************************************************************)
EXTENDS Naturals

CONSTANTS
    Lifetime,   \* days a certificate is valid
    Threshold,  \* RenewalThreshold, in days
    Horizon,    \* bound: days simulated
    MaxCA,      \* bound: times the CA is rotated
    MaxEnroll,  \* bound: certificates issued
    MaxMishaps,  \* bound: crashes, failed writes and lost replies
    NoCert

\* A certificate names the key pair it was issued for by its serial.
Cert == [serial : Nat, ca : Nat, notAfter : Nat]
Pair == [crt : Cert, key : Nat \cup {NoCert}]

ASSUME CertConstants ==
    /\ Lifetime \in Nat /\ Threshold \in Nat /\ Horizon \in Nat
    /\ MaxCA \in Nat /\ MaxEnroll \in Nat \ {0}
    /\ MaxMishaps \in Nat
    /\ NoCert \notin Nat \cup Pair

VARIABLES
    now,        \* the day
    ca,         \* the CA the bridge trusts today
    token,      \* AGENTRY_ENROLL_TOKEN as the control plane sees it
    issued,     \* certificates issued so far; also names key pairs
    crt, key,   \* cluster.crt and cluster.key on disk
    conf,       \* the key pair of the live tls.Config
    pc,         \* what each task is doing
    held,       \* the certificate and key each task has in hand
    ticked,     \* has today's tick of the renewer fired?
    mishaps     \* mishaps so far

disk == <<crt, key>>
world == <<now, ca, token, issued>>
certVars == <<now, ca, token, issued, crt, key, conf, pc, held, ticked, mishaps>>

Task == {"boot", "renewer", "healer"}
Stage == {"off", "idle", "bootstrap", "post", "writeCert", "writeKey",
          "loadCert", "loadKey", "swap", "redial"}

CertTypeOK ==
    /\ now \in 0..Horizon /\ ca \in 0..MaxCA /\ issued \in 0..MaxEnroll
    /\ token \in {"fresh", "consumed"}
    /\ crt \in Cert \cup {NoCert} /\ key \in Nat \cup {NoCert}
    /\ conf \in Pair \cup {NoCert}
    /\ pc \in [Task -> Stage] /\ held \in [Task -> Pair \cup {NoCert}]
    /\ ticked \in BOOLEAN /\ mishaps \in 0..MaxMishaps
    /\ \A t \in Task : pc[t] \in {"writeCert", "writeKey", "loadKey", "swap"} => held[t] # NoCert
    /\ pc["boot"] = "idle" => conf # NoCert

Running == pc["boot"] # "off"

\* A new machine, or one whose volume holds the bundle of an earlier life.
CertInit ==
    /\ now = 0 /\ ca = 0 /\ token = "fresh" /\ issued \in {0, 1}
    /\ crt = IF issued = 0 THEN NoCert ELSE [serial |-> 1, ca |-> 0, notAfter |-> Lifetime]
    /\ key = IF issued = 0 THEN NoCert ELSE 1
    /\ conf = NoCert
    /\ pc = [t \in Task |-> "off"] /\ held = [t \in Task |-> NoCert]
    /\ ticked = TRUE /\ mishaps = 0

\* Something goes wrong; the last simulated day is free of mishaps, so that a
\* retry on the next day is always part of the behaviour.
Mishap == mishaps < MaxMishaps /\ now < Horizon /\ mishaps' = mishaps + 1

\* loadCertIfValid: the file parses and has not expired.
loadCertIfValid == crt # NoCert /\ now <= crt.notAfter

\* The process is gone: its memory with it.
Exit ==
    /\ pc' = [t \in Task |-> "off"] /\ held' = [t \in Task |-> NoCert]
    /\ conf' = NoCert
    /\ UNCHANGED ticked

\* A task gives up: log.Fatalf while booting, a log line otherwise (the
\* renewer tries again tomorrow, the broker client at its next rejection).
Fail(t) ==
    IF t = "boot" THEN Exit
    ELSE /\ pc' = [pc EXCEPT ![t] = "idle"] /\ held' = [held EXCEPT ![t] = NoCert]
         /\ UNCHANGED <<conf, ticked>>

Goto(t, stage, pair) ==
    /\ pc' = [pc EXCEPT ![t] = stage] /\ held' = [held EXCEPT ![t] = pair]
    /\ UNCHANGED <<conf, ticked>>

-----------------------------------------------------------------------------
(* Enrolling.                                                              *)

\* Provisioner.Run starts the boot task, with the token of its environment.
Run ==
    /\ ~Running
    /\ pc' = [pc EXCEPT !["boot"] = "bootstrap"]
    /\ token' \in {token} \cup (IF issued < MaxEnroll THEN {"fresh"} ELSE {})
    /\ ticked' = TRUE
    /\ UNCHANGED <<now, ca, issued, disk, conf, held, mishaps>>

\* BootstrapClusterCert: an unexpired certificate on disk is reused.
BootstrapClusterCert(t) ==
    /\ pc[t] = "bootstrap"
    /\ Goto(t, IF loadCertIfValid THEN "loadCert" ELSE "post", NoCert)
    /\ UNCHANGED <<world, disk, mishaps>>

\* postEnroll with a fresh key pair and its CSR: the control plane spends the
\* token and signs with the current CA, or refuses.
postEnroll(t) ==
    /\ pc[t] = "post"
    /\ \/ /\ token = "fresh" /\ issued < MaxEnroll
          /\ token' = "consumed" /\ issued' = issued + 1
          /\ \/ /\ Goto(t, "writeCert",
                        [crt |-> [serial |-> issued + 1, ca |-> ca, notAfter |-> now + Lifetime],
                         key |-> issued + 1])
                /\ UNCHANGED mishaps
             \/ Mishap /\ Fail(t)
       \/ /\ \/ token = "consumed" /\ UNCHANGED mishaps
             \/ Mishap
          /\ Fail(t)
          /\ UNCHANGED <<token, issued>>
    /\ UNCHANGED <<now, ca, disk>>

\* enrollAndPersist: the certificate is replaced first, then the key (ca.crt
\* and bridge_url.txt follow; nothing below depends on them).
writeCert(t) ==
    /\ pc[t] = "writeCert"
    /\ \/ crt' = held[t].crt /\ Goto(t, "writeKey", held[t]) /\ UNCHANGED mishaps
       \/ Mishap /\ Fail(t) /\ UNCHANGED crt
    /\ UNCHANGED <<world, key>>

writeKey(t) ==
    /\ pc[t] = "writeKey"
    /\ \/ key' = held[t].key /\ Goto(t, "loadCert", NoCert) /\ UNCHANGED mishaps
       \/ Mishap /\ Fail(t) /\ UNCHANGED key
    /\ UNCHANGED <<world, crt>>

\* BuildClusterTLSConfig: LoadX509KeyPair reads both files and refuses a pair
\* that does not belong together.
loadCert(t) ==
    /\ pc[t] = "loadCert"
    /\ IF crt = NoCert THEN Fail(t) ELSE Goto(t, "loadKey", [crt |-> crt, key |-> NoCert])
    /\ UNCHANGED <<world, disk, mishaps>>

\* MUTANT: the key file is taken as it is.
loadKey_Unchecked(t) ==
    /\ pc[t] = "loadKey"
    /\ Goto(t, "swap", [held[t] EXCEPT !.key = key])
    /\ UNCHANGED <<world, disk, mishaps>>

loadKey(t) ==
    /\ pc[t] = "loadKey"
    /\ IF key = held[t].crt.serial THEN Goto(t, "swap", [held[t] EXCEPT !.key = key])
       ELSE Fail(t)
    /\ UNCHANGED <<world, disk, mishaps>>

\* The certificate goes into the shared tls.Config.  Booting ends by starting
\* the renewer and the broker client; the healed client dials again at once.
swap(t) ==
    /\ pc[t] = "swap"
    /\ conf' = held[t]
    /\ held' = [held EXCEPT ![t] = NoCert]
    /\ pc' = IF t = "boot" THEN [u \in Task |-> "idle"]
             ELSE [pc EXCEPT ![t] = IF t = "healer" THEN "redial" ELSE "idle"]
    /\ UNCHANGED <<world, disk, ticked, mishaps>>

-----------------------------------------------------------------------------
(* Who enrolls when.                                                       *)

\* RunCertRenewer, once a day: inside the threshold (or with no readable
\* certificate) it calls BootstrapClusterCert.
RunCertRenewer ==
    /\ pc["renewer"] = "idle" /\ ~ticked
    /\ ticked' = TRUE
    /\ pc' = [pc EXCEPT !["renewer"] =
                IF loadCertIfValid /\ crt.notAfter - now > Threshold THEN "idle" ELSE "bootstrap"]
    /\ UNCHANGED <<world, disk, conf, held, mishaps>>

\* MUTANT: self-heal goes through BootstrapClusterCert.
ReenrollClusterCert_FastPath ==
    /\ pc["healer"] = "idle"
    /\ conf # NoCert /\ conf.crt.ca # ca
    /\ Goto("healer", "bootstrap", NoCert)
    /\ UNCHANGED <<world, disk, mishaps>>

\* The broker client's second consecutive certificate rejection: the bridge
\* no longer trusts the CA that signed ours.  ReenrollClusterCert skips the
\* fast path.
ReenrollClusterCert ==
    /\ pc["healer"] = "idle"
    /\ conf # NoCert /\ conf.crt.ca # ca
    /\ Goto("healer", "post", NoCert)
    /\ UNCHANGED <<world, disk, mishaps>>

\* `continue' in BrokerClient.Run: the next dial.
redial ==
    /\ pc["healer"] = "redial"
    /\ Goto("healer", "idle", NoCert)
    /\ UNCHANGED <<world, disk, mishaps>>

\* The environment: days pass (an enrollment takes seconds, a tick is not
\* missed while the process runs), the CA is rotated, the process crashes.
Day ==
    /\ now < Horizon
    /\ Running => ticked /\ \A t \in Task : pc[t] \in {"idle", "redial"}
    /\ now' = now + 1 /\ ticked' = FALSE
    /\ UNCHANGED <<ca, token, issued, disk, conf, pc, held, mishaps>>
RotateCA ==
    /\ ca < MaxCA /\ ca' = ca + 1
    /\ UNCHANGED <<now, token, issued, disk, conf, pc, held, ticked, mishaps>>
Crash ==
    /\ Running /\ Mishap /\ Exit
    /\ UNCHANGED <<world, disk>>

Enroll(t) ==
    BootstrapClusterCert(t) \/ postEnroll(t) \/ writeCert(t) \/ writeKey(t)
        \/ loadCert(t) \/ loadKey(t) \/ swap(t)

CertNext ==
    \/ Run \/ Crash \/ Day \/ RotateCA
    \/ \E t \in Task : Enroll(t)
    \/ RunCertRenewer \/ ReenrollClusterCert \/ redial

CertSpec == CertInit /\ [][CertNext]_certVars

-----------------------------------------------------------------------------
(* Properties.                                                             *)

\* A certificate is only ever presented with the key it was issued for,
\* whatever mixture of old and new files a crash or a failed write left.
PairInUse == conf # NoCert => conf.key = conf.crt.serial

\* What makes PairInUse inductive: a pair about to be swapped in was checked.
CheckedPair == \A t \in Task : pc[t] = "swap" => held[t].key = held[t].crt.serial
CertIInv == CertTypeOK /\ PairInUse /\ CheckedPair

\* An expired certificate does not stay in use while the token is good: it is
\* replaced, unless the attempt spends the token (RunCertRenewer treats an
\* unreadable or expired file as a reason to enroll).
HealsAfterExpiry ==
    (conf # NoCert /\ now > conf.crt.notAfter /\ token = "fresh")
        ~> (token = "consumed" \/ (conf # NoCert /\ now <= conf.crt.notAfter))

\* A provisioner whose CA was rotated away while its token is good ends up
\* with a certificate of the current CA, whatever fails on the way, unless the
\* reply that spent the token was lost (BrokerClient.Run's re-enroll).
StaleCAHealed ==
    (conf # NoCert /\ conf.crt.ca # ca /\ token = "fresh")
        ~> ((token = "consumed" /\ mishaps > 0) \/ (conf # NoCert /\ conf.crt.ca = ca))

\* A provisioner whose certificate has expired, or is of a CA the bridge no longer
\* trusts, gets a good one without an operator while its token is good.
CertHeals == HealsAfterExpiry /\ StaleCAHealed

\* "atomically persist the returned cert/key/CA/bridge-url": at rest, the
\* certificate on disk has its key beside it.
BundleAtomic == ~Running /\ crt # NoCert => key = crt.serial

\* "whenever the on-disk cert is within RenewalThreshold of NotAfter, it
\* re-enrolls": a provisioner that kept running with a usable token never
\* presents an expired certificate.
NeverExpires == token = "fresh" /\ conf # NoCert => now <= conf.crt.notAfter

\* "re-enroll and hot-swap the cert [...] so the next dial presents the fresh
\* cert": when the healed client dials, the newest certificate is in place.
FreshCertPresented == pc["healer"] = "redial" => conf.crt.serial = issued
=============================================================================
