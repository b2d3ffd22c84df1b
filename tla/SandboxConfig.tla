--------------------------- MODULE SandboxConfig ---------------------------
(***************************************************************************)
(* The pure parts of a sandbox's creation in pkg/provisioner: volumes.go,  *)
(* egress.go, resources.go and what config.go reads from the environment,  *)
(* each checked against a definition of what it is for.  Names, addresses  *)
(* and quantities are members of small sets.                               *)
(***************************************************************************)
EXTENDS Naturals, FiniteSets, Sequences, Functions, SequencesExt

LOCAL SeqsUpTo(S, n) == UNION {[1..i -> S] : i \in 0..n}

-----------------------------------------------------------------------------
(* Volumes.  A mount path is canonical ("/a", "/b"), reserved ("/proc") or *)
(* malformed ("a/.."); a volume has the set of its sources.                *)

Sources == {"pvc", "host", "config", "secret", "empty"}
VolumeOf(names, paths, sources) == [name : names, path : paths, src : sources]

\* validateVolume and validateVolumeSource.
VolumeOK(v) == v.name # "" /\ v.path \in {"/a", "/b"} /\ Cardinality(v.src) = 1

\* validateVolumes: each, and no name and no mount path twice.
VolumesOK(vols) ==
    /\ \A i \in DOMAIN vols : VolumeOK(vols[i])
    /\ \A i, j \in DOMAIN vols :
          vols[i].name = vols[j].name \/ vols[i].path = vols[j].path => i = j

\* mergeDefaultVolumes: the defaults that collide with none of the caller's.
MergeDefaults(req, defaults) ==
    req \o SelectSeq(defaults, LAMBDA d :
               \A i \in DOMAIN req : req[i].name # d.name /\ req[i].path # d.path)

\* dockerMountsFromVolumes, the first failure as <<>> and FALSE: Docker has no
\* equivalent of the Kubernetes sources.  Sub-paths and sizes are dropped.
DockerMounts(vols) ==
    LET source(v) == CHOOSE s \in v.src : TRUE
        ok == \A i \in DOMAIN vols : source(vols[i]) \in {"host", "empty"}
    IN  [ok |-> ok, mounts |-> IF ok THEN [i \in DOMAIN vols |->
             [type |-> IF source(vols[i]) = "host" THEN "bind" ELSE "volume",
              target |-> vols[i].path]] ELSE <<>>]

\* buildVolumes, for Kubernetes: a volume and a mount each.
PodVolumes(vols) ==
    [volumes |-> [i \in DOMAIN vols |-> [name |-> vols[i].name, src |-> vols[i].src]],
     mounts  |-> [i \in DOMAIN vols |-> [name |-> vols[i].name, path |-> vols[i].path]]]

\* volumes.go:73: the caller's volumes win and stay as they are; what the caller asked
\* for is refused or accepted whatever the defaults are; no path is mounted twice.
VolumesRight ==
    LET vol == VolumeOf({"", "n", "m"}, {"/a", "/b", "/proc"}, {{}, {"host"}, {"pvc", "host"}})
        default == {d \in VolumeOf({"n", "d"}, {"/a", "/b"}, {{"host"}, {"empty"}}) : TRUE}
    IN  \A req \in SeqsUpTo(vol, 2), defaults \in SeqsUpTo(default, 1) :
          LET all == MergeDefaults(req, defaults) IN
          /\ SubSeq(all, 1, Len(req)) = req
          /\ VolumesOK(all) <=> VolumesOK(req)
          /\ VolumesOK(all) =>
                LET docker == DockerMounts(all) IN
                /\ docker.ok => \A i, j \in DOMAIN docker.mounts :
                      docker.mounts[i].target = docker.mounts[j].target => i = j
                /\ \A i \in DOMAIN all : PodVolumes(all).mounts[i].name = PodVolumes(all).volumes[i].name

-----------------------------------------------------------------------------
(* Egress.  A rule: an address block, ports (none: all) and a protocol     *)
(* ("": both).  A packet: where to, protocol, port, and whether it belongs *)
(* to a connection that exists.                                            *)

Blocks == {"net1", "net2", "any"}
Ports == {22, 53}
Rule == [cidr : Blocks, ports : SUBSET Ports, proto : {"", "tcp", "udp"}]
Packet == [to : {"lo", "net1", "net2"}, proto : {"tcp", "udp", "icmp"}, port : Ports, est : BOOLEAN]

\* EgressPolicy.Validate, for a mode that may be anything.
PolicyOK(mode) == mode \in {"allow", "deny"}

\* A line of the nft chain, as the packets it matches; writeRuleLines: one line, or one
\* for each protocol if there are ports and no protocol.
Covers(cidr, pkt) == cidr = "any" \/ pkt.to = cidr
RuleLines(r) ==
    IF r.ports = {} THEN <<[cidr |-> r.cidr, ports |-> Ports, protos |-> IF r.proto = "" THEN {"tcp", "udp", "icmp"} ELSE {r.proto}]>>
    ELSE LET line(p) == [cidr |-> r.cidr, ports |-> r.ports, protos |-> {p}] IN
         IF r.proto = "" THEN <<line("tcp"), line("udp")>> ELSE <<line(r.proto)>>

\* RenderNFT: established connections, loopback and DNS are accepted, then the rules
\* have their verdict, then the policy of the chain applies.
Accepts(mode, rules, pkt) ==
    LET lines == FlattenSeq([i \in DOMAIN rules |-> RuleLines(rules[i])])
        hit == \E i \in DOMAIN lines : /\ Covers(lines[i].cidr, pkt) /\ pkt.proto \in lines[i].protos
                                       /\ pkt.port \in lines[i].ports
        early == pkt.est \/ pkt.to = "lo" \/ (pkt.port = 53 /\ pkt.proto # "icmp")
    IN  early \/ (IF mode = "deny" THEN hit ELSE ~hit)

\* egress.go:17 and :21: in deny mode only what a rule names gets out, in allow mode all
\* but what a rule names, except for DNS, loopback and answers; the order of the rules
\* and their splitting do not matter.
EgressRight ==
    \A rules \in SeqsUpTo(Rule, 1), pkt \in Packet :
        LET names(r) == /\ Covers(r.cidr, pkt) /\ r.proto \in {"", pkt.proto}
                        /\ r.ports # {} => pkt.port \in r.ports /\ pkt.proto # "icmp"
            named == \E i \in DOMAIN rules : names(rules[i])
            exempt == pkt.est \/ pkt.to = "lo" \/ (pkt.port = 53 /\ pkt.proto \in {"tcp", "udp"})
        IN  /\ Accepts("deny", rules, pkt) <=> exempt \/ named
            /\ Accepts("allow", rules, pkt) <=> exempt \/ ~named

\* applyEgress: a sidecar container in the sandbox's network applies the script and is
\* removed when it exits.  The step that fails decides what is left of it.
SidecarSteps == <<"create", "attach", "start", "write", "drain", "wait", "none">>
Sidecar(failed) ==
    [err |-> failed # "none",
     left |-> CASE failed \in {"none", "create", "attach"} -> "nothing"
                [] failed = "start" -> "created"
                [] OTHER -> "running or gone"]

\* defaultEgressFromEnv: one rule per block with the ports that parse; without blocks
\* there is no rule, and an invalid policy is none at all.
EnvEgress(mode, cidrs, ports, badPorts, proto) ==
    IF ~PolicyOK(mode) THEN [mode |-> "", rules |-> {}]
    ELSE [mode |-> mode, rules |-> {[cidr |-> c, ports |-> ports \ badPorts, proto |-> proto] : c \in cidrs}]

\* A port that does not parse narrows nothing: if every port of the list is bad the rule
\* is for all of them.
EnvPortsNarrow ==
    \A ports \in SUBSET Ports \ {{}}, bad \in SUBSET Ports :
        \A r \in EnvEgress("deny", {"net1"}, ports, bad, "tcp").rules : r.ports # {}

-----------------------------------------------------------------------------
(* Resources, and the runtime's key.                                       *)

Resource == {"cpu", "memory", "storage", "gpu"}

\* buildResourceRequirements: the defaults (none for a GPU), overridden field by field.
Requirements(defaults, user) ==
    [r \in {r \in Resource : user[r] # "" \/ r \in DOMAIN defaults} |->
        IF user[r] # "" THEN user[r] ELSE defaults[r]]

\* resources.go:59: a field left out keeps its default, one that is given has its value.
ResourcesRight ==
    \A user \in [Resource -> {"", "x"}] :
        LET all == Requirements([r \in Resource \ {"gpu"} |-> "default"], user) IN
        \A r \in Resource : /\ user[r] # "" => all[r] = user[r]
                            /\ user[r] = "" /\ r # "gpu" => all[r] = "default"
                            /\ user["gpu"] = "" => "gpu" \notin DOMAIN all

\* EnsureRuntimeAPIKey: what is configured, else the key file's, else a new key once it
\* is on the disk; otherwise none, and the runtimes ask for none.
RuntimeKey(configured, dir, file, persisted) ==
    CASE configured # "" -> configured
      [] ~dir -> ""
      [] file # "" -> file
      [] persisted -> "new"
      [] OTHER -> ""

\* config.go:300: a key that is in use survives a restart, on the same disk.
KeySurvives ==
    \A configured, file \in {"", "k"}, dir, persisted, again \in BOOLEAN :
        LET first == RuntimeKey(configured, dir, file, persisted)
            disk == IF first = "new" THEN "new" ELSE file
        IN  first # "" => RuntimeKey(configured, dir, disk, again) = first

ASSUME SandboxConfigRight == VolumesRight /\ EgressRight /\ ResourcesRight /\ KeySurvives
=============================================================================
