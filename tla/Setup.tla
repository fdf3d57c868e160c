-------------------------------- MODULE Setup --------------------------------
(***************************************************************************)
(* The `setup` command (src/src/main.rs, commands/setup.rs) and the         *)
(* cluster builder and providers under it (src/src/cluster): it makes or    *)
(* loads a host cluster, gives it a network, puts a sandboxed runtime on    *)
(* its node when one is asked for, and then makes the two tenants one after *)
(* the other, each by the control-plane steps of its solution followed by   *)
(* the data-plane strategies of the technologies selected.                  *)
(*                                                                          *)
(* Nothing is rolled back: a command that fails, or whose process is        *)
(* killed, leaves what it made, and the next command of the campaign finds  *)
(* it.  What the model keeps of an object is whether it is there, because   *)
(* that is what decides whether a later `create` is refused, and whether an *)
(* `apply`, a `helm install` or an existence check takes it as it is.       *)
(*                                                                          *)
(* A request that fails, a wait that runs out and a killed process are      *)
(* mishaps, at most Mishaps of them in a campaign.  Node ports taken by     *)
(* another solution's service count among the requests that fail.           *)
(***************************************************************************)
EXTENDS Integers, Sequences, FiniteSets, SequencesExt

CONSTANTS
  Campaigns,   \* sequences of commands an operator runs one after another
  Mishaps      \* bound on failing requests and killed processes

Tenant == {"tenant1", "tenant2"}
Kind == {"native", "capsule", "proxy", "vcluster", "kubevirt", "kubezoo",
         "kamaji"}
Technology == {"network-policy", "kubeovn", "kubeovn-subnet", "kubeovn-vpc",
               "scoped-dns", "gvisor", "kata", "storage-classes"}
Runtime == {"gvisor", "kata"}
Port == {"default", "custom"}

\* One command line.  `existing`: a kubeconfig of the cluster was passed;
\* `ports`: the tenants' port mapping; `wipe`: the operator deleted the
\* cluster before running it.
Command == [provider : {"kind", "k3s", "none"}, kind : Kind,
            data : Seq(Technology), existing : BOOLEAN, ports : Port,
            wipe : BOOLEAN]

\* A campaign is about one cluster: one that begins on the operator's own makes
\* no other, and one that makes its own may go on with it either way.
OneCluster(commands) ==
  commands[1].provider = "none" =>
    \A i \in DOMAIN commands : commands[i].provider # "kind"

ASSUME CampaignsAssumption ==
  \A c \in Campaigns :
    c # <<>> /\ c \in Seq(Command) /\ OneCluster(c)
ASSUME MishapsAssumption == Mishaps \in Nat

VARIABLES
  campaign,   \* the commands still to run; the first is the running one
  pc,         \* where the running command is
  who,        \* the tenant being made
  step,       \* the builder's step for it, an index of Plan
  found,      \* tenants this command took as they were
  outcome,    \* how the last command ended
  troubled,   \* a mishap happened to the running command
  mishaps,    \* mishaps so far
  cluster,    \* the host cluster
  network,    \* the CNIs applied to it, and whether its nodes are Ready
  releases,   \* the host-wide Helm releases
  webhooks,   \* Capsule's admission webhooks are registered
  cache,      \* what is kept of each runtime on the operator's machine
  node,       \* what of each runtime is on the cluster's node
  torn,       \* runtimes one of whose downloads or unpackings was cut short
  tenant      \* what there is of each tenant

control == <<campaign, pc, who, step, found, outcome, troubled, mishaps>>
hostwide == <<cluster, network, releases, webhooks>>
runtimes == <<cache, node, torn>>
world == <<hostwide, runtimes, tenant>>
vars == <<control, world>>

cmd == Head(campaign)

------------------------------------------------------------------------------
(* What a command line selects.                                            *)

\* DataPlaneTechnology and the loop of get_or_create_tenant_cluster: the
\* strategies one technology adds, in the order the builder is given them.
Strategy == {"deny", "allow", "subnet", "vpc", "vpcsubnet", "dns", "classes",
             "admission"}
Strategies(technology) ==
  IF technology \in {"network-policy", "kubeovn"} THEN <<"deny", "allow">>
  ELSE IF technology = "kubeovn-subnet" THEN <<"subnet">>
  ELSE IF technology = "kubeovn-vpc" THEN <<"vpc", "vpcsubnet">>
  ELSE IF technology = "scoped-dns" THEN <<"dns">>
  ELSE IF technology = "storage-classes" THEN <<"classes", "admission">>
  ELSE <<>>

DataPlane(command) ==
  FlattenSeq([i \in DOMAIN command.data |-> Strategies(command.data[i])])

\* SolutionUnderTest::cni and sandbox_runtime.
Cni(command) ==
  IF ToSet(command.data) \cap {"kubeovn", "kubeovn-subnet", "kubeovn-vpc"} # {}
  THEN "kubeovn" ELSE "calico"

\* Of the latter, the places of the command line that name a runtime.
Sandboxes(command) ==
  {i \in DOMAIN command.data : command.data[i] \in Runtime}
Runtimes(command) == {command.data[i] : i \in Sandboxes(command)}

\* The steps of each deploy_* function, in order.  "space" creates the
\* tenant's namespace on the host, "inner" the one the tenant works in.
Native == <<"space", "config">>
Capsule == <<"capsule", "webhooks", "declare", "config", "inner">>
Proxy(command) ==
  IF command.provider = "kind"
  THEN <<"capsule", "proxy", "webhooks", "declare", "config", "adjust", "inner">>
  ELSE <<"capsule", "proxy", "webhooks", "declare", "config", "inner">>
VCluster ==
  <<"release", "pod", "running", "config", "service", "adjust", "inner">>
KubeVirt == <<"kubevirt", "machine", "inner">>
KubeZoo == <<"kubezoo", "member", "inner">>
Kamaji ==
  <<"kamaji", "space", "request", "config", "adjust", "inner">>

ControlPlane(command) ==
  [native |-> Native, capsule |-> Capsule, proxy |-> Proxy(command),
   vcluster |-> VCluster, kubevirt |-> KubeVirt, kubezoo |-> KubeZoo,
   kamaji |-> Kamaji][command.kind]

\* Mutant of Plan: the data plane is applied first.
DataPlaneFirst(command) == DataPlane(command) \o ControlPlane(command)
\* KubernetesClusterBuilder::build: control plane first, then data plane.
Plan(command) == ControlPlane(command) \o DataPlane(command)

\* The port mapping the command works with: HostCluster::load knows only the
\* default one, whatever the cluster was created with.
Mapping(command) == IF command.existing THEN "default" ELSE command.ports

------------------------------------------------------------------------------
NoCluster == [by |-> "nobody", ports |-> "default", patched |-> {}]
NoConfig == [by |-> "nobody", adjusted |-> FALSE, ports |-> "default"]
Blank == [spaces |-> {}, release |-> "none", pod |-> "none",
          declared |-> FALSE, config |-> NoConfig, service |-> FALSE,
          data |-> {}]
Absent == [archive |-> "none", tree |-> "none"]

\* A cluster of the operator's own is there from the start, with a network
\* that works, or there is none.
Init ==
  /\ campaign \in Campaigns
  /\ pc = "idle" /\ who = "tenant1" /\ step = 1
  /\ found = {} /\ outcome = "none" /\ troubled = FALSE /\ mishaps = 0
  /\ \/ cluster = NoCluster /\ network = [applied |-> {}, settled |-> FALSE]
     \/ /\ cmd.provider = "none"
        /\ cluster = [NoCluster EXCEPT !.by = "other"]
        /\ network = [applied |-> {"other"}, settled |-> TRUE]
  /\ releases = [r \in {"kubeovn", "capsule", "proxy", "kamaji"} |-> "none"]
  /\ webhooks = FALSE
  /\ cache = [r \in Runtime |-> Absent]
  /\ node = [r \in Runtime |-> [files |-> "none", class |-> FALSE]]
  /\ torn = {}
  /\ tenant = [t \in Tenant |-> Blank]

\* commands::setup::run starts; a deleted cluster takes everything in it
\* along, and a kubeconfig of it answers no more than a missing one.
Start ==
  /\ pc = "idle" /\ campaign # <<>>
  /\ pc' = "cluster" /\ who' = "tenant1" /\ step' = 1
  /\ found' = {} /\ outcome' = "none" /\ troubled' = FALSE
  /\ IF cmd.wipe
     THEN /\ cluster' = NoCluster
          /\ network' = [applied |-> {}, settled |-> FALSE]
          /\ releases' = [r \in DOMAIN releases |-> "none"]
          /\ webhooks' = FALSE
          /\ node' = [r \in Runtime |-> [files |-> "none", class |-> FALSE]]
          /\ tenant' = [t \in Tenant |-> Blank]
     ELSE UNCHANGED <<hostwide, node, tenant>>
  /\ UNCHANGED <<campaign, mishaps, cache, torn>>

End(how) ==
  /\ pc' = "idle" /\ outcome' = how /\ campaign' = Tail(campaign)
  /\ UNCHANGED <<who, step, found>>

GoTo(place) ==
  /\ pc' = place
  /\ UNCHANGED <<campaign, who, step, found, outcome, troubled, mishaps>>

\* get_or_create_tenant_cluster returned: the other tenant, or the last check.
NextTenant ==
  /\ IF who = "tenant1"
     THEN pc' = "look" /\ who' = "tenant2" ELSE pc' = "ready" /\ who' = who
  /\ step' = 1
  /\ UNCHANGED <<campaign, outcome, troubled, mishaps>>

------------------------------------------------------------------------------
(* The host cluster, its network and its sandboxed runtime.                 *)

\* setup_test_environment and the three providers: k3s refuses every
\* profile, kind refuses a name that exists and cannot load one that does
\* not, a pre-existing cluster must answer either way.
ClusterRefused ==
  \/ cmd.provider = "k3s"
  \/ cmd.provider = "kind" /\ cmd.existing /\ cluster.by # "kind"
  \/ cmd.provider = "kind" /\ ~cmd.existing /\ cluster.by = "kind"
  \/ cmd.provider = "none" /\ cluster.by = "nobody"

\* Mutant of MakeCluster: every technology brings a containerd patch.
PatchForAll ==
  /\ cluster' = IF cmd.provider = "kind" /\ ~cmd.existing
                THEN [by |-> "kind", ports |-> cmd.ports,
                      patched |-> ToSet(cmd.data)]
                ELSE cluster
  /\ UNCHANGED <<network, releases, webhooks, runtimes, tenant>>
MakeCluster ==
  /\ cluster' = IF cmd.provider = "kind" /\ ~cmd.existing
                THEN [by |-> "kind", ports |-> cmd.ports,
                      patched |-> Runtimes(cmd)]
                ELSE cluster
  /\ UNCHANGED <<network, releases, webhooks, runtimes, tenant>>

\* install_calico applies a manifest; install_kube_ovn runs `helm install`,
\* which refuses a name in use, and then is up.
CniRefused == Cni(cmd) = "kubeovn" /\ releases["kubeovn"] # "none"

ApplyCni ==
  /\ network' = [network EXCEPT !.applied = @ \cup {Cni(cmd)}]
  /\ releases' = IF Cni(cmd) = "kubeovn"
                 THEN [releases EXCEPT !["kubeovn"] = "up"] ELSE releases
  /\ UNCHANGED <<cluster, webhooks, runtimes, tenant>>

\* install_sandbox_runtime knows only kind; sandbox_runtime allows only one.
RuntimeRefused ==
  (\E i, j \in Sandboxes(cmd) : i # j) \/ cmd.provider # "kind"

\* The only one there is, by the time one is installed.
sandbox == CHOOSE r \in Runtimes(cmd) : TRUE

\* download_if_absent: whatever is there is taken for the file.
Download ==
  /\ cache' = IF cache[sandbox].archive = "none"
              THEN [cache EXCEPT ![sandbox].archive = "whole"] ELSE cache
  /\ UNCHANGED <<node, torn, hostwide, tenant>>

\* Only Kata is an archive to unpack; a directory that exists is taken for
\* the tree.  tar fails on an archive that was cut short.
NothingToUnpack == sandbox = "gvisor" \/ cache[sandbox].tree # "none"
UnpackRefused == ~NothingToUnpack /\ cache[sandbox].archive = "part"

Unpack ==
  /\ cache' = IF NothingToUnpack THEN cache
              ELSE [cache EXCEPT ![sandbox].tree = "whole"]
  /\ UNCHANGED <<node, torn, hostwide, tenant>>

\* docker cp of the files that run, then the RuntimeClass.
Copy ==
  /\ node' = [node EXCEPT ![sandbox].files =
                IF sandbox = "gvisor" THEN cache[sandbox].archive
                ELSE cache[sandbox].tree]
  /\ UNCHANGED <<cache, torn, hostwide, tenant>>

Publish ==
  /\ node' = [node EXCEPT ![sandbox].class = TRUE]
  /\ UNCHANGED <<cache, torn, hostwide, tenant>>

------------------------------------------------------------------------------
(* One tenant.                                                             *)

\* A tenant's configuration reaches its API: directly, or through a node
\* port that the cluster maps where the configuration expects it.
Reached(t) ==
  LET c == tenant[t].config IN
  \/ c.by \in {"native", "capsule"}
  \/ c.by = "proxy" /\ ~c.adjusted
  \/ c.adjusted /\ (cluster.by = "kind" => c.ports = cluster.ports)

\* The check of get_or_create_tenant_cluster: the kubeconfig answers and
\* lists the pods of all namespaces, which no Capsule tenant may do.
Healthy(t) ==
  Reached(t) /\ tenant[t].config.by \notin {"capsule", "proxy"}

Inner(kind) == IF kind \in {"capsule", "proxy"} THEN "host" ELSE kind

\* Mutant of Awaited: `helm --wait` is taken to cover the webhooks.
HelmAwaited(t, s) ==
  /\ s = "running" => tenant[t].pod = "running"
  /\ s \in {"capsule", "kamaji", "kubevirt", "kubezoo"} => network.settled
\* What a step needs that may come later, and is waited for.
Awaited(t, s) ==
  /\ s = "webhooks" => webhooks
  /\ s = "running" => tenant[t].pod = "running"
  /\ s \in {"capsule", "kamaji", "kubevirt", "kubezoo"} => network.settled

\* What makes the cluster refuse a step: a `create` of what is there, a Helm
\* release an earlier command was killed over, a namespace or an API version
\* that is not there, a configuration that reaches nothing.
Obstacle(t, s) ==
  LET it == tenant[t] IN
  \/ s = "space" /\ "host" \in it.spaces
  \/ s = "inner" /\ (Inner(cmd.kind) \in it.spaces \/ ~Reached(t))
  \/ /\ s \in {"kubezoo", "machine"}
     /\ cluster.by = "kind" /\ Mapping(cmd) # cluster.ports
  \/ s = "service" /\ it.service
  \/ s \in {"deny", "allow"} /\ s \in it.data
  \/ s \in {"deny", "allow", "dns"} /\ "host" \notin it.spaces
  \/ s = "admission" /\ cmd.kind = "kubezoo"
  \/ s \in DOMAIN releases /\ releases[s] = "pending"
  \/ s = "release" /\ it.release = "pending"

\* What each step leaves in the tenant's part of the world.
After(it, s) ==
  [it EXCEPT
     !.spaces = @ \cup
       (IF s \in {"space", "release", "machine"} THEN {"host"}
        ELSE IF s = "inner" THEN {Inner(cmd.kind)} ELSE {}),
     !.release = IF s = "release" THEN "up" ELSE @,
     !.declared = @ \/ s = "declare",
     !.config = IF s = "config"
                THEN [by |-> cmd.kind, adjusted |-> FALSE, ports |-> "default"]
                ELSE IF s \in {"adjust", "member", "machine"}
                THEN [by |-> cmd.kind, adjusted |-> TRUE,
                      ports |-> Mapping(cmd)]
                ELSE @,
     !.service = @ \/ s = "service",
     !.data = @ \cup ({s} \cap Strategy)]

\* install_capsule, install_capsule_proxy, install_kamaji: a release that
\* `helm list` names, a failed one too, is taken for an installed one.
Build(t, s) ==
  /\ tenant' = [tenant EXCEPT ![t] = After(@, s)]
  /\ releases' = IF s \in DOMAIN releases /\ releases[s] = "none"
                 THEN [releases EXCEPT ![s] = "up"] ELSE releases
  /\ UNCHANGED <<cluster, network, webhooks, runtimes>>

current == Plan(cmd)[step]

------------------------------------------------------------------------------
(* The command's run.  What a step needs that comes later is waited for;   *)
(* the waits' deadlines are mishaps.                                       *)

EnsureCluster ==
  /\ pc = "cluster" /\ ~ClusterRefused /\ MakeCluster /\ GoTo("cni")

InstallCni ==
  /\ pc = "cni" /\ ~CniRefused /\ ApplyCni /\ GoTo("nodes")

\* `kubectl wait` for the nodes, before anything that runs as a pod.
WaitForNodes ==
  /\ pc = "nodes" /\ network.settled
  /\ GoTo(IF Sandboxes(cmd) = {} THEN "look" ELSE "download")
  /\ UNCHANGED world

InstallRuntime ==
  \/ pc = "download" /\ ~RuntimeRefused /\ Download /\ GoTo("unpack")
  \/ pc = "unpack" /\ ~UnpackRefused /\ Unpack /\ GoTo("copy")
  \/ pc = "copy" /\ Copy /\ GoTo("publish")
  \/ pc = "publish" /\ Publish /\ GoTo("look")

\* A healthy tenant is taken as it is, whatever made it.
TakeTenant ==
  /\ pc = "look" /\ Healthy(who)
  /\ found' = found \cup {who}
  /\ NextTenant
  /\ UNCHANGED world

MakeTenant ==
  /\ pc = "look" /\ ~Healthy(who)
  /\ GoTo("build")
  /\ UNCHANGED world

TakeStep ==
  /\ pc = "build" /\ step <= Len(Plan(cmd)) /\ current # "pod"
  /\ ~Obstacle(who, current) /\ Awaited(who, current)
  /\ Build(who, current)
  /\ step' = step + 1
  /\ UNCHANGED <<campaign, pc, who, found, outcome, troubled, mishaps>>

FinishTenant ==
  /\ pc = "build" /\ step > Len(Plan(cmd))
  /\ NextTenant
  /\ UNCHANGED <<found, world>>

\* deploy_vcluster looks for its pod in the tenant's namespace once, and
\* when it is not there yet polls in every namespace.
FindPod ==
  /\ pc = "build" /\ step <= Len(Plan(cmd)) /\ current = "pod"
  /\ IF tenant[who].pod = "none"
     THEN pc' = "poll" /\ step' = step ELSE pc' = pc /\ step' = step + 1
  /\ UNCHANGED <<campaign, who, found, outcome, troubled, mishaps, world>>

\* The first pod of the list, the namespaces in their order.
FirstPod ==
  IF tenant["tenant1"].pod # "none" THEN "tenant1" ELSE "tenant2"

PollPod ==
  /\ pc = "poll" /\ tenant[who].pod # "none" /\ FirstPod = who
  /\ pc' = "build" /\ step' = step + 1
  /\ UNCHANGED <<campaign, who, found, outcome, troubled, mishaps, world>>

Complete ==
  /\ pc = "ready" /\ End("complete")
  /\ UNCHANGED <<troubled, mishaps, world>>

\* The command returns the error of what refused it, with no mishap at all.
Fail ==
  /\ \/ pc = "cluster" /\ ClusterRefused
     \/ pc = "cni" /\ CniRefused
     \/ pc = "download" /\ RuntimeRefused
     \/ pc = "build" /\ step <= Len(Plan(cmd)) /\ Obstacle(who, current)
     \/ pc = "poll" /\ tenant[FirstPod].pod # "none" /\ FirstPod # who
  /\ End("failed")
  /\ UNCHANGED <<troubled, mishaps, world>>

\* tar gives up over an archive cut short: the tree may be there in part.
FailUnpacking ==
  /\ pc = "unpack" /\ ~RuntimeRefused /\ UnpackRefused
  /\ End("failed")
  /\ \E left \in {"none", "part"} :
       cache' = [cache EXCEPT ![sandbox].tree = left]
  /\ torn' = torn \cup {sandbox}
  /\ UNCHANGED <<troubled, mishaps, node, hostwide, tenant>>

------------------------------------------------------------------------------
(* Mishaps: the request of the moment fails, or the process is killed over  *)
(* it; either way it may have had its effect, or a part of it.              *)

\* The effect of the request of the moment.
Effect ==
  \/ pc = "cluster" /\ ~ClusterRefused /\ MakeCluster
  \/ pc = "cni" /\ ~CniRefused /\ ApplyCni
  \/ pc = "copy" /\ Copy
  \/ pc = "publish" /\ Publish
  \/ /\ pc = "build" /\ step <= Len(Plan(cmd)) /\ current # "pod"
     /\ ~Obstacle(who, current) /\ Awaited(who, current)
     /\ Build(who, current)

\* Mutant of Kept: a failed download stays where it is.
KeptInPart(how) == "part"
\* What download_if_absent keeps of a file when curl did not succeed: a
\* failed download is removed, a killed program removes nothing.
Kept(how) == IF how = "failed" THEN "none" ELSE "part"

\* The part of the effect that stays when it was cut short.
HalfDownload(how) ==
  /\ pc = "download" /\ ~RuntimeRefused /\ cache[sandbox].archive = "none"
  /\ cache' = [cache EXCEPT ![sandbox].archive = Kept(how)]
  /\ torn' = IF how = "killed" THEN torn \cup {sandbox} ELSE torn
  /\ UNCHANGED <<node, hostwide, tenant>>

HalfUnpack ==
  /\ pc = "unpack" /\ ~NothingToUnpack
  /\ cache' = [cache EXCEPT ![sandbox].tree = "part"]
  /\ torn' = torn \cup {sandbox}
  /\ UNCHANGED <<node, hostwide, tenant>>

\* Helm remembers a failed release, and one it was killed over.
HalfRelease(how) ==
  LET left == IF how = "failed" THEN "failed" ELSE "pending" IN
  \/ /\ pc = "cni" /\ ~CniRefused /\ Cni(cmd) = "kubeovn"
     /\ releases' = [releases EXCEPT !["kubeovn"] = left]
     /\ network' = [network EXCEPT !.applied = @ \cup {"kubeovn"}]
     /\ UNCHANGED <<cluster, webhooks, runtimes, tenant>>
  \/ /\ pc = "build" /\ step <= Len(Plan(cmd)) /\ current \in DOMAIN releases
     /\ releases[current] = "none"
     /\ releases' = [releases EXCEPT ![current] = left]
     /\ UNCHANGED <<cluster, network, webhooks, runtimes, tenant>>
  \/ /\ pc = "build" /\ step <= Len(Plan(cmd)) /\ current = "release"
     /\ tenant[who].release # "pending"
     /\ tenant' = [tenant EXCEPT ![who].release = left,
                                 ![who].spaces = @ \cup {"host"}]
     /\ UNCHANGED <<hostwide, runtimes>>

Mishap ==
  /\ pc # "idle" /\ mishaps < Mishaps
  /\ mishaps' = mishaps + 1 /\ troubled' = TRUE

Interrupt ==
  /\ Mishap
  /\ \E how \in {"failed", "killed"} :
       /\ pc = "look" => how = "killed"
       /\ End(how)
       /\ \/ UNCHANGED world
          \/ Effect
          \/ HalfDownload(how)
          \/ HalfUnpack
          \/ HalfRelease(how)

\* The health check of a tenant that is there fails, and it is made again.
MissTenant ==
  /\ Mishap
  /\ pc = "look" /\ Healthy(who)
  /\ pc' = "build"
  /\ UNCHANGED <<campaign, who, step, found, outcome, world>>

------------------------------------------------------------------------------
(* The cluster's own components.                                           *)

NodesSettle ==
  /\ network.applied # {} /\ ~network.settled
  /\ network' = [network EXCEPT !.settled = TRUE]
  /\ UNCHANGED <<control, cluster, releases, webhooks, runtimes, tenant>>

WebhooksRegister ==
  /\ releases["capsule"] # "none" /\ network.settled /\ ~webhooks
  /\ webhooks' = TRUE
  /\ UNCHANGED <<control, cluster, network, releases, runtimes, tenant>>

PodStarts(t) ==
  /\ tenant[t].release # "none" /\ tenant[t].pod # "running"
  /\ tenant[t].pod = "starting" => network.settled
  /\ tenant' = [tenant EXCEPT ![t].pod =
                  IF @ = "none" THEN "starting" ELSE "running"]
  /\ UNCHANGED <<control, hostwide, runtimes>>

Over == pc = "idle" /\ campaign = <<>> /\ UNCHANGED vars

Next ==
  \/ Start \/ EnsureCluster \/ InstallCni \/ WaitForNodes \/ InstallRuntime
  \/ TakeTenant \/ MakeTenant \/ TakeStep \/ FinishTenant
  \/ FindPod \/ PollPod \/ Complete
  \/ Fail \/ FailUnpacking \/ Interrupt \/ MissTenant
  \/ NodesSettle \/ WebhooksRegister
  \/ \E t \in Tenant : PodStarts(t)
  \/ Over

Spec == Init /\ [][Next]_vars

------------------------------------------------------------------------------
(* Properties.                                                             *)

Config == [by : Kind \cup {"nobody"}, adjusted : BOOLEAN, ports : Port]
Release == {"none", "pending", "failed", "up"}
File == {"none", "part", "whole"}

Belongings ==
  [spaces : SUBSET ({"host"} \cup Kind), release : Release,
   pod : {"none", "starting", "running"}, declared : BOOLEAN, config : Config,
   service : BOOLEAN, data : SUBSET Strategy]

\* Where the command is, and what there is in the world.
ControlOK ==
  /\ pc \in {"idle", "cluster", "cni", "nodes", "download", "unpack", "copy",
             "publish", "look", "build", "poll", "ready"}
  /\ campaign \in Seq(Command) /\ (pc # "idle" => campaign # <<>>)
  /\ who \in Tenant /\ step \in Nat \ {0} /\ found \subseteq Tenant
  /\ outcome \in {"none", "complete", "failed", "killed"}
  /\ troubled \in BOOLEAN /\ mishaps \in 0..Mishaps
WorldOK ==
  /\ cluster \in [by : {"nobody", "kind", "other"}, ports : Port,
                  patched : SUBSET Runtime]
  /\ network \in [applied : SUBSET {"calico", "kubeovn", "other"},
                  settled : BOOLEAN]
  /\ releases \in [{"kubeovn", "capsule", "proxy", "kamaji"} -> Release]
  /\ webhooks \in BOOLEAN
  /\ cache \in [Runtime -> [archive : File, tree : File]]
  /\ node \in [Runtime -> [files : File, class : BOOLEAN]]
  /\ torn \subseteq Runtime
  /\ tenant \in [Tenant -> Belongings]

\* Every variable has its type.
TypeOK == ControlOK /\ WorldOK

\* What the command promises of a tenant: a configuration of its solution
\* that reaches an API, the namespace it works in, and every strategy.
Made(t) ==
  /\ tenant[t].config.by = cmd.kind /\ Reached(t)
  /\ Inner(cmd.kind) \in tenant[t].spaces \cup {"native"}
  /\ ToSet(DataPlane(cmd)) \subseteq tenant[t].data

\* What it promises of a sandboxed runtime: its class, and files on the node.
\* They are whole, unless a download or an unpacking of it was cut short.
Sandboxed ==
  \A r \in Runtimes(cmd) :
    /\ node[r].class /\ node[r].files # "none"
    /\ node[r].files = "whole" \/ r \in torn

\* A command that reports the set-up complete has made every tenant that it
\* did not find healthy, on a network that carries traffic, and has the
\* sandboxed runtime in place -- whatever earlier commands, cut short
\* anywhere, had left behind.  A part of a file is taken for the whole only
\* when a process was killed over it or tar failed on it: a download that
\* fails leaves nothing to be taken (builder.rs download_if_absent).
SetupIsWhole ==
  [][outcome' = "complete" /\ outcome = "none" =>
       /\ \A t \in Tenant \ found : Made(t)
       /\ network.settled /\ Cni(cmd) \in network.applied
       /\ Sandboxed]_vars

\* Command lines that cannot succeed on any cluster: two technologies that
\* both write the policy, two runtimes or one outside kind, and on KubeZoo,
\* whose tenants' namespaces have other names on the host, a strategy that
\* goes into one.
Impossible(command) ==
  \/ ~IsInjective(DataPlane(command))
  \/ \E i, j \in Sandboxes(command) : i # j
  \/ Sandboxes(command) # {} /\ command.provider # "kind"
  \/ /\ command.kind = "kubezoo"
     /\ ToSet(DataPlane(command)) \cap {"deny", "allow", "dns", "admission"} # {}

\* A set-up on a cluster it made, which meets no mishap, fails only when it
\* is an impossible one or over a runtime's file cut short earlier -- or in
\* deploy_vcluster, whose poll takes another tenant's pod for its own: no
\* step of a set-up trips over an earlier step or comes before what it needs.
FreshSetupsSucceed ==
  [][outcome' = "failed" /\ outcome = "none" =>
       \/ troubled' \/ pc = "cluster"
       \/ cmd.existing \/ cmd.provider = "none"
       \/ Impossible(cmd)
       \/ torn # {} /\ pc = "unpack"
       \/ pc = "poll" /\ who = "tenant2"]_vars

\* Nothing is put into a tenant before the nodes are Ready, and no Capsule
\* tenant is declared before Capsule's webhooks enforce it, in any command of
\* any campaign: the waits of install_cni and wait_for_capsule_webhooks.
TenantsAreGuarded ==
  \A t \in Tenant :
    /\ tenant[t] # Blank => network.settled
    /\ tenant[t].declared => webhooks

------------------------------------------------------------------------------
(* What the properties rest on.                                            *)

\* Where a command is, once it has a cluster, its network, and its runtime.
OnCluster == pc \notin {"idle", "cluster"}
Networked == OnCluster /\ pc # "cni"
OnNodes == Networked /\ pc # "nodes"
OnTenant == pc \in {"look", "build", "poll", "ready"}
Building == pc \in {"build", "poll"}

\* Without a cluster there is nothing of one.
Emptied ==
  cluster.by = "nobody" =>
    /\ \A r \in DOMAIN releases : releases[r] = "none"
    /\ network.applied = {} /\ ~network.settled /\ ~webhooks
    /\ \A t \in Tenant : tenant[t] = Blank

\* Nobody makes a cluster beside the operator's own, and a command that is on
\* a cluster is on one of its provider.
ClustersKept ==
  /\ cluster.by = "other" =>
       \A i \in DOMAIN campaign : campaign[i].provider # "kind"
  /\ OnCluster => /\ cluster.by # "nobody" /\ cmd.provider # "k3s"
                  /\ cmd.provider = "kind" => cluster.by = "kind"

\* The nodes are waited for once, and the webhooks by each Capsule tenant.
Waited ==
  /\ OnNodes => network.settled
  /\ Building =>
       \A i \in 1 .. step - 1 : Plan(cmd)[i] = "webhooks" => webhooks

\* What there is of a runtime on the way to the node.
PartsAreTorn ==
  \A r \in Runtime :
    "part" \in {cache[r].archive, cache[r].tree, node[r].files} => r \in torn
RuntimeSoFar ==
  /\ pc \in {"download", "unpack", "copy", "publish"} => Sandboxes(cmd) # {}
  /\ pc \in {"unpack", "copy", "publish"} => ~RuntimeRefused
  /\ pc = "unpack" => cache[sandbox].archive # "none"
  /\ pc = "copy" =>
       "none" # IF sandbox = "gvisor" THEN cache[sandbox].archive
                ELSE cache[sandbox].tree
  /\ pc = "publish" => node[sandbox].files # "none"
  /\ OnTenant => Sandboxed

\* What a step of the builder has done for good by the time of the next one.
Configures == {"adjust", "member", "machine"}
Places == {"space", "release", "machine"}
Done(command, it, s) ==
  /\ s \in Configures \cup {"config"} => it.config.by = command.kind
  /\ s \in Configures =>
       it.config.adjusted /\ it.config.ports = Mapping(command)
  /\ s \in Places => "host" \in it.spaces
  /\ s = "inner" => Inner(command.kind) \in it.spaces
  /\ s \in Strategy => s \in it.data

MadeSoFar ==
  /\ Networked => Cni(cmd) \in network.applied
  /\ Building =>
       /\ step <= Len(Plan(cmd)) + 1
       /\ pc = "poll" => step <= Len(Plan(cmd)) /\ current = "pod"
       /\ \A i \in 1 .. step - 1 :
            /\ Done(cmd, tenant[who], Plan(cmd)[i])
            /\ Plan(cmd)[i] = "inner" => Reached(who)
  /\ pc # "idle" /\ ~Building => step = 1
  /\ who = "tenant2" /\ pc # "idle" =>
       OnTenant /\ ("tenant1" \in found \/ Made("tenant1"))
  /\ pc = "ready" =>
       who = "tenant2" /\ ("tenant2" \in found \/ Made("tenant2"))

\* A set-up of its own cluster that met no mishap has made all there is: what a
\* tenant has, a step before step n has made.
Unspoilt == cmd.provider = "kind" /\ ~cmd.existing /\ ~troubled
Before(command, n, s) == \E i \in 1 .. n - 1 : Plan(command)[i] = s
Owed(command, n, it) ==
  /\ "host" \in it.spaces =>
       \/ \E s \in Places : Before(command, n, s)
       \/ Inner(command.kind) = "host" /\ Before(command, n, "inner")
  /\ Inner(command.kind) \in it.spaces /\ Inner(command.kind) # "host" =>
       Before(command, n, "inner")
  /\ it.service => Before(command, n, "service")
  /\ \A s \in it.data : Before(command, n, s)
  /\ it.release # "pending"
FreshSoFar ==
  OnCluster /\ Unspoilt =>
    /\ cluster.ports = cmd.ports
    /\ \A r \in DOMAIN releases : releases[r] \in {"none", "up"}
    /\ pc = "cni" => releases["kubeovn"] = "none"
    /\ ~OnTenant => \A t \in Tenant : tenant[t] = Blank
    /\ pc = "look" => tenant[who] = Blank
    /\ OnTenant /\ who = "tenant1" /\ pc # "ready" => tenant["tenant2"] = Blank
    /\ Building => Owed(cmd, step, tenant[who])

\* The inductive invariant.
IInv ==
  /\ TypeOK /\ TenantsAreGuarded /\ Emptied /\ PartsAreTorn
  /\ ClustersKept /\ Waited /\ RuntimeSoFar /\ MadeSoFar /\ FreshSoFar
=============================================================================
