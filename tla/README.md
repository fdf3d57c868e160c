# Formal models of kumuteva

kumuteva measures how well a Kubernetes multi-tenancy platform separates its
tenants. It acts as two tenants at once: it creates probe objects in both, lets
one try to reach the other's, and turns what the probes saw into isolation
levels (`None`, `Unknown`, `Soft`, `Hard`) and an autonomy ratio. A tool of this
kind is right when its verdicts rest on something that was measured: a broken
probe must not read as isolation, a breach must not be reported that never was,
and no experiment may spoil the next one.

Paths below are those of the repository under `src/`; `breach.rs`, say, is
`src/src/assessment/breach.rs`.

## 1. Inventory

| Component | State it keeps | Operations | What is hard | What makes it correct |
|---|---|---|---|---|
| Breach experiment (`assessment/breach.rs`) | where the experiment is, the planted secret, an address, the pods and Service in two namespaces under fixed names | `plant_secret`, `observe`, `judge`, `clean_up` | every request may fail, every wait may give up, pods change between two requests, a status is stale when the log is read, names are reused by the next experiment | verdicts rest on a planted secret and an intruder that ran; nothing is left behind; every wait ends |
| Assessment run (`assessment/mod.rs`) | subsystem, resource and operation at hand, the findings so far, the reports | `assess_multitenancy`, `run_assessment`, three foldings of levels, warnings, bounds | `?` in the middle of four subsystems, which loses the report of all, empty lists | the report is complete, the worst finding decides, doubt is flagged |
| Reports (`assessment/report_json.rs`) | none | inventory of properties, rows of a report | two lists joined by name | every row names a listed property |
| Cluster client (`cluster/client.rs`) | a connection | create, delete, read, watch, exec with retries, waits for readiness and deletion | watches that end and reconnect, failed reads taken for absence, an unwrap | a wait is bounded and tells gone from unread |
| Network assessor (`assessment/network/mod.rs`) | marker pods, Services, a NodePort | reachability and name resolution experiments, NodePort test, node network test | sweeps over addresses and rounds, exec failures beside refusals, early returns | silence is a verdict only with a control that worked |
| Storage assessor (`assessment/storage/mod.rs`) | StatefulSets, claims, volumes and host directories under a handful of names | authorization in two halves, three experiments over a PersistentVolume and one over an inline hostPath | controllers that make a claim for a set already deleted, volumes and events that outlive what they belong to, deletes that are not waited for | a found marker was written and read in this operation, a refusal was made of this tenant, nothing stays |
| Workload assessor (`assessment/workload/mod.rs`) | privileged pods | host namespaces, privileged escape | a probe that costs the harness its network, a runtime that will not start it | a broken probe is not isolation |
| Control plane assessor (`assessment/control_plane/`) | test objects of every kind in both tenants | autonomy and cross-tenant get, list, create, update, delete | partial failure of set-up, labels to be reverted, errors classified by their text | the objects of tenant 1 are as they were; a failure is not a refusal |
| Fairness assessor and command (`assessment/fairness_assessor.rs`, `*/fairness.rs`, `commands/fairness.rs`) | schedules, samples, load pods, results, files | a baseline and an unbalanced phase per subsystem, judgement, export, summary | two tenants under one `try_join`, pods under the names of the last phase, waits that end by their deadline, empty samples, slow requests against a schedule | samples are those of this phase, the load is the load that was asked for, every subsystem is reported |
| Setup and builder (`commands/setup.rs`, `cluster/builder.rs`, `cluster/provider/`) | a testbed that outlives the command: cluster, releases, webhooks, namespaces, files on the node and in a cache | a host cluster, its network and sandboxes, then two tenants by the steps of their solution | nothing is rolled back and the next command takes what it finds; webhooks and nodes that come up late; downloads cut short | a set-up that says it is complete is whole, whatever was there before |
| Command line (`main.rs`, `commands/`) | flags, configuration files | parsing, precedence | defaults | the selection that was asked for is the one that runs |
| Probe programs (`assessment/probes/*.sh`), bindings (`external_crds/`), results and provisioning scripts | | | | external to the models |

How they interact: `main` resolves two `TenantClusterConfig`s and calls a
command. `verify` calls `assess_multitenancy`, which runs the four assessors one
after the other. An assessor answers `is_authorized` for each operation on each
resource and, where the tenant may perform it, `check_cross_tenant_effect`,
which is usually one breach experiment. All of them share the two clients and
the two namespaces, and so the fixed names of the probe objects: that is the
shared state. One thread of control runs the assessment; the other actors are
the two clusters, which go on scheduling, starting, refusing and deleting pods
between any two requests.

## 2. Modules

| Module | What it is |
|---|---|
| `ProbePods` | the life of a pod as the code can tell it, and what its log holds: an external cluster, modelled from what `client.rs` and `breach.rs` read of it |
| `Breach` | one subsystem's experiments, request by request, over `ProbePods` |
| `TenancyExperiments` | the nine experiments the subsystems declare, as constants of `Breach` |
| `BreachMethod` | the abstract specification: the four numbered steps of the module comment of `breach.rs` |
| `BreachProofs` | theorems about `Breach` |
| `Assessment` | `assess_multitenancy` and `run_assessment` with the report they build |
| `AssessmentProofs` | theorems about `Assessment` |
| `MarkerTests` | the NodePort test and the node network test of `network/mod.rs`, which are written out by hand |
| `MarkerTestsProofs` | theorems about `MarkerTests` |
| `ControlPlane` | one operation on one kind of object, by tenant 1 on its own and by tenant 2 on tenant 1's: `control_plane/autonomy.rs` and `isolation.rs` |
| `ControlPlaneProofs` | theorems about `ControlPlane` |
| `StorageVolumes` | the three operations of `storage/mod.rs` that go through a PersistentVolume, with the controllers they race |
| `StorageVolumesProofs` | theorems about `StorageVolumes` |
| `Fairness` | a campaign of `fairness` commands: subsystems, phases, creation, waits, collection, clean-up, results, files, summary |
| `FairnessProofs` | theorems about `Fairness` |
| `ControlPlaneLoad` | one worker of the load on the control plane: schedule, pace, rounds |
| `ControlPlaneLoadProofs` | theorems about `ControlPlaneLoad` |
| `Setup` | a campaign of `setup` commands over seven solutions and eight technologies |
| `SetupProofs` | theorems about `Setup` |
| `MCBreach`, `MCAssessment`, `MCMarkerTests`, `MCStorageVolumes`, `MCFairness`, `MCSetup` | the small instances for TLC |

### Breach and ProbePods

`pc` names the request the body is at, in the order of the code: `create` to
`secret` is `plant_secret`, `intrude` to `logs` is `observe` with `judge`,
`delete_target` to `delete_service` is `clean_up`. One action is one request with
the code up to the next: a guard is the condition the code tests on the answer,
and beside it stands an action for the request that fails. `Fail` is the `?` of the body and
`Conclude` any other way out: `clean_up` follows both. `attempt` counts the sleeps
of the polling loops, `address` is what the intruder will be aimed at, `landed`
is the status `observe` read once and goes on using. `leaked` collects the names
whose deletion was not seen through. `verdict` carries, beside the level, what
the harness had read and, as history, what was true when it was reached; `world`
is the truth the experiment is after. Neither is read by any action that models the harness, but for `world.hosted`
where the harness lists the nodes of the cluster.

A pod moves from `new` through scheduling, admission and start to `done`, may be
refused by the runtime, which writes an error that quotes the command line into
the log, and is `terminating` for as long as it likes once deleted.

An experiment is a record of what the control flow of `breach.rs` depends on, and
`TenancyExperiments` has the nine of the network, storage and workload subsystems
as the code declares them, with its names: which Service, what the intruder is
built from, whether it asks for host privilege, how the secret is recovered, which
judgement applies. The four experiments with a classification of their own have it
as an operator (`JudgeReachability`, `JudgeDns`, `ClassifyKeyring`,
`ClassifyEscape`). Beside that stands one fact of the platform, `lasting`: a process
or a server goes with its target, a file, a DNS record, a keyring or a System V
object does not. A plan is a sequence of experiments.

The words of a log are few: the marker a breach is recognised by, the report that
nothing was found, the report of a denial, a first line printed before the attempt
(the capabilities, the keyring), the report of a target that planted nothing, and
the runtime's error. What the program decides of a verdict is decided by these. A
probe's own report that it lacked its tools is left out, as it always comes to
`Unknown`, and a rule that drops packets in silence counts as nothing shared, as
the comment over `judge_pod_reachability` has it.

Assumed of the clusters: a server whose container restarts counts as running
throughout, the retries of the reachability probe outlast the propagation of a
Service's endpoints, and nobody else uses the fixed names. A request that is answered with an error
has not been carried out.

### Assessment

The two nested loops of `run_assessment` inside the sequence of
`assess_multitenancy`, one action per turn of a loop. The probes are left to other
modules: `Answers` is the set of answers `is_authorized` of each assessor may
give, with history of whether the cluster had granted what was asked, and
`Check` takes any finding. Either may fail, by an error or a panic, and then
there is no report, of the subsystems that are done either.
The catalogue gives each resource its number of operations: the names do not
matter, their number does.

### MarkerTests

Both tests plant a server of tenant 1 that answers with a marker and ask for it
from a pod of tenant 2, at every address they know of, in rounds. `pc` is where
`test_nodeport_autonomy` or `test_node_network_isolation` is; what the two share
is one action with the condition `test` where they differ. A deletion or a wait is
an errand: the early returns and the clean-ups are lists of these, worked off one
request at a time, with the clusters moving in between. `attempt` is the
`NodePortAttempt` of the code: its `hit`, `answered` and `unexpected` are read off
the set of answers `heard`. `prober` tells the control, in which tenant 2 asks for
a marker of its own, from the probe. With the verdict the locals go out of scope
(`Result`), and the properties of a verdict speak of the step that reaches it.

A pod is Ready once its shell runs; the shell then says that it serves (`Announces`),
starts the server, and the server binds the port (`Binds`): three steps, any of which
may never come. `said` are the pods whose log has the word, which is all the harness
can read of it; `reachable` of an attempt is history, whether the server was there and
to be reached when the last round began and stayed until the sweep was over. A NodePort
is open some time after its Service was accepted; what an address leads tenant 2 to is settled when it
is first asked; an output may be lost on the way, as `get_output` allows. These
are the clusters' and are never read by the harness. `exec_command_in_container`
is one step with two outcomes: its three tries only say how often it must fail.

### ControlPlane

`phase` tells the two halves of an operation apart: `authorize` is one of the five
probes of `autonomy.rs`, `cross` one of the nine of `isolation.rs`, and between them is
the decision of `run_assessment` whether the second is made at all. `pc` is the
request the probe is at. A kind is one of four that the code treats alike: a pod,
which takes a grace period to go; a stateful set, for which a controller makes a
claim; a node, which tenants find and do not make; and any other. `target` says what
the probe works on: an object of its own, one that was there although its creation had
failed, or a real node after the search with its pod that wakes a virtual cluster
(`trigger`). `Intrusion` are the requests of tenant 2, `Verification` the second looks,
`Revert` the merge patch that is to undo an update. The histories `took`, `ok`,
`blind`, `denied` and `woes` record what really happened, what tenant 2 was told, that a
read failed, and what went wrong with creating and deleting; the guards of the
harness read none of them.

### StorageVolumes

`stage` is the operation of the run, `pc` the request. Each begins with its
authorization probe, which leaves objects behind, goes on to tenant 1's writer and
tenant 2's reader, and ends in a list of deletes (`errands`, built by `CleanUp`),
whose errors are dropped. `set`, `claim`, `pod`, `volumes` and `holder` are what the
API server and the controllers keep; `Cluster` are the steps of these: a claim made
for a set that was deleted a moment ago, a volume provisioned, bound, released and
reserved again, a pod started on what its claim is bound to and going some time after
its set. `owed` are the objects whose own last delete failed, and nothing else; `earlier` the volumes
that were there before the run. A pod carries the operation it was made in, so that a log can be asked whose
it is. `error` is the text `refused_rather_than_unobserved` has to go by: of the
events of a set, `Told` takes the ones of its name and tenant. `apart` is the truth: whether
the tenants have disks of their own. It is settled when it first matters.

### Fairness and ControlPlaneLoad

A command works through `Order` for the subsystems it was asked for; a subsystem is a
baseline and an unbalanced phase, each of them a clean-up (in the storage assessor), a
creation by the futures of both tenants, a wait, a collection and a clean-up. `pending` is
what the future of each tenant has still to create and `open` whose future runs:
under `try_join` an error of one drops the other where it stands. `jobs` are the sets of
objects a clean-up removes one after the other. The control plane subsystem makes
no pods that are measured, and its load is in `ControlPlaneLoad`. A command may be killed
between any two requests (`Kill`), and the next one of the campaign runs over
what is left; a deletion takes its time (`Vanish`). Two histories are kept object by object:
`undeleted` are those whose last deletion failed, `abandoned` those their phase never came to
delete because it was broken off (`Abandon`).

`ControlPlaneLoad` is a worker of `control_plane/fairness.rs` over the schedule of
`fairness_assessor.rs`: `Ask` takes a slot (`next_slot`), `Send` dispatches when it has
come, `Answer` ends the request with whatever it came to, `Advance` goes on to the
next of the round. Time is counted in ticks, and a request takes from one to
`MaxService` of them.

### Setup

`Plan` is the list of steps a command line selects for a tenant, by its solution and
its technologies, as `build` goes through it; `TakeStep` is one of them with
the request it makes. A request is refused when what it creates is there already,
unless it is an apply or the code looks first; it fails, or its answer is lost
(`mishaps`). `cluster`, `network`, `releases`, `webhooks`, `tenant`, `cache` and `node` are what
outlives the command. `torn` are the runtimes over whose files a process was killed.

## 3. Runs

| Run | Question | Result |
|---|---|---|
| `breach_safety` | what do the verdicts rest on, and what is left behind, over each declared experiment, the two that share a target one after the other, every life of the pods and every failing request? | holds |
| `breach_live` | does each declared experiment implement the method and end? | holds |
| `marker_tests` | what do the verdicts of the two hand-written network tests rest on, what is left behind, and does the NodePort test implement the method? | holds |
| `marker_hard` | a pod is Ready before it serves, "which this test used to record as isolation" | violated: the node network test still goes by readiness |
| `assessment` | is the report complete and does it fold its findings soundly, for every selection of subsystems? | holds |
| `assessment_grant` | `Allowed`: "the tenant may perform the operation" | violated: a review that answers no is `Ok(false)` |
| `control_plane` | what do the findings of the fourteen control plane probes rest on, what do they do to real objects, and what do they leave behind? | holds |
| `storage` | what do a found marker, its absence and a refusal rest on, and what does an operation leave whose own delete did not fail? | holds |
| `fairness` | are samples those of the phase, what may be in the way of a new object or load a baseline, is every subsystem reported, and does every command end? | holds |
| `fairness_summary` | a factor of an unmeasured phase "must not be reported or averaged" | violated: the summary compares it and panics |
| `load` | is the load offered on schedule whatever requests take, and does a round leave anything behind? | holds |
| `setup` | is a set-up that says it is complete whole, and does one that meets no mishap succeed? | holds |

Bounds. The experiments, their pods and their Services are those of the code. Two
of them one after the other are enough for what one leaves to the next: nothing
passes between experiments but the names, and the two reachability experiments
are those that share some. One attempt per polling loop distinguishes an answer
at once, an answer after a sleep and none; the bounds are constants of the
specification and the proofs hold for all of them. The
catalogue has a subsystem with two resources, a resource with two operations,
one with one and one with none: each loop turns more than once, once and not at
all. `MarkerTests` has two addresses, so that one may fail while the other answers and
the two may lead to different tenants, and are alike (`Swapped`); two rounds, so
that what changes between them does; one sleep per polled log.
`ControlPlane` has one operation on one kind at a time, since a run of the assessor is these one after the
other and what one leaves is in `litter`; two polls for a node tell one that shows at
once, late and never. `StorageVolumes` has up to two operations in a row on two nodes, with
one mishap in the first of them, or one operation over the volumes of an earlier run: the
third operation of a run meets nothing the second does not. `Fairness` has one pod of a tenant in the
baseline and two of the intruder afterwards, so that a phase has names the other does
not; two commands or two subsystems; two mishaps, so that one may hide another. The load
has a phase of three slots, requests that take up to one and a half of them, and two failures. The
campaigns of `Setup` have each solution and each technology, twice in a row, with two mishaps, and some are about the operator's own cluster; no campaign that begins on that one makes another (`OneCluster`).
The temporal run of `Breach` has the experiments one at a time and no sleep for an address, since its
cost grows faster; that the refinement holds from one experiment to the next is
proved.

Exceptions that a property names are the code's own: `HardIsTrue` and
`BreachIsReal` of `Breach` state in which cases a verdict may be wrong, and hold in all
others. They are as strong as the code allows: each exception is reachable. Hard
isolation is reported wrongly of an intruder that printed nothing where the
experiment looks for a word, of one cut off after its first line, of a container
refused after its status was read, of a node list that could not be read, and of
a target that had gone by the time of the attempt or said it had planted nothing.
`HardIsMeasured` of the NodePort test has four: a command that could not be run
at the address, nodes that were not programmed when the last round began, a server
that had said it serves and had not bound its port by then, a marker
pod that ended during the sweep. The node network test has a fifth, a marker that
had not even said so, which is the finding of `marker_hard`.
The control plane probes have theirs in `BreachIsReal` and `BreachIsSeen`: a read that
failed, a label of an earlier run, an object the platform dropped, a node that
changed between two looks, a pod in its grace period. `FindingsAreReal` of the volume experiments has the
claim of an earlier set, a hostPath on another node, and a marker that was never
confirmed, and says nothing of a volume test that read the log of the operation before; the hostPath test
always reads its own. `CleanUpOnEveryPath` has the volumes the hostPath test asks no delete for (`Spared`):
one whose create was an error and one of an earlier run. `ObstaclesAreExplained` and `NoiseIsExplained` name three
kinds of leftover and say of each object which it is; an earlier mishap elsewhere excuses nothing. A breach of an experiment is reported wrongly in one window: the runtime refuses the container
between the reading of the status and that of the log, which quotes the marker.

## 4. Fairness

Only `Harness` is weakly fair: a step the program can take is taken. The code
justifies it: every request has a timeout in the client, the readiness wait has a
deadline around the whole loop (`client.rs`, 1024-1047), the watch for
completion and the wait for deletion end on the server's timeout (290 s and
120 s), and the polling loops count. Each of them has an action for giving up. Nothing is assumed of the
clusters: a pod may stay in any state for ever, and `Termination` of `Breach` holds all the
same. `Termination` of `Fairness` assumes the same of the command that runs and of the
operator who gives the next one; that a deletion is ever finished is not assumed,
since `wait_for_*` of the fairness assessors end by their deadlines. The other modules claim
no liveness: their waits are single steps with an outcome for giving up.

## 5. Proofs

TLAPS checks the theorems for every value of the constants, from
`PlanAssumption`, `AttemptsAssumption` and `CatalogueAssumption`: any set of pods
and Services, any experiments whose target is not their intruder, any plans
over them, any bounds; any catalogue.

**Breach.** `IInv` says what is true at each point of the program: the target
stands from its readiness to its clean-up (`TargetStands`), so a secret read from
its log is still there when a verdict is reached (`SecretStands`); the intruder is
the pod this experiment created and prints what is true (`IntruderIsOurs`); a pod
pinned to a node its cluster does not have never runs (`UnhostedNeverRuns`); only a
refused container's log quotes (`QuotesAreErrors`); the stale status is past but
not arbitrary (`LandedIsPast`); at each point only certain names may be taken
without being leaked (`LeaksKnown`). Each is needed: the verdict properties alone
do not say where the pods are, and a step of the cluster would break them.
From `IInv` follow `MeasurementIsGrounded`, `BreachIsReal`, `HardIsTrue`,
`SilenceDecidesNothing` and `NothingLeftBehind`. `Refinement` shows that the
initial state maps to one of `BreachMethod` and every step to a step of it or a
stutter, again from `IInv`.

**Assessment.** `IInv` says what the two lists hold: the assessments are those of
the resources before the one at hand, each with all its operations and their
worst level (`AssessedSoFar`), the reports those of the subsystems behind
(`ReportedSoFar`), and a report comes only at the last (`LateEnough`). The foldings are then
lemmas about the least of a set of levels, and the three properties follow.

**ControlPlaneLoad.** From `TickAssumption`: a phase, an interval and a service time of
at least a tick, any number of failures. `IInv` says how far a worker can be behind the clock at each
point of a round (`InTime`, by `Reach`), where it is on the schedule (`OnSchedule`) and
that a round takes time, so that there are no more objects than ticks (`Counted`). The
bound on the clock is not inductive without it: it is the step of the round that says
how much of it is left. `LoadIsOffered` follows by a lemma about division, and
`LitterIsExplained` because the deletion is the last request of every scenario and no
other (`ScenarioFacts`).

**Fairness.** From `PodsAssumption`, `CampaignAssumption` and `OptionAssumption`: any number of
pods of either tenant, any options, any campaign, any number of mishaps. `IInv` says that the
subsystems of a command are those to come, the one at hand and those reported or failed, none of
them twice (`Accounted`); that a manifest comes after its tables (`Exported`); what the storage
assessor has measured by now (`CompleteSoFar`); and that each probe of the phase stands and
is new, or is still to be created, now or after the tenants have met (`ProbesSoFar`).
The last is what `SamplesAreFresh` lacks: when the futures of both tenants are over,
nothing is left to be created, so that whatever the wait begins with was made in this phase.
`SamplesAreFresh`, `EverySubsystemIsReported` and `LevelIsMeasured` follow. `ObstaclesAreExplained` and `NoiseIsExplained`
need the history of every clean-up, and have an invariant of their own, `LeftInv`: what is on record as left behind is
there (`OnRecord`); whatever exists is being deleted, withstood its last deletion, was abandoned, or
belongs to the phase at hand, which has made it by now and not yet removed it (`LeftSoFar`); of what the
storage assessor is to create nothing is there but what its clearance did not get away (`ClearedSoFar`); and no
object is created twice in a phase (`EachOnce`), without which the second creation would find the first.

**MarkerTests.** From `BoundsAssumption`: any addresses, at least one round, any number of
looks at a log. `IInv` says which pod asks at each point (`OnCourse`); that whatever exists is
leaked, is owed a deletion by an errand or is what the test still works with (`Kept`); that
whatever the NodePort test asks, the marker has been said to be served by then (`Planted`); that a port which was not
denied is in a space of its own and has a control (`Controlled`); that each word heard was said by somebody at an address that was asked (`HeardSoFar`);
and that an address which leads to the marker has told, if its server was to be reached when the last round began, is
there still, and every command could be run (`SweptSoFar`): a server that has gone does not come back. Of one that has
only said that it serves this cannot be shown, and it is not true. A judgement alone shows none of this: what it goes by is
the record of a sweep that is over, and by then the marker may have gone. `NothingLeftBehind` follows from `Kept`, the two properties of a verdict
from the others by the branches of the judgements (`Judgement`), and `Refinement` maps each step of the NodePort test to a step
of `BreachMethod` or a stutter.

**ControlPlane.** From `PollAssumption`: any number of polls for a node, every kind and every operation, and any
number of requests failing. `IInv` says with which kind, operation, phase and target each label is
reached (`Paths`); what has been concluded by then, and from what (`Said`); that the object tenant 2 acts on is there until
tenant 2 or the platform takes it away (`Victim`); the two sides of a breach from the moment
something is concluded (`Breached`); that a real object is a target only if none could be made (`Unmade`), and who put which label
on it (`LabelsLeft`); and what a phase that stopped at this request would leave, together
with what the phases before have left (`LeftSoFar`). The properties speak of the end of a run only, where none of this can be
read off: an object left over at the end was left at a request that had failed by then. `LitterIsExplained`
came out stronger than it was first stated: a claim is never left because tenant 1 could not look.

**StorageVolumes.** From `PlansAssumption` and `MishapsAssumption`: any plans of one or two different operations, on any
sets, any number of mishaps. `IInv` has thirteen parts. Three say that each volume and each set is away, about to be
deleted or in use (`HostPathsToGo`, `SetsToGo`), and a claim likewise once no other can come of its set (`ClaimsToGo`: the
controllers make claims on their own); `VolumeCleanUp` says it of the volume tests, whose deletes are spread over the operation.
`Standing` keeps the sets that have been seen ready; `Shape` keeps what exists to the operations that can have made it.
`Written` is the heart of the findings: tenant 1 writes in one place in an operation, that of its one writer, and none else does,
so that what the intruder reads there is this operation's; `IntruderSays` and `Measured` relate what its pod says to that place.
`Unhindered` says that without a failed request nothing is refused and no set is in the way of another, and `ByHandOnly` that
a volume made by hand is one of an earlier run or of the operation that makes it, and is referred to by nothing before that: otherwise the delete of
an earlier claim could take it along. The controllers, kubelets and provisioners may act at any label, which is
why each part has to be kept by every one of them. `CleanUpOnEveryPath` follows at `next` from the parts about what is to be deleted,
since then no errand is left, but for what the operation never lists (`Spared`); `FindingsAreReal` and `RefusalsAreExplained` are action properties and follow for
each step that decides.

**Setup.** From `CampaignsAssumption` and `MishapsAssumption`: any command lines over the seven solutions, with any lists of
technologies, one after another, as long as no cluster is made beside the operator's own (`OneCluster`; the model has one cluster),
and any number of mishaps. `IInv` has nine parts. Of the world it says that nothing stands without a cluster (`Emptied`), that a
part of a file is one of a runtime that was cut short (`PartsAreTorn`), and `TenantsAreGuarded`, which is inductive beside
them. Of the running command: that its cluster is of its provider (`ClustersKept`), which waits are over (`Waited`), how far the files of the runtime have come (`RuntimeSoFar`),
what each step of the plan that is over has done for good (`MadeSoFar`, `Done`), and, of a set-up that made its cluster and
met no mishap, that whatever a tenant has was made by a step that is over (`FreshSoFar`, `Owed`). The two directions answer the two
questions: `SetupIsWhole` follows from `MadeSoFar` at the end of the plan, `FreshSetupsSucceed` from `FreshSoFar` at any step, since
no step creates what an earlier one has made, and from `MadeSoFar`, since each finds what it needs. Both rest on the order of the plans, and the list of
technologies is any: `InOrder` states the order of the seven control planes, `PlanOrder` that of the plans. That the data plane of a
command line is a sequence of strategies is a fact about flattening, proved by a least
counterexample over the lengths, since the library's induction theorem cannot be instantiated here.

**What of termination is proved.** That every behaviour ends needs two things: that no more than so many steps
can be taken, and that the next one is. The first is the program's own and needs no fairness: `EveryStepCounts`
of `Breach` and of `Fairness` has it that every step of the harness makes a measure smaller, in a fixed order of
importance -- the experiments or commands that are left, the point of the program, the subsystems, the phase, the
attempts of a loop or the objects still to create or remove -- and that no step of the clusters makes it larger.
It is no property of a run; `StepsRunOut` states it of every behaviour, from type correctness alone.
An interrupted command counts too, and so does whatever fails. An endless retry, or a loop that
begins an earlier point again, would break it.

Only model-checked: the second, that a step is always enabled short of the end and is taken (what `Termination` adds
to `StepsRunOut`), and the fairness part of `ImplementsMethod` of `Breach`. Both need ENABLED and temporal
fairness reasoning beyond the prover.

## 6. What is not modelled

The text of logs, errors and details beyond what the code tells apart; UUIDs,
which are taken to be unique; the manifests of the pods; the shell programs of
the probes, of which only the words they print matter; the clusters beyond
what a pod's status and log show; the generated bindings, the experiment scripts,
the results and notebooks, and the provisioning scripts. Of the fairness
assessor the percentiles, time series and quality-of-service classes, which are arithmetic over
samples; of the storage assessor the watch on events that `refused_text` reads them by, and the
provisioners; of the providers what the programs they start do; of the command line the
parsing and the precedence of flags and files, which are pure functions without a state.
The `manual_test_*` functions of `control_plane/mod.rs`, the teardown helpers and
`delete_cluster` are called by nothing.

The load on the control plane makes configmaps and pods, and the sweep around its phases (`cleanup_resources`,
`control_plane/fairness.rs:127-141`) covers configmaps and deployments: a pod whose own deletion failed stays for good.
`LitterIsExplained` of `ControlPlaneLoad` therefore excepts the objects whose own deletion failed, and no others.
`Setup` is coarser than the code in two things: the several binaries of gVisor are one archive, and of the eight variants
of `ControlPlaneIsolation` it has seven. No property depends on either.

Divergences that were met on the way and have no run of their own, mostly because a single line shows
them. The path is under `src/src/`.

- `cluster/client.rs:976`: a watch that cannot be opened panics, past the clean-up that `assessment/breach.rs:199` says
  follows on every path. `BreachMethod` allows that crash from a watch and nowhere else.
- `assessment/breach.rs:244`: a refused target ends the run, where `assessment/mod.rs:116` has it that a refused probe
  must not.
- `assessment/workload/mod.rs:57-58`: that the hostNetwork probe runs last "stops that damage from erasing four
  measurements that had nothing to do with it". An error of that probe, or of one after the harness has lost its way,
  is passed on (`breach.rs:238-248`, `assessment/mod.rs:498`) and the report of all subsystems is lost (`Fails`).
- `assessment/network/mod.rs:1698`: a marker pod prints `SERVING` and then starts `httpd`, whereas 735-739 and 1372 have it
  print the word "once `httpd` is bound". The window that `marker_is_being_served` is to close is smaller and still open:
  an intruder that arrives in it finds nothing, and the port is taken to be isolated. `HardIsMeasured` names it.
- `assessment/network/mod.rs:789`: any error of the create of tenant 2's Service is taken for a collision of ports and
  is reported as `Soft`, whatever its reason. `SharingIsReal` says nothing of a finding for that reason.
- `assessment/storage/fairness.rs:172-175`: the clearance is to remove "anything a previous, possibly interrupted, run left
  behind" (also 758), and asks for the pods and claims of the phase at hand: what an intruder had beside these in an
  unbalanced phase that was broken off stays and loads the next baseline. `NoiseIsExplained` names it.
- `assessment/storage/mod.rs:362-364`: "Cleanup runs on every exit path, including the early returns below, so a refused run
  does not leave a cluster-scoped volume behind". The returns at 411-420 and 463-467 ask no delete for the volume whose
  create was answered with an error; if it was made all the same, it stays, and the next run finds its name
  taken. `CleanUpOnEveryPath` names it (`Spared`).
- `assessment/workload/mod.rs:1055`: the keyring target prints `UNAVAILABLE` where its secret is expected, and it is
  taken for the secret, against `assessment/breach.rs:20-25`. `HardIsTrue` names it.
- `assessment/report_json.rs:278`: the inventory and the rows of a report are joined by names that differ
  (`control_plane`, `Control Plane`).
- `assessment/control_plane/isolation.rs:111`: a verification that cannot be made counts as isolation. `BreachIsSeen`
  names it.
- `assessment/mod.rs:485`, `assessment/control_plane/mod.rs:186`, `assessment/fairness_assessor.rs:655`: an operation whose
  authorization could not be determined raises the autonomy ratio; a set-up that failed
  is a `false` and reads as forbidden; throughput retention over an empty baseline
  is 1.0.
- `assessment/fairness_assessor.rs:66`: `Unlimited` is described as no rate limiting (36), but takes its interval from the rate as the others do, and
  the schedule of the control plane load paces it.
- `cluster/builder.rs:2329`: `deploy_vcluster` looks for its pod once in its own namespace and then in all of them, so that
  the second tenant may find the first one's. `FreshSetupsSucceed` names it.
- `cluster/provider/kind.rs:154`: `exists` matches a part of a name.
- `assessment/storage/mod.rs`: an intruder that never became ready on a released volume is `Hard` (986), whereas a pod that never
  started is said to tell nothing (560-572); the marker of the volume tests is never confirmed; the claim left by
  `test_pv_mount_authorization` may be what is measured instead of the class asked for (800-806); any error of tenant 2's
  create in the hostPath test counts as a policy; neither the hostPath test nor the
  Retain fallback pins the intruder to the node of the victim, and both use one directory; a release that finds no
  volume is `Soft`.

An observation that is not a finding: `SubsystemReport::min_known_isolation`
looks at resources, so the known operations of a resource that is `Unknown`
overall do not count towards the bound. It is then weaker than it could be, and
still a bound (`BoundIsMeasured`).

## 7. Plan

What is left, in this order:

1. `PodWait`: the waits, watches and exec retries of `client.rs`, refined to the
   abstract wait that `Breach` uses.
2. A refinement of the volume experiments to `BreachMethod`, which the hostPath test follows and the other two do only in part.
3. Two assessments at a time: what the fixed names do when the tool runs twice on one platform.
