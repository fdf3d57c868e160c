----------------------------- MODULE ProbePods -----------------------------
(***************************************************************************)
(* The pods a harness creates in a Kubernetes cluster, as far as the       *)
(* harness can tell them apart: where a pod is in its life, and what a log *)
(* request for it would return.  The cluster is external to the program;   *)
(* what is modelled is what the code in src/ reads of it.                  *)
(*                                                                         *)
(* A pod is named by its name and its namespace, and the names are fixed:  *)
(* a pod that is still Terminating keeps its name taken.                   *)
(***************************************************************************)
CONSTANT Pods   \* the names of probe pods, each within one tenant's namespace

VARIABLE pod    \* the pod that holds each name

(***************************************************************************)
(* "new" has neither a condition nor a container status; "unschedulable"   *)
(* carries PodScheduled=False; "waiting" is Pending with container         *)
(* statuses (pulling its image, say); "refused" is a StartError or one of  *)
(* the Create/RunContainerError states.                                    *)
(***************************************************************************)
Status == {"absent", "new", "unschedulable", "waiting", "refused",
           "running", "done", "terminating"}

(***************************************************************************)
(* What the log of a pod holds: nothing, a first line that says it has got *)
(* going, the marker the experiment looks for, a target's report that it   *)
(* could plant none, a probe's report that it looked and found nothing,    *)
(* its report that a rule stopped it, or the runtime's own error, which    *)
(* quotes the container's command line, markers included.                  *)
(***************************************************************************)
Words == {"silent", "begun", "marker", "nothing", "clear", "denied"}
Output == Words \union {"quoted"}

(***************************************************************************)
(* What a create request fixes: whether spec.nodeName pins the pod,        *)
(* whether the node so named is one of this cluster's, whether the program *)
(* prints a line before it gets to its point, which pods must be running   *)
(* for it to find anything, and what it prints if it gets that far.        *)
(***************************************************************************)
PodSpec == [pinned : BOOLEAN, hosted : BOOLEAN, staged : BOOLEAN,
            needs : SUBSET Pods, says : Words]

PodRecord == [status : Status, out : Output, spec : PodSpec]

Vacant == [status |-> "absent", out |-> "silent",
           spec |-> [pinned |-> FALSE, hosted |-> FALSE, staged |-> FALSE,
                     needs |-> {}, says |-> "silent"]]

Created(spec) == [status |-> "new", out |-> "silent", spec |-> spec]

Exists(k) == pod[k].status # "absent"

PodsTypeOK == pod \in [Pods -> PodRecord]

PodsInit == pod = [k \in Pods |-> Vacant]

\* The container of a pod that is not being deleted has run.
Ran(k) == pod[k].status \in {"running", "done"}

\* The container itself has printed the marker.
Planted(k) == Ran(k) /\ pod[k].out = "marker"

-----------------------------------------------------------------------------
(***************************************************************************)
(* What the cluster does on its own.                                       *)
(***************************************************************************)
Becomes(k, status) == pod' = [pod EXCEPT ![k].status = status]

\* The scheduler finds no node.  A pinned pod never meets the scheduler.
NotSchedulable(k) ==
  /\ pod[k].status = "new"
  /\ ~ pod[k].spec.pinned
  /\ Becomes(k, "unschedulable")

\* A kubelet takes the pod.  A name no node has is taken by nobody.
Claim(k) ==
  /\ pod[k].status \in {"new", "unschedulable"}
  /\ pod[k].spec.pinned => pod[k].spec.hosted
  /\ Becomes(k, "waiting")

\* The runtime will not start the container, and writes its error to the log.
RefuseStart(k) ==
  /\ pod[k].status = "waiting"
  /\ pod' = [pod EXCEPT ![k].status = "refused", ![k].out = "quoted"]

Start(k) ==
  /\ pod[k].status = "waiting"
  /\ Becomes(k, "running")

\* What a pod finds in another it finds only while that one is there.
FindsNothing(spec) ==
  spec.says = "marker" /\ \E t \in spec.needs : pod[t].status # "running"

NextWord(p) ==
  IF p.spec.staged /\ p.out = "silent" THEN "begun"
  ELSE IF FindsNothing(p.spec) THEN "clear"
  ELSE p.spec.says

Speak(k) ==
  /\ pod[k].status = "running"
  /\ pod[k].out \in {"silent", "begun"}
  /\ NextWord(pod[k]) # "silent"
  /\ pod' = [pod EXCEPT ![k].out = NextWord(pod[k])]

\* The program ends, or is ended, with its work done or before it could print
\* anything.  A server that is restarted counts as running throughout.
Exit(k) ==
  /\ pod[k].status = "running"
  /\ Becomes(k, "done")

Vanish(k) ==
  /\ pod[k].status = "terminating"
  /\ pod' = [pod EXCEPT ![k] = Vacant]

ClusterStep(k) ==
  \/ NotSchedulable(k)
  \/ Claim(k)
  \/ RefuseStart(k)
  \/ Start(k)
  \/ Speak(k)
  \/ Exit(k)
  \/ Vanish(k)

-----------------------------------------------------------------------------
(***************************************************************************)
(* What requests to the API server do.                                     *)
(***************************************************************************)
Create(k, spec) == pod' = [pod EXCEPT ![k] = Created(spec)]

\* A pod assigned to no node goes at once; any other is Terminating first, and
\* a pinned pod is assigned to its node from the start.
Unassigned(p) == p.status \in {"new", "unschedulable"} /\ ~ p.spec.pinned

AfterDelete(p) ==
  IF p.status = "absent" \/ Unassigned(p)
    THEN Vacant
    ELSE [p EXCEPT !.status = "terminating"]

Delete(k) == pod' = [pod EXCEPT ![k] = AfterDelete(pod[k])]

=============================================================================
