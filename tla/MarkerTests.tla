----------------------------- MODULE MarkerTests -----------------------------
(***************************************************************************)
(* The two tests of src/src/assessment/network/mod.rs that are written out *)
(* by hand and not as a breach experiment: whether tenant 2 reaches a      *)
(* NodePort of tenant 1 (test_nodeport_autonomy), and whether it reaches a *)
(* pod of tenant 1 on the node's own network (test_node_network_isolation).*)
(* Both plant a server of tenant 1 that answers with a marker and ask for  *)
(* it, from a pod of tenant 2, at every address they can think of.         *)
(*                                                                         *)
(* A pod is what these tests can tell of it: Ready once its shell runs,    *)
(* then, if it is a server, announced by its shell as serving, and bound   *)
(* to its port some time after that or never; at an end at any time, and   *)
(* Terminating for as long as it likes once deleted.                       *)
(***************************************************************************)
EXTENDS Naturals, Sequences

CONSTANTS
  Addresses,        \* the addresses there are to be asked
  Rounds,           \* NODEPORT_PROBE_ROUNDS
  ServingAttempts   \* MARKER_SERVING_ATTEMPTS

ASSUME BoundsAssumption ==
  Rounds \in Nat \ {0} /\ ServingAttempts \in Nat

VARIABLES
  test,       \* which of the two tests this is
  pc,         \* where it is
  pod,        \* the pods it creates: tenant 1's marker pod and three of tenant 2
  services,   \* the tenants whose Service exists
  open,       \* the tenants whose NodePort the nodes have been programmed for
  said,       \* the pods whose log says SERVING, which is before the server is started
  tries,      \* how often the current polling of a log has slept
  addresses,  \* where tenant 1 may answer, as gathered, while the control comes first
  collision,  \* whether tenant 2 was denied the port, or "unasked"
  control,    \* whether tenant 2 reached its own NodePort, or "none"
  prober,     \* the pod that asks: the control's or the probe
  attempt,    \* what came of asking
  errands,    \* the deletes and waits still to be done
  after,      \* where they lead
  verdict,    \* the result
  leaked,     \* what was to be deleted and was not seen to go
  shared,     \* the truth: whether the tenants share one space of NodePorts
  leads       \* the truth: what the port leads tenant 2 to, at the addresses asked so far

vars == <<test, pc, pod, services, open, said, tries, addresses, collision, control,
          prober, attempt, errands, after, verdict, leaked, shared, leads>>

Pods == {"marker", "own", "selftest", "probe"}
PodStatus == {"absent", "pending", "running", "announced", "serving", "ended", "terminating"}
Tenants == {"tenant1", "tenant2"}

\* What a command in the prober came to, when one could be run: the marker of tenant
\* 1, that of tenant 2, something else, no connection, or an output of
\* which not all, or nothing, was received.
Answer == {"marker", "own", "other", "refused", "cut"}

(***************************************************************************)
(* NodePortAttempt.  Its hit, answered and unexpected are read off what    *)
(* was heard; left and round are where sweep_addresses is.  The last is    *)
(* history: whether tenant 1's server was to be reached when the last      *)
(* round began and, once the sweep is over, was still there.               *)
(***************************************************************************)
Attempt == [placed : BOOLEAN, exec_failed : BOOLEAN, heard : SUBSET Answer,
            targets : SUBSET Addresses, left : SUBSET Addresses, round : 0 .. Rounds - 1,
            reachable : BOOLEAN]

Fresh(targets) ==
  [placed |-> FALSE, exec_failed |-> FALSE, heard |-> {}, targets |-> targets,
   left |-> {}, round |-> 0, reachable |-> FALSE]

\* What an address may lead to, which is settled when it is first asked.
Lead == {"victim", "own", "other", "nowhere"}

Level == {"None", "Unknown", "Soft", "Hard"}
Why == {"unplanted", "unserved", "no_address", "refused", "unasked", "read",
        "collision", "unexpected", "control", "silence"}
Pending == [level |-> "pending"]

Errand == [do : {"delete", "await"}, to : Pods]
          \union [do : {"drop", "await"}, to : Tenants]

Labels == {"plant", "ready", "service", "serving", "own_pod", "claim", "addresses",
           "own_addresses", "own_serving", "place", "settle", "sweep",
           "reached_own", "judge", "errands", "return", "over"}

\* Every variable keeps its type, and the loops stay within their bounds.
TypeOK ==
  /\ test \in {"nodeport", "node_network"}
  /\ pc \in Labels
  /\ pod \in [Pods -> PodStatus]
  /\ open \subseteq services /\ services \subseteq Tenants
  /\ said \subseteq {"marker", "own"}
  /\ tries \in 0 .. ServingAttempts
  /\ addresses \subseteq Addresses
  /\ collision \in {"unasked", "none", "denied"}
  /\ control \in {"none", "reached", "missed"}
  /\ prober \in {"selftest", "probe"}
  /\ attempt \in Attempt
  /\ errands \in Seq(Errand)
  /\ after \in {"reached_own", "judge", "return"}
  /\ verdict \in [level : Level, why : Why] \union {Pending}
  /\ leaked \subseteq Pods \union Tenants
  /\ shared \in BOOLEAN
  /\ leads \in [Addresses -> Lead \union {"untried"}]

Init ==
  /\ test \in {"nodeport", "node_network"}
  /\ pc = "plant"
  /\ pod = [k \in Pods |-> "absent"]
  /\ services = {} /\ open = {} /\ said = {}
  /\ tries = 0
  /\ addresses = {}
  /\ collision = "unasked"
  /\ control = "none"
  /\ prober = "probe"
  /\ attempt = Fresh({})
  /\ errands = << >>
  /\ after = "return"
  /\ verdict = Pending
  /\ leaked = {}
  /\ shared \in BOOLEAN
  /\ leads = [a \in Addresses |-> "untried"]

cluster == <<pod, services, open, said>>
found == <<addresses, collision, control>>
asking == <<prober, attempt, leads>>
leaving == <<errands, after, verdict, leaked>>

-----------------------------------------------------------------------------
(***************************************************************************)
(* What the clusters do on their own.                                      *)
(***************************************************************************)
Becomes(k, status) == pod' = [pod EXCEPT ![k] = status]

Starts(k) == pod[k] = "pending" /\ Becomes(k, "running") /\ UNCHANGED said

\* unprivileged_http_server_command: the shell says SERVING and then starts httpd ...
Announces(k) ==
  /\ k \in {"marker", "own"}
  /\ pod[k] = "running"
  /\ Becomes(k, "announced")
  /\ said' = said \union {k}

\* ... which binds the port when it comes to that.
Binds(k) == pod[k] = "announced" /\ Becomes(k, "serving") /\ UNCHANGED said

Ends(k) ==
  pod[k] \in {"running", "announced", "serving"} /\ Becomes(k, "ended") /\ UNCHANGED said

Vanishes(k) ==
  pod[k] = "terminating" /\ Becomes(k, "absent") /\ UNCHANGED said

\* kube-proxy has seen the Service.
Opens(t) == open' = open \union {t}

Cluster ==
  /\ \/ /\ \E k \in Pods : Starts(k) \/ Announces(k) \/ Binds(k) \/ Ends(k) \/ Vanishes(k)
        /\ UNCHANGED open
     \/ /\ \E t \in services \ open : Opens(t)
        /\ UNCHANGED <<pod, said>>
  /\ UNCHANGED <<test, pc, services, tries, found, asking, leaving, shared>>

-----------------------------------------------------------------------------
(***************************************************************************)
(* The ways on.                                                            *)
(***************************************************************************)
Goto(label) == pc' = label /\ UNCHANGED <<leaving, test, shared>>

\* Deletes and waits, one request each, and then on.
Leave(todo, label) ==
  /\ pc' = IF todo = << >> THEN label ELSE "errands"
  /\ errands' = todo
  /\ after' = label
  /\ UNCHANGED <<test, leaked, shared>>

\* With the result, what the test has gathered goes out of scope.
Result(level, why) ==
  /\ verdict' = [level |-> level, why |-> why]
  /\ tries' = 0
  /\ addresses' = {} /\ collision' = "unasked" /\ control' = "none"
  /\ prober' = "probe" /\ attempt' = Fresh({})
  /\ leads' = [a \in Addresses |-> "untried"]

DeleteOf(k) == [do |-> "delete", to |-> k]
AwaitOf(k) == [do |-> "await", to |-> k]
DropOf(t) == [do |-> "drop", to |-> t]

\* cleanup_nodeport_test_resources.
\* Mutant: tenant 2's own marker pod, a later addition, is forgotten.
CleanUpTheFirst ==
  <<DropOf("tenant1"), DeleteOf("marker"), DropOf("tenant2"), DeleteOf("probe"),
    AwaitOf("tenant1"), AwaitOf("marker"), AwaitOf("probe")>>
CleanUp ==
  <<DropOf("tenant1"), DeleteOf("marker"), DropOf("tenant2"), DeleteOf("probe"),
    DeleteOf("own"),
    AwaitOf("tenant1"), AwaitOf("marker"), AwaitOf("probe"), AwaitOf("own")>>

\* The early returns delete the marker pod and do not wait for it to go.
GiveUp(why) == Leave(<<DeleteOf("marker")>>, "return") /\ Result("Unknown", why)

-----------------------------------------------------------------------------
(***************************************************************************)
(* Planting tenant 1's marker.                                             *)
(***************************************************************************)
Create(k) == pod[k] = "absent" /\ Becomes(k, "pending") /\ UNCHANGED <<services, open, said>>

Plant ==
  /\ pc = "plant"
  /\ Create("marker")
  /\ Goto("ready")
  /\ UNCHANGED <<tries, found, asking>>

\* Nothing was created, and nothing is taken away.
PlantFails ==
  /\ pc = "plant"
  /\ Leave(<< >>, "return")
  /\ Result("Unknown", "unplanted")
  /\ UNCHANGED cluster

IsReady(status) == status \in {"running", "announced", "serving"}

MarkerReady ==
  /\ pc = "ready"
  /\ IsReady(pod["marker"])
  /\ Goto(IF test = "nodeport" THEN "service" ELSE "addresses")
  /\ UNCHANGED <<cluster, tries, found, asking>>

\* The deadline of the wait, or an error of it.
MarkerNotReady ==
  /\ pc = "ready"
  /\ GiveUp("unplanted")
  /\ UNCHANGED cluster

CreateService ==
  /\ pc = "service"
  /\ services' = services \union {"tenant1"}
  /\ tries' = 0
  /\ Goto("serving")
  /\ UNCHANGED <<pod, open, said, found, asking>>

CreateServiceFails ==
  /\ pc = "service"
  /\ GiveUp("unplanted")
  /\ UNCHANGED cluster

(***************************************************************************)
(* marker_is_being_served: polling the log of a marker pod, where a log    *)
(* that cannot be read is an empty one.                                    *)
(***************************************************************************)
\* Mutant: readiness will do.
ReadyWillDo(k) == IsReady(pod[k])
SaysServing(k) == k \in said

\* Mutant: one look more.
OneMore(n) == n <= ServingAttempts
MoreToCome(n) == n < ServingAttempts

PollServing(k, label, next) ==
  /\ pc = label
  /\ MoreToCome(tries)
  /\ \/ SaysServing(k) /\ tries' = 0 /\ Goto(next)
     \/ tries' = tries + 1 /\ Goto(label)

AwaitServing ==
  /\ PollServing("marker", "serving", "own_pod")
  /\ UNCHANGED <<cluster, found, asking>>

NotServing ==
  /\ pc = "serving"
  /\ tries = ServingAttempts
  /\ Leave(CleanUp, "return")
  /\ Result("Unknown", "unserved")
  /\ UNCHANGED cluster

-----------------------------------------------------------------------------
(***************************************************************************)
(* Tenant 2 claims the same port, with a marker of its own behind it.      *)
(***************************************************************************)
\* The error of the create is dropped.
PlantOwn ==
  /\ pc = "own_pod"
  /\ Create("own") \/ UNCHANGED cluster
  /\ Goto("claim")
  /\ UNCHANGED <<tries, found, asking>>

\* One space has one holder of a port.
Free == ~ (shared /\ "tenant1" \in services)

Claim ==
  /\ pc = "claim"
  /\ Free
  /\ services' = services \union {"tenant2"}
  /\ collision' = "none"
  /\ Goto("addresses")
  /\ UNCHANGED <<pod, open, said, tries, addresses, control, asking>>

\* Any error of the create, whatever its reason.
ClaimFails ==
  /\ pc = "claim"
  /\ collision' = "denied"
  /\ Goto("addresses")
  /\ UNCHANGED <<cluster, tries, addresses, control, asking>>

(***************************************************************************)
(* candidate_node_addresses: whatever the node list, the pod's status and, *)
(* failing them, its routing table give.                                   *)
(***************************************************************************)
GatherAddresses ==
  /\ pc = "addresses"
  /\ \E some \in (SUBSET Addresses) \ {{}} :
       /\ addresses' = IF collision = "none" THEN some ELSE {}
       /\ prober' = "probe"
       /\ attempt' = Fresh(some)
  /\ Goto(IF collision = "none" THEN "own_addresses" ELSE "place")
  /\ UNCHANGED <<cluster, tries, collision, control, leads>>

NoAddresses ==
  /\ pc = "addresses"
  /\ IF test = "nodeport"
       THEN Leave(CleanUp, "return") /\ Result("Unknown", "no_address")
       ELSE GiveUp("no_address")
  /\ UNCHANGED cluster

(***************************************************************************)
(* The control: can tenant 2 reach a NodePort of its own?                  *)
(***************************************************************************)
GatherOwnAddresses ==
  /\ pc = "own_addresses"
  /\ \E some \in (SUBSET Addresses) \ {{}} :
       prober' = "selftest" /\ attempt' = Fresh(some)
  /\ Goto("own_serving")
  /\ UNCHANGED <<cluster, tries, found, leads>>

NoControl ==
  /\ \/ pc = "own_addresses"
     \/ pc = "own_serving" /\ tries = ServingAttempts
  /\ control' = "missed"
  /\ prober' = "probe"
  /\ attempt' = Fresh(addresses)
  /\ addresses' = {}
  /\ tries' = 0
  /\ Goto("place")
  /\ UNCHANGED <<cluster, collision, leads>>

AwaitOwnServing ==
  /\ PollServing("own", "own_serving", "place")
  /\ UNCHANGED <<cluster, found, asking>>

-----------------------------------------------------------------------------
(***************************************************************************)
(* probe_marker_from, for the control and for the probe; the node network  *)
(* test places its probe itself.                                           *)
(***************************************************************************)
Place ==
  /\ pc = "place"
  /\ Create(prober)
  /\ Goto("settle")
  /\ UNCHANGED <<tries, found, asking>>

\* Where the attempt of the control, and that of the probe, are looked at.
Probed == IF prober = "selftest" THEN "reached_own" ELSE "judge"

\* Not placed is no finding about the NodePort ...
PlaceFails ==
  /\ pc = "place"
  /\ test = "nodeport"
  /\ Goto(Probed)
  /\ UNCHANGED <<cluster, tries, found, asking>>

\* ... while a policy's refusal of a pod on the node network is one about the tenant.
NodeProbeRefused ==
  /\ pc = "place"
  /\ test = "node_network"
  /\ Leave(<<DeleteOf("marker")>>, "return")
  /\ Result("Soft", "refused")
  /\ UNCHANGED cluster

NodeProbeFails ==
  /\ pc = "place"
  /\ test = "node_network"
  /\ GiveUp("unasked")
  /\ UNCHANGED cluster

\* Whether tenant 1's server is to be reached, where an address leads to it.
VictimServes ==
  pod["marker"] = "serving" /\ (test = "nodeport" => "tenant1" \in open)

BeginRound(targets, round) ==
  [attempt EXCEPT !.placed = TRUE, !.targets = targets, !.left = targets,
                  !.round = round, !.reachable = round + 1 = Rounds /\ VictimServes]

\* escape_route_hops adds what the prober's own way out goes through.
Settle ==
  /\ pc = "settle"
  /\ IsReady(pod[prober])
  /\ \E hops \in IF test = "nodeport" THEN SUBSET Addresses ELSE {{}} :
       attempt' = BeginRound(attempt.targets \union hops, 0)
  /\ Goto("sweep")
  /\ UNCHANGED <<cluster, tries, found, prober, leads>>

\* Never ready: taken away again, without a wait.
NotSettled ==
  /\ pc = "settle"
  /\ IF test = "nodeport"
       THEN /\ Leave(<<DeleteOf(prober)>>, Probed)
            /\ UNCHANGED <<tries, found, asking, verdict>>
       ELSE /\ Leave(<<DeleteOf("marker"), DeleteOf("probe")>>, "return")
            /\ Result("Unknown", "unasked")
  /\ UNCHANGED cluster

(***************************************************************************)
(* sweep_addresses: every address in every round, until one has the marker.*)
(***************************************************************************)
OwnServes == pod["own"] = "serving" /\ "tenant2" \in open

Reply(lead) ==
  CASE lead = "victim" /\ VictimServes -> "marker"
    [] lead = "own" /\ OwnServes -> "own"
    [] lead = "other" -> "other"
    [] OTHER -> "refused"

Sought == IF prober = "selftest" THEN "own" ELSE "marker"

Hit == Sought \in attempt.heard
Answered == attempt.heard # {}

\* Neither the marker nor a failure to connect.
Unexpected(heard, sought) == heard \ {sought, "refused"} # {}

\* get_output returns what it has: nothing without a stream, less than all when the
\* connection drops.
Ask ==
  /\ pc = "sweep"
  /\ ~ Hit
  /\ pod[prober] = "running"
  /\ \E a \in attempt.left, lead \in Lead :
       /\ leads[a] \in {"untried", lead}
       /\ leads' = [leads EXCEPT ![a] = lead]
       /\ \E answer \in {Reply(lead), "cut"} :
            attempt' = [attempt EXCEPT !.heard = @ \union {answer}, !.left = @ \ {a}]
  /\ Goto("sweep")
  /\ UNCHANGED <<cluster, tries, found, prober>>

\* exec_command_in_container has failed three times over.
AskFails ==
  /\ pc = "sweep"
  /\ ~ Hit
  /\ \E a \in attempt.left :
       attempt' = [attempt EXCEPT !.exec_failed = TRUE, !.left = @ \ {a}]
  /\ Goto("sweep")
  /\ UNCHANGED <<cluster, tries, found, prober, leads>>

NextRound ==
  /\ pc = "sweep"
  /\ ~ Hit
  /\ attempt.left = {}
  /\ attempt.round + 1 < Rounds
  /\ attempt' = BeginRound(attempt.targets, attempt.round + 1)
  /\ Goto("sweep")
  /\ UNCHANGED <<cluster, tries, found, prober, leads>>

SweepDone ==
  /\ pc = "sweep"
  /\ Hit \/ (attempt.left = {} /\ attempt.round + 1 = Rounds)
  /\ attempt' = [attempt EXCEPT !.left = {}, !.round = 0,
                             !.reachable = @ /\ pod["marker"] = "serving"]
  /\ IF test = "nodeport"
       THEN Leave(<<DeleteOf(prober), AwaitOf(prober)>>, Probed)
       ELSE Leave(<<DeleteOf("marker"), DeleteOf("probe"),
                    AwaitOf("marker"), AwaitOf("probe")>>, "judge")
  /\ UNCHANGED <<cluster, tries, found, prober, verdict, leads>>

\* The control's attempt is done with; the probe has one of its own.
\* Mutant: it goes on with the control's.
KeepAttempt(targets) == [attempt EXCEPT !.targets = targets]
NewAttempt(targets) == Fresh(targets)

ControlDone ==
  /\ pc = "reached_own"
  /\ control' = IF Hit THEN "reached" ELSE "missed"
  /\ prober' = "probe"
  /\ attempt' = NewAttempt(addresses)
  /\ addresses' = {}
  /\ Goto("place")
  /\ UNCHANGED <<cluster, tries, collision, leads>>

-----------------------------------------------------------------------------
(***************************************************************************)
(* The verdict, strongest finding first.                                   *)
(***************************************************************************)
NothingAsked == ~ attempt.placed \/ (attempt.exec_failed /\ ~ Answered)

\* Mutant: what the control said is not looked at.
ControlAside == FALSE
ControlMissed == control = "missed"

JudgeNodePort ==
  IF Hit THEN Result("None", "read")
  ELSE IF NothingAsked THEN Result("Unknown", "unasked")
  ELSE IF collision = "denied" THEN Result("Soft", "collision")
  ELSE IF Unexpected(attempt.heard, Sought) THEN Result("Soft", "unexpected")
  ELSE IF ControlMissed THEN Result("Unknown", "control")
  ELSE Result("Hard", "silence")

JudgeNodeNetwork ==
  IF Hit THEN Result("None", "read")
  ELSE IF NothingAsked THEN Result("Unknown", "unasked")
  ELSE IF Unexpected(attempt.heard, Sought) THEN Result("Soft", "unexpected")
  ELSE Result("Hard", "silence")

Judge ==
  /\ pc = "judge"
  /\ IF test = "nodeport"
       THEN JudgeNodePort /\ Leave(CleanUp, "return")
       ELSE JudgeNodeNetwork /\ Leave(<< >>, "return")
  /\ UNCHANGED cluster

-----------------------------------------------------------------------------
(***************************************************************************)
(* Errands: a delete that fails, and a wait that gives up, are passed over.*)
(***************************************************************************)
NextIs(do) == pc = "errands" /\ errands # << >> /\ Head(errands).do = do
TickOff ==
  /\ errands' = Tail(errands)
  /\ pc' = IF errands' = << >> THEN after ELSE pc
  /\ UNCHANGED <<test, tries, found, asking, after, verdict, shared>>

\* A pod no node has been found for goes at once.
DeletePod ==
  /\ NextIs("delete")
  /\ LET k == Head(errands).to IN
       /\ leaked' = leaked \union {k}
       /\ \/ pod[k] # "absent" /\ Becomes(k, "terminating") /\ UNCHANGED said
          \/ pod[k] = "pending" /\ Becomes(k, "absent") /\ UNCHANGED said
          \/ UNCHANGED <<pod, said>>
  /\ TickOff /\ UNCHANGED <<services, open>>

DropService ==
  /\ NextIs("drop")
  /\ LET t == Head(errands).to IN
       \/ /\ services' = services \ {t}
          /\ open' = open \ {t}
          /\ leaked' = leaked \ {t}
       \/ leaked' = leaked \union {t} /\ UNCHANGED <<services, open>>
  /\ TickOff /\ UNCHANGED <<pod, said>>

AwaitGone ==
  /\ NextIs("await")
  /\ LET k == Head(errands).to IN
       \/ k \in Pods /\ pod[k] = "absent" /\ leaked' = leaked \ {k}
       \/ UNCHANGED leaked
  /\ TickOff /\ UNCHANGED cluster

Return ==
  /\ pc = "return"
  /\ Goto("over")
  /\ UNCHANGED <<cluster, tries, found, asking>>

-----------------------------------------------------------------------------
Harness ==
  \/ Plant \/ PlantFails
  \/ MarkerReady \/ MarkerNotReady
  \/ CreateService \/ CreateServiceFails
  \/ AwaitServing \/ NotServing
  \/ PlantOwn
  \/ Claim \/ ClaimFails
  \/ GatherAddresses \/ NoAddresses
  \/ GatherOwnAddresses \/ NoControl \/ AwaitOwnServing
  \/ Place \/ PlaceFails \/ NodeProbeRefused \/ NodeProbeFails
  \/ Settle \/ NotSettled
  \/ Ask \/ AskFails \/ NextRound \/ SweepDone
  \/ ControlDone
  \/ Judge
  \/ DeletePod \/ DropService \/ AwaitGone
  \/ Return

Ended == pc = "over" /\ UNCHANGED vars

Next == Harness \/ Cluster \/ Ended

Spec == Init /\ [][Next]_vars

-----------------------------------------------------------------------------
(***************************************************************************)
(* Properties.                                                             *)
(***************************************************************************)
Judged == verdict # Pending
Says(level) == ~ Judged /\ verdict'.level = level

\* A sharing that is reported is there: tenant 2 read tenant 1's marker at an address
\* that really leads to it, and not a marker of its own; and what is softer than that
\* was seen at an address that leads to somebody, but where the port was denied for
\* some other reason than its holder, or an output was lost on the way.
SharingIsReal ==
  [][/\ Says("None") => \E a \in attempt.targets : leads[a] = "victim"
     /\ Says("Soft") =>
          \/ verdict'.why \in {"refused", "collision"}
          \/ "cut" \in attempt.heard
          \/ \E a \in attempt.targets : leads[a] \in {"own", "other"}]_vars

\* "Reporting a broken probe as isolation is how a dead measurement turns into a
\* perfect score": whatever is not Unknown rests on a command that was run, or on a
\* policy that would not have the probe.  And Hard of the NodePort test is a
\* measurement: the spaces are separate, tenant 2 reached its own NodePort, some address
\* was heard to refuse, tenant 1's pod had said that it serves.  An address that leads to
\* tenant 1 was swept only where a command failed, where the server was gone by the end of
\* the sweep, or where it was not yet to be reached when the last round began: the nodes
\* were not programmed, or the server had not bound its port.  The last is left open by
\* marker_is_being_served, against what it and test_nodeport_autonomy say of it, for the
\* pod says SERVING before httpd is started.
HardIsMeasured ==
  [][/\ ~ Judged /\ Judged' /\ verdict'.level # "Unknown" /\ verdict'.why # "refused" =>
          attempt.placed /\ Answered
     /\ Says("Hard") /\ test = "nodeport" =>
          /\ ~ shared
          /\ control = "reached"
          /\ "refused" \in attempt.heard
          /\ "marker" \in said
          /\ \/ \A a \in attempt.targets : leads[a] # "victim"
             \/ attempt.exec_failed \/ ~ attempt.reachable]_vars

\* When the test is over, whatever still holds a name is what a delete was asked for
\* and nobody saw go.
NothingLeftBehind ==
  pc = "over" =>
    /\ \A k \in Pods : pod[k] # "absent" => k \in leaked
    /\ services \subseteq leaked

\* test_node_network_isolation says where it plants its marker that a victim who
\* could not plant anything leaves an intruder whose "finding nothing proves nothing":
\* no Hard without a marker that was at least said to be served.
HardNeedsAMarker == [][Says("Hard") => "marker" \in said]_vars

-----------------------------------------------------------------------------
(***************************************************************************)
(* The NodePort test implements the method of breach.rs, with the target's *)
(* own word that it serves its marker for the confirmation of the secret.  *)
(* The node network test does not, and is mapped to the method's first     *)
(* state.                                                                  *)
(***************************************************************************)
MethodStep ==
  IF test # "nodeport" THEN "plant"
  ELSE IF pc = "over" THEN "over"
  ELSE IF Judged THEN "clean"
  ELSE IF pc \in {"plant", "ready", "service", "serving"} THEN "plant"
  ELSE "attempt"

MethodLevel == IF test = "nodeport" /\ Judged THEN verdict.level ELSE "open"

MethodConfirmed ==
  /\ test = "nodeport"
  /\ IF Judged THEN verdict.why \notin {"unplanted", "unserved"}
               ELSE MethodStep = "attempt" /\ "marker" \in said

Method == INSTANCE BreachMethod
            WITH step <- MethodStep, left <- 1, level <- MethodLevel,
                 confirmed <- MethodConfirmed

\* Every behaviour of the NodePort test is one of the method: it judges, once, what was
\* attempted after the target had said that it serves, and no level but Unknown comes of
\* a target that had not.
ImplementsMethod == Method!Safety

-----------------------------------------------------------------------------
(***************************************************************************)
(* Why the properties hold.                                                *)
(***************************************************************************)
\* Where the test is, or where its errands lead it.
At == IF pc = "errands" THEN after ELSE pc
Probing == {"place", "settle", "sweep", "reached_own", "judge"}

\* Which pod asks, and what only the NodePort test ever does.
OnCourse ==
  /\ pc = "errands" <=> errands # << >>
  /\ Judged <=> At \in {"return", "over"}
  /\ At \in {"own_serving", "reached_own"} => prober = "selftest"
  /\ At = "judge" => prober = "probe"
  /\ test = "node_network" =>
       /\ At \notin {"service", "serving", "own_pod", "claim", "own_addresses", "own_serving",
                     "reached_own"}
       /\ prober = "probe" /\ collision = "unasked" /\ services = {}

\* What is there has been deleted, or is about to be, or is what the test works with.
Owed(todo) == {todo[i].to : i \in {j \in DOMAIN todo : todo[j].do # "await"}}
InUse ==
  IF At \in {"plant", "return", "over"} \/ (test = "node_network" /\ At = "judge") THEN {}
  ELSE {"marker"}
       \union (IF test = "nodeport" /\ At \notin {"ready", "service"}
               THEN {"own", "tenant1", "tenant2"} ELSE {})
       \union (IF At \in {"settle", "sweep"} THEN {prober} ELSE {})
       \union (IF At = "judge" THEN {"probe"} ELSE {})
Kept ==
  {k \in Pods : pod[k] # "absent"} \union services
    \subseteq leaked \union Owed(errands) \union InUse

\* The marker is said to be served once the NodePort test asks for anything.
Planted ==
  /\ At = "plant" => pod["marker"] = "absent" /\ "marker" \notin said
  /\ "marker" \in said => pod["marker"] \notin {"pending", "running"}
  /\ At \in {"serving", "own_pod", "claim"} => "tenant1" \in services
  /\ test = "nodeport" /\ At \in Probing \union {"own_pod", "claim", "addresses",
                                                "own_addresses", "own_serving"}
       => "marker" \in said

\* A port that was not denied is in a space of its own, and then there is a control.
Controlled ==
  /\ test = "nodeport" /\ At \in Probing \union {"addresses", "own_addresses", "own_serving"}
       => collision # "unasked"
  /\ collision = "none" => ~ shared
  /\ At \in Probing \union {"own_addresses", "own_serving"} => attempt.targets # {}
  /\ At \in {"own_addresses", "own_serving"} \/ (prober = "selftest" /\ At \in Probing) =>
       addresses # {}
  /\ collision = "none" /\ prober = "probe" /\ At \in Probing => control # "none"

\* What was heard was said by somebody, after the prober was placed; and once it is,
\* a command is run, or fails, at every address.
HeardSoFar ==
  /\ attempt.left \subseteq attempt.targets
  /\ "marker" \in attempt.heard => \E a \in attempt.targets : leads[a] = "victim"
  /\ \A l \in {"own", "other"} \intersect attempt.heard : \E a \in attempt.targets : leads[a] = l
  /\ Answered => attempt.placed
  /\ At \in {"own_serving", "place", "settle"} => ~ attempt.placed /\ ~ attempt.reachable
  /\ At = "sweep" =>
       /\ attempt.placed
       /\ (attempt.left = attempt.targets /\ attempt.round = 0) \/ attempt.exec_failed \/ Answered
  /\ At \in {"reached_own", "judge"} /\ attempt.placed => attempt.exec_failed \/ Answered

\* An address that leads to the marker while it is served has told; and a server that was
\* to be reached and is not does not come back.
YetToServe == pod["marker"] \in {"pending", "running", "announced"}
Told == {"marker", "cut"} \intersect attempt.heard # {}
SweptSoFar ==
  test = "nodeport" /\ attempt.reachable /\ ~ attempt.exec_failed =>
    /\ At = "sweep" =>
         /\ "tenant1" \in open /\ ~ YetToServe
         /\ pod["marker"] = "serving" =>
              \A a \in attempt.targets \ attempt.left : leads[a] = "victim" => Told
    /\ At = "judge" => \A a \in attempt.targets : leads[a] = "victim" => Told

\* The inductive invariant.
IInv ==
  /\ TypeOK /\ OnCourse /\ Kept /\ Planted /\ Controlled /\ HeardSoFar /\ SweptSoFar

=============================================================================
