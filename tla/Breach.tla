------------------------------- MODULE Breach -------------------------------
(***************************************************************************)
(* The cross-tenant breach experiment of src/src/assessment/breach.rs, and *)
(* a subsystem that runs several of them one after the other.              *)
(*                                                                         *)
(* One thread of control runs the experiments; every request to an API     *)
(* server may fail, every wait may give up, and the clusters go on         *)
(* changing between any two requests.  The names of pods and Services are  *)
(* fixed in the code and shared by experiments.                            *)
(***************************************************************************)
EXTENDS ProbePods, Sequences, Naturals

CONSTANTS
  Services,         \* the names of Services, each within one tenant's namespace
  Experiments,      \* the experiments there are, by name
  Plans,            \* which of them a subsystem may be asked for, in which order
  AddressAttempts,  \* ADDRESS_ATTEMPTS
  SecretAttempts    \* SECRET_ATTEMPTS

(***************************************************************************)
(* The fields of BreachExperiment that control flow depends on: the names  *)
(* it uses and the Service it declares, if any; what the intruder depends  *)
(* on and whether it asks for host privilege; how the secret is recovered  *)
(* and how a breach is judged.  "stated" is a published secret that a      *)
(* target may publish as unavailable.  Lasting is a fact of what is        *)
(* planted: it does not go with the target.                                *)
(***************************************************************************)
Experiment ==
  {x \in [target : Pods, intruder : Pods, service : SUBSET Services,
          aim : {"node", "address", "anywhere", "facts"},
          privileged : BOOLEAN, lasting : BOOLEAN,
          secret : {"published", "confirmed", "readiness", "stated"},
          judged : {"repeats", "reports", "reachability", "dns", "keyring", "escape"}] :
     x.target # x.intruder}

ASSUME PlanAssumption ==
  /\ Pods \intersect Services = {}
  /\ Experiments \in [DOMAIN Experiments -> Experiment]
  /\ Plans \subseteq Seq(DOMAIN Experiments) \ {<< >>}

ASSUME AttemptsAssumption ==
  AddressAttempts \in Nat /\ SecretAttempts \in Nat

VARIABLES
  services,   \* the Services that exist
  pc,         \* where run_breach_experiment is
  todo,       \* the experiments still to run, the current one first
  attempt,    \* how often the current polling loop has slept
  address,    \* the address plant_secret has: of nothing, the pod or the Service
  landed,     \* the intruder's status as observe read it
  outcome,    \* what the body of the current experiment came to
  cause,      \* of an error: a policy that refused the request, or something else
  verdict,    \* the result of the current experiment, and what it rests on
  world,      \* what is really true of the clusters, for the current experiment
  leaked      \* names whose deletion clean_up did not see through

local == <<attempt, address, landed>>
vars == <<pod, services, pc, todo, attempt, address, landed,
          outcome, cause, verdict, world, leaked>>

Level == {"None", "Unknown", "Soft", "Hard"}
Way == {"unplanted", "refused", "unreachable", "not_started", "saw"}
Snapshot == Status \union {"unread"}
Heard == Output \union {"unread"}
Listing == {"unread", "failed", "answered"}

(***************************************************************************)
(* The result with what it rests on: what the harness had read, and, as    *)
(* history, whether the target had really printed its secret, whether the  *)
(* intruder had really run and whether it was left with nothing to find,   *)
(* when the result was reached.                                            *)
(***************************************************************************)
Verdict == [level : Level, way : Way, landed : Snapshot, heard : Heard,
            listed : Listing, planted : BOOLEAN, attempted : BOOLEAN, missed : BOOLEAN]

NoVerdict == [level |-> "pending"]

Planting == {"create", "ready", "inspect", "address", "service",
             "service_address", "aim", "secret"}
Attempting == {"intrude", "watch", "land", "nodes", "logs"}
Body == Planting \union Attempting
CleanUp == {"delete_target", "delete_intruder", "wait_target", "wait_intruder",
            "delete_service", "return"}
Terminal == {"reported", "aborted", "panicked"}

(***************************************************************************)
(* The truth an experiment is after: the tenants are not separated, a rule *)
(* separates them, or nothing is shared; and whether the target's node is  *)
(* a node of the intruder's cluster.                                       *)
(***************************************************************************)
World == [exposure : {"open", "ruled", "apart"}, hosted : BOOLEAN]

exp == Experiments[Head(todo)]
Pinned(x) == x.aim \in {"node", "facts"}

\* Whose node the target is on matters to an intruder pinned to it.
Worlds(x) == {w \in World : w.hosted => Pinned(x)}

\* The target says that it had nothing to plant.
PlantedNone == exp.secret = "stated" /\ pod[exp.target].out = "nothing"

\* There is nothing to be found, or what there was is gone with the target.
Missed ==
  \/ PlantedNone
  \/ ~ exp.lasting /\ pod[exp.target].status # "running"

\* Every variable keeps its type; a polling loop stays within the bound of one of the two.
TypeOK ==
  /\ PodsTypeOK
  /\ services \subseteq Services
  /\ pc \in Body \union CleanUp \union Terminal
  /\ todo \in Seq(DOMAIN Experiments) \ {<< >>}
  /\ attempt \in 0 .. AddressAttempts \/ attempt \in 0 .. SecretAttempts
  /\ address \in {"none", "pod", "service"}
  /\ landed \in Snapshot
  /\ outcome \in {"open", "verdict", "error"}
  /\ cause \in {"none", "refusal", "fault"}
  /\ verdict \in Verdict \union {NoVerdict}
  /\ world \in World
  /\ leaked \subseteq Pods \union Services

Init ==
  /\ PodsInit
  /\ services = {}
  /\ pc = "create"
  /\ todo \in Plans
  /\ attempt = 0
  /\ address = "none"
  /\ landed = "unread"
  /\ outcome = "open"
  /\ cause = "none"
  /\ verdict = NoVerdict
  /\ world \in Worlds(exp)
  /\ leaked = {}

-----------------------------------------------------------------------------
(***************************************************************************)
(* Leaving the body.  `?` returns an error, and every other way out is a   *)
(* result; clean_up follows both, and what the body knew is gone.          *)
(***************************************************************************)
Forget == attempt' = 0 /\ address' = "none" /\ landed' = "unread"

Goto(label) ==
  /\ pc' = label
  /\ UNCHANGED <<todo, outcome, cause, verdict, world>>

Fail(why) ==
  /\ pc' = "delete_target"
  /\ outcome' = "error"
  /\ cause' = why
  /\ Forget
  /\ UNCHANGED <<todo, verdict, world>>

\* The evidence is what was read of the intruder: its status, its log, the nodes.
Conclude(level, way, status, output, nodes) ==
  /\ pc' = "delete_target"
  /\ outcome' = "verdict"
  /\ verdict' = [level |-> level, way |-> way, landed |-> status,
                 heard |-> output, listed |-> nodes,
                 planted |-> Planted(exp.target), attempted |-> Ran(exp.intruder),
                 missed |-> Missed]
  /\ Forget
  /\ UNCHANGED <<todo, cause, world>>

KeepPods == UNCHANGED <<pod, services, leaked>>

-----------------------------------------------------------------------------
(***************************************************************************)
(* plant_secret: steps 1 and 2 of the method.                              *)
(***************************************************************************)

TargetSpec(says) ==
  [pinned |-> FALSE, hosted |-> FALSE, staged |-> FALSE, needs |-> {}, says |-> says]

\* A target may be broken: it may run and never print what it should.
TargetWords ==
  {"marker", "silent"} \union (IF exp.secret = "stated" THEN {"nothing"} ELSE {})

\* The name must be free, or the API server answers AlreadyExists.
CreateTarget ==
  /\ pc = "create"
  /\ ~ Exists(exp.target)
  /\ \E says \in TargetWords : Create(exp.target, TargetSpec(says))
  /\ Goto("ready")
  /\ UNCHANGED <<services, leaked, local>>

\* A policy refused the target, or something is wrong with the run: `?` either way.
CreateTargetFails ==
  /\ pc = "create"
  /\ \E why \in {"refusal", "fault"} : Fail(why)
  /\ KeepPods

\* What wait_for_pod_to_be_ready returns Ok on.
ReadyStatus(status) == status = "running"

TargetReady ==
  /\ pc = "ready"
  /\ ReadyStatus(pod[exp.target].status)
  /\ Goto("inspect")
  /\ KeepPods /\ UNCHANGED local

\* The 290 s deadline, or an error of the status read or of the watch.
\* Mutant: the deadline bounds one watch request, and the watcher reconnects.
TargetAwaitedForever == FALSE
TargetNotReady == pc = "ready" /\ Fail("fault") /\ KeepPods

\* status.podIP may lag behind Running.
InspectTarget ==
  /\ pc = "inspect"
  /\ address' \in {"none", "pod"}
  /\ attempt' = 0
  /\ Goto("address")
  /\ KeepPods /\ UNCHANGED <<landed>>

InspectTargetFails == pc = "inspect" /\ Fail("fault") /\ KeepPods

AfterAddress == IF exp.service = {} THEN "aim" ELSE "service"

\* The bound of a polling loop.  Mutant: one attempt too many.
OneMoreAttempt(bound) == attempt <= bound
AttemptsLeft(bound) == attempt < bound

\* An answer without an address and a failed read leave it empty alike.
PollAddress ==
  /\ pc = "address"
  /\ address = "none"
  /\ AttemptsLeft(AddressAttempts)
  /\ attempt' = attempt + 1
  /\ address' \in {"none", "pod"}
  /\ Goto("address")
  /\ KeepPods /\ UNCHANGED <<landed>>

AddressSettled ==
  /\ pc = "address"
  /\ address # "none" \/ ~ AttemptsLeft(AddressAttempts)
  /\ Goto(AfterAddress)
  /\ KeepPods /\ UNCHANGED local

CreateService ==
  /\ pc = "service"
  /\ exp.service \intersect services = {}
  /\ services' = services \union exp.service
  /\ Goto("service_address")
  /\ UNCHANGED <<pod, leaked, local>>

CreateServiceFails ==
  /\ pc = "service"
  /\ \E why \in {"refusal", "fault"} : Fail(why)
  /\ KeepPods

\* The ClusterIP supersedes the pod's address; without one, that is kept.
ReadService ==
  /\ pc = "service_address"
  /\ address' \in {"service", address}
  /\ Goto("aim")
  /\ KeepPods /\ UNCHANGED <<attempt, landed>>

ReadServiceFails == pc = "service_address" /\ Fail("fault") /\ KeepPods

\* None from plant_secret: the experiment is not a measurement.
Unmeasured == Conclude("Unknown", "unplanted", "unread", "unread", "unread")

NothingToAimAt(x, a) == a = "none" /\ x.aim = "address"

Aim ==
  /\ pc = "aim"
  /\ KeepPods
  /\ IF NothingToAimAt(exp, address)
       THEN Unmeasured
       ELSE Goto("secret") /\ attempt' = 0 /\ UNCHANGED <<address, landed>>

\* Mutant of RecoverSecret: the target is taken at its word without one.
SecretAssumed(kind, output) == TRUE
\* recover_secret finds what it looks for in what the target printed, and the word
\* UNAVAILABLE is as good a token as a key's name.  The runtime's own error quotes
\* the command line, which holds it too.
RecoverSecret(kind, output) ==
  \/ kind = "readiness"
  \/ output \in {"marker", "quoted"}
  \/ kind = "stated" /\ output = "nothing"

\* get_pod_logs(..).unwrap_or_default()
LogReads(k) == {pod[k].out, "silent"}

PollSecret ==
  /\ pc = "secret"
  /\ AttemptsLeft(SecretAttempts)
  /\ \E output \in LogReads(exp.target) :
       IF RecoverSecret(exp.secret, output)
         THEN Goto("intrude") /\ attempt' = 0
         ELSE Goto("secret") /\ attempt' = attempt + 1
  /\ KeepPods /\ UNCHANGED <<address, landed>>

NoSecret ==
  /\ pc = "secret"
  /\ ~ AttemptsLeft(SecretAttempts)
  /\ KeepPods
  /\ Unmeasured

-----------------------------------------------------------------------------
(***************************************************************************)
(* observe: step 3, and the judgements of step 4.                          *)
(***************************************************************************)

\* What the intruder will print if it gets to make its attempt.
Prints(exposure) ==
  CASE exposure = "open" -> "marker"
    [] exposure = "ruled" -> "denied"
    [] exposure = "apart" -> "clear"

\* Two probes print a line before they try: the escape probe its capabilities, the
\* keyring probe that it has a keyring, unless it is refused one.
Staged ==
  \/ exp.judged = "escape"
  \/ exp.judged = "keyring" /\ world.exposure # "ruled"

IntruderSpec ==
  [pinned |-> Pinned(exp), hosted |-> world.hosted, staged |-> Staged,
   needs |-> IF exp.lasting THEN {} ELSE {exp.target},
   says |-> IF world.exposure = "open" /\ PlantedNone
              THEN "clear" ELSE Prints(world.exposure)]

CreateIntruder ==
  /\ pc = "intrude"
  /\ ~ Exists(exp.intruder)
  /\ Create(exp.intruder, IntruderSpec)
  /\ Goto("watch")
  /\ UNCHANGED <<services, leaked, local>>

\* A 403 or a 422, which is what admission_refusal recognises.
IntruderRefused ==
  /\ pc = "intrude"
  /\ KeepPods
  /\ Conclude("Soft", "refused", "unread", "unread", "unread")

\* AlreadyExists, or anything else that is wrong with the run itself.
CreateIntruderFails == pc = "intrude" /\ Fail("fault") /\ KeepPods

\* wait_for_completion ends when the pod has, on the watch's deadline, or on an
\* error of the watch: its result is dropped.
Watch ==
  /\ pc = "watch"
  /\ Goto("land")
  /\ KeepPods /\ UNCHANGED local

\* watch_pod_until_condition unwraps the request that opens the watch.  A panic
\* is no path through clean_up.
WatchPanics ==
  /\ pc = "watch"
  /\ Goto("panicked")
  /\ KeepPods /\ UNCHANGED local

\* never_placed: Pending with PodScheduled=False, or pinned and taken by nobody.
NeverPlaced(status, pinned) ==
  \/ status = "unschedulable"
  \/ status = "new" /\ pinned

\* never_started: the states a runtime leaves that would not take a container.
\* Mutant: the log of such a container is read as the probe's.
AlwaysStarted(status) == FALSE
NeverStarted(status) == status = "refused"

\* A pod that could not be read counts as neither.
AfterLanding(status) ==
  CASE NeverPlaced(status, Pinned(exp)) -> "nodes"
    [] NeverStarted(status) -> "not_started"
    [] OTHER -> "logs"

\* runtime_would_not_run: a sandbox declining a dangerous request, or a broken probe.
NotStartedLevel(privileged) == IF privileged THEN "Soft" ELSE "Unknown"

Land ==
  /\ pc = "land"
  /\ KeepPods
  /\ \E status \in {pod[exp.intruder].status, "unread"} :
       IF AfterLanding(status) = "not_started"
         THEN Conclude(NotStartedLevel(exp.privileged), "not_started",
                       status, "unread", "unread")
         ELSE Goto(AfterLanding(status)) /\ landed' = status /\ UNCHANGED <<attempt, address>>

\* The node is absent if this tenant's nodes do not include it, and if they
\* cannot be listed; an unpinned pod asks for none.
\* Mutant: the absence is inferred from the pod alone.
NodeAssumedAbsent(pinned, answer, hosted) == pinned
NodeAbsent(pinned, answer, hosted) ==
  pinned /\ (answer = "answered" => ~ hosted)

ListNodes ==
  /\ pc = "nodes"
  /\ KeepPods
  /\ \E answer \in {"answered", "failed"} :
       IF NodeAbsent(Pinned(exp), answer, world.hosted)
         THEN Conclude("Hard", "unreachable", landed, "unread", answer)
         ELSE Conclude(NotStartedLevel(exp.privileged), "not_started",
                       landed, "unread", answer)

\* judge_reachability: an answer, no answer, a rejection, or nothing usable.  The
\* refused container's error quotes every one of a probe's words, and the first that
\* is looked for is the breach.
JudgeReachability(output) ==
  CASE output \in {"marker", "quoted"} -> "None"
    [] output = "clear" -> "Hard"
    [] output = "denied" -> "Soft"
    [] OTHER -> "Unknown"

\* judge_dns_resolution: a record, NXDOMAIN, REFUSED, or no answer that says anything.
JudgeDns(output) ==
  CASE output \in {"marker", "quoted"} -> "None"
    [] output = "clear" -> "Hard"
    [] output = "denied" -> "Soft"
    [] OTHER -> "Unknown"

\* classify_user_namespace: a keyring of its own that lacks the key, or no keyrings
\* in this kernel, is isolation; to have one is said before the search is made.
ClassifyKeyring(output) ==
  CASE output \in {"marker", "quoted"} -> "None"
    [] output \in {"clear", "begun"} -> "Hard"
    [] output = "denied" -> "Soft"
    [] OTHER -> "Unknown"

\* classify_privileged_escape with privileged_verdict: once the capabilities are
\* reported, whatever is neither a breach nor a denial reached no other tenant.
ClassifyEscape(output) ==
  CASE output \in {"marker", "quoted"} -> "None"
    [] output = "denied" -> "Soft"
    [] output \in {"clear", "begun"} -> "Hard"
    [] OTHER -> "Unknown"

\* judge.  The secret itself is never in a command line; a marker is.
\* Mutant: whatever is not a breach is isolation.
JudgeSilence(judged, output) ==
  IF output \in {"marker", "quoted"} THEN "None" ELSE "Hard"
Judge(judged, output) ==
  CASE judged = "repeats" -> IF output = "marker" THEN "None" ELSE "Hard"
    [] judged = "reports" -> IF output \in {"marker", "quoted"} THEN "None" ELSE "Hard"
    [] judged = "reachability" -> JudgeReachability(output)
    [] judged = "dns" -> JudgeDns(output)
    [] judged = "keyring" -> ClassifyKeyring(output)
    [] judged = "escape" -> ClassifyEscape(output)

ReadLogs ==
  /\ pc = "logs"
  /\ KeepPods
  /\ \E output \in LogReads(exp.intruder) :
       Conclude(Judge(exp.judged, output), "saw", landed, output, "unread")

-----------------------------------------------------------------------------
(***************************************************************************)
(* clean_up: both deletes, then both waits, then the Service.  No error of *)
(* any of them is looked at.                                               *)
(***************************************************************************)
Cleaning(label, next) ==
  /\ pc = label
  /\ Goto(next)
  /\ UNCHANGED local

DeletePod(k, label, next) ==
  /\ Cleaning(label, next)
  /\ Delete(k) \/ UNCHANGED pod
  /\ UNCHANGED <<services, leaked>>

\* wait_for_pod_deletion has seen the pod go.
\* Mutant: the wait is left out.
NotAwaited(k) == TRUE
SeenGone(k) == ~ Exists(k)

WaitGone(k, label, next) ==
  /\ Cleaning(label, next)
  /\ SeenGone(k)
  /\ leaked' = leaked \ {k}
  /\ UNCHANGED <<pod, services>>

\* The 120 s deadline, an error of the watch, or a failed read, which the wait
\* takes for a pod that is gone.
WaitGivesUp(k, label, next) ==
  /\ Cleaning(label, next)
  /\ Exists(k)
  /\ leaked' = leaked \union {k}
  /\ UNCHANGED <<pod, services>>

DeleteTarget == DeletePod(exp.target, "delete_target", "delete_intruder")
DeleteIntruder == DeletePod(exp.intruder, "delete_intruder", "wait_target")
WaitTarget ==
  \/ WaitGone(exp.target, "wait_target", "wait_intruder")
  \/ WaitGivesUp(exp.target, "wait_target", "wait_intruder")
WaitIntruder ==
  \/ WaitGone(exp.intruder, "wait_intruder", "delete_service")
  \/ WaitGivesUp(exp.intruder, "wait_intruder", "delete_service")

DeleteService ==
  /\ Cleaning("delete_service", "return")
  /\ \/ /\ services' = services \ exp.service
        /\ leaked' = leaked \ exp.service
     \/ /\ leaked' = leaked \union (services \intersect exp.service)
        /\ UNCHANGED services
  /\ UNCHANGED pod

(***************************************************************************)
(* The caller: an error ends the whole assessment, a verdict leads on to   *)
(* the next experiment.                                                    *)
(***************************************************************************)
ReturnError ==
  /\ pc = "return"
  /\ outcome = "error"
  /\ Goto("aborted")
  /\ KeepPods /\ UNCHANGED local

NextExperiment ==
  /\ pc = "return"
  /\ outcome = "verdict"
  /\ Tail(todo) # << >>
  /\ pc' = "create"
  /\ todo' = Tail(todo)
  /\ outcome' = "open"
  /\ verdict' = NoVerdict
  /\ world' \in Worlds(Experiments[Head(todo')])
  /\ KeepPods /\ UNCHANGED <<cause, local>>

Report ==
  /\ pc = "return"
  /\ outcome = "verdict"
  /\ Tail(todo) = << >>
  /\ Goto("reported")
  /\ KeepPods /\ UNCHANGED local

-----------------------------------------------------------------------------
Plant ==
  \/ CreateTarget \/ CreateTargetFails
  \/ TargetReady \/ TargetNotReady
  \/ InspectTarget \/ InspectTargetFails
  \/ PollAddress \/ AddressSettled
  \/ CreateService \/ CreateServiceFails
  \/ ReadService \/ ReadServiceFails
  \/ Aim
  \/ PollSecret \/ NoSecret

Observe ==
  \/ CreateIntruder \/ IntruderRefused \/ CreateIntruderFails
  \/ Watch \/ WatchPanics
  \/ Land \/ ListNodes \/ ReadLogs

CleansUp ==
  \/ DeleteTarget \/ DeleteIntruder
  \/ WaitTarget \/ WaitIntruder
  \/ DeleteService

Harness == Plant \/ Observe \/ CleansUp \/ ReturnError \/ NextExperiment \/ Report

Cluster ==
  /\ \E k \in Pods : ClusterStep(k)
  /\ UNCHANGED <<services, pc, todo, local, outcome, cause, verdict, world, leaked>>

\* The program has ended.
Ended == pc \in Terminal /\ UNCHANGED vars

Next == Harness \/ Cluster \/ Ended

\* Every request and every wait of the harness is bounded in time, so a step it
\* can take is taken.  Nothing is assumed of the clusters.
Spec == Init /\ [][Next]_vars /\ WF_vars(Harness)

-----------------------------------------------------------------------------
(***************************************************************************)
(* Properties.                                                             *)
(***************************************************************************)
Judged == verdict # NoVerdict

\* Nothing lets the intruder's side observe the victim's.
Separate ==
  \/ world.exposure # "open"
  \/ Pinned(exp) /\ ~ world.hosted

\* Any level but Unknown is a measurement, and a measurement rests on a secret
\* the target really printed: readiness, an address, or a log that merely quotes
\* the target's command line are no substitute.  The exception is a target that
\* prints that it has none.
MeasurementIsGrounded ==
  Judged /\ verdict.level # "Unknown" =>
    verdict.planted \/ exp.secret \in {"readiness", "stated"}

\* A breach is reported only when the intruder ran and the platform let it see,
\* but for one window: the status of the intruder could not be read, or was read
\* while its container was still to start, and the runtime then refused it and
\* quoted the marker in its error.
BreachIsReal ==
  Judged /\ verdict.level = "None" =>
    \/ verdict.attempted /\ world.exposure = "open"
    \/ verdict.heard = "quoted" /\ verdict.landed \in {"unread", "new", "waiting"}

\* A report of hard isolation is true of the platform, except where it rests on
\* silence, on a first line, on a refused container's error that could not be told
\* from output, on a node list nobody could read, or on a target that planted
\* nothing or did not live to be found.
HardIsTrue ==
  Judged /\ verdict.level = "Hard" =>
    \/ Separate
    \/ verdict.heard \in {"silent", "begun", "quoted"}
    \/ verdict.listed = "failed"
    \/ verdict.missed

\* An experiment that decides for itself never reads silence as isolation.
SilenceDecidesNothing ==
  Judged /\ verdict.level = "Hard" /\ verdict.way = "saw"
         /\ exp.judged \notin {"repeats", "reports"}
    => /\ verdict.attempted
       /\ Separate \/ verdict.heard = "begun" \/ verdict.missed

\* When the next experiment begins, and when the run ends in a report or an
\* error, every probe object that still holds a fixed name is one whose deletion
\* clean_up asked for and did not see through.
NothingLeftBehind ==
  pc \in {"create", "reported", "aborted"} =>
    /\ \A k \in Pods : Exists(k) => k \in leaked
    /\ services \subseteq leaked

\* No experiment holds the assessment for ever, whatever the clusters do.
Termination == <>(pc \in Terminal)

\* How far the end of an experiment is, and what is left of a polling loop.
Ahead ==
  [create |-> 18, ready |-> 17, inspect |-> 16, address |-> 15, service |-> 14,
   service_address |-> 13, aim |-> 12, secret |-> 11,
   intrude |-> 10, watch |-> 9, land |-> 8, nodes |-> 7, logs |-> 7,
   delete_target |-> 6, delete_intruder |-> 5, wait_target |-> 4, wait_intruder |-> 3,
   delete_service |-> 2, return |-> 1, reported |-> 0, aborted |-> 0, panicked |-> 0]
AttemptsAhead ==
  LET bound == IF pc = "address" THEN AddressAttempts ELSE SecretAttempts
  IN IF AttemptsLeft(bound) THEN bound - attempt ELSE 0

\* Every step of the harness brings its end nearer -- an experiment fewer, or a
\* later point of the same one, or an attempt fewer of the same loop -- and no
\* step of the clusters puts it off.  All three are natural numbers, so that the
\* program takes only so many steps, whatever the clusters do.
Nearer ==
  \/ Len(todo') < Len(todo)
  \/ todo' = todo /\ Ahead[pc'] < Ahead[pc]
  \/ todo' = todo /\ pc' = pc /\ AttemptsAhead' < AttemptsAhead
EveryStepCounts ==
  [][IF Harness THEN Nearer ELSE UNCHANGED <<todo, pc, attempt>>]_vars

-----------------------------------------------------------------------------
(***************************************************************************)
(* The experiment as written in the code implements the method.            *)
(***************************************************************************)
MethodStep ==
  IF pc \in Planting THEN "plant"
  ELSE IF pc \in Attempting THEN "attempt"
  ELSE IF pc \in CleanUp THEN "clean"
  ELSE "over"

MethodLevel ==
  IF outcome = "error" THEN "error" ELSE IF Judged THEN verdict.level ELSE "open"

\* Confirmed is what is true of the target, not what the harness believes of it:
\* it has printed its secret, where there is one to print.  A target whose word it is
\* that there is none ("KEYSTATE: UNAVAILABLE") counts too, as it does in the code.
TargetConfirmed(planted) == planted \/ exp.secret \in {"readiness", "stated"}

MethodConfirmed ==
  IF Judged
    THEN verdict.way # "unplanted" /\ TargetConfirmed(verdict.planted)
    ELSE /\ outcome # "error" /\ MethodStep # "plant"
         /\ TargetConfirmed(Planted(exp.target))

Method == INSTANCE BreachMethod
            WITH step <- MethodStep, left <- Len(todo), level <- MethodLevel,
                 confirmed <- MethodConfirmed

\* Every behaviour of the code, with its polling, its failing requests and its
\* clean-up, is one of the method.
ImplementsMethod == Method!Spec

-----------------------------------------------------------------------------
(***************************************************************************)
(* Why the safety properties hold: what is true at each point of the       *)
(* program, between any two requests.                                      *)
(***************************************************************************)

\* Leaving the body settles the outcome, and only a result is judged.
OutcomeKnown ==
  /\ pc \in Body \union {"panicked"} => outcome = "open"
  /\ pc \in CleanUp => outcome \in {"verdict", "error"}
  /\ pc = "aborted" => outcome = "error"
  /\ pc = "reported" => outcome = "verdict"
  /\ Judged <=> outcome = "verdict"

\* Only a container that was refused has the runtime's error for a log.
QuotesAreErrors ==
  \A k \in Pods :
    pod[k].out = "quoted" => pod[k].status \in {"refused", "terminating"}

AfterReady == {"inspect", "address", "service", "service_address", "aim", "secret"}
AfterCreate == {"watch", "land", "nodes", "logs"}

\* Nobody touches the target between its readiness and clean_up ...
TargetStands == pc \in AfterReady \union Attempting => Ran(exp.target)

\* ... so the secret that was read is still what it printed.
SecretIn(k) ==
  \/ exp.secret = "readiness"
  \/ Planted(k)
  \/ exp.secret = "stated" /\ Ran(k) /\ pod[k].out = "nothing"

SecretStands ==
  pc \in Attempting \union {"panicked"} => SecretIn(exp.target)

\* The intruder is the pod this experiment created, and prints what is true.
IntruderIsOurs ==
  pc \in AfterCreate =>
    /\ pod[exp.intruder].status \notin {"absent", "terminating"}
    /\ pod[exp.intruder].spec = IntruderSpec
    /\ pod[exp.intruder].out \in
         {"silent", "quoted", "begun", "clear", Prints(world.exposure)}
    /\ pod[exp.intruder].out \notin {"silent", "quoted"} => Ran(exp.intruder)
    /\ pod[exp.intruder].out = "clear" => world.exposure = "apart" \/ Missed

\* A pod pinned to a node its cluster does not have is never taken.
UnhostedNeverRuns ==
  pc \in AfterCreate /\ Pinned(exp) /\ ~ world.hosted =>
    pod[exp.intruder].status = "new" /\ pod[exp.intruder].out = "silent"

\* The status that was read is stale by the time the log is, but not arbitrary.
LandedIsPast ==
  pc = "logs" =>
    /\ landed \in {"unread", "new", "waiting", "running", "done"}
    /\ landed \in {"running", "done"} => Ran(exp.intruder)

\* Which names may be taken at each point without being leaked.
MayExist ==
  CASE pc \in {"create", "return", "reported", "aborted"} -> {}
    [] pc = "wait_intruder" -> {exp.intruder} \union exp.service
    [] pc = "delete_service" -> exp.service
    [] OTHER -> {exp.target, exp.intruder} \union exp.service

LeaksKnown ==
  /\ \A k \in Pods : Exists(k) => k \in leaked \union MayExist
  /\ services \subseteq leaked \union MayExist

VerdictSound ==
  /\ MeasurementIsGrounded
  /\ BreachIsReal
  /\ HardIsTrue
  /\ SilenceDecidesNothing

\* The inductive invariant.
IInv ==
  /\ TypeOK
  /\ OutcomeKnown
  /\ QuotesAreErrors
  /\ TargetStands
  /\ SecretStands
  /\ IntruderIsOurs
  /\ UnhostedNeverRuns
  /\ LandedIsPast
  /\ LeaksKnown
  /\ VerdictSound

=============================================================================
