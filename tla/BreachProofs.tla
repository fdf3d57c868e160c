---------------------------- MODULE BreachProofs ----------------------------
(***************************************************************************)
(* Proofs about the breach experiment, for any number of experiments, any  *)
(* names and any bounds of the polling loops.                              *)
(***************************************************************************)
EXTENDS Breach, SequenceTheorems, TLAPS

-----------------------------------------------------------------------------
(***************************************************************************)
(* The pods.                                                               *)
(***************************************************************************)

\* The record operators stay within their types.
LEMMA VacantType == Vacant \in PodRecord
  BY DEF Vacant, PodRecord, PodSpec, Status, Output, Words

LEMMA CreatedType == ASSUME NEW spec \in PodSpec PROVE Created(spec) \in PodRecord
  BY DEF Created, PodRecord, Status, Output, Words

LEMMA AfterDeleteType == ASSUME NEW p \in PodRecord PROVE AfterDelete(p) \in PodRecord
  BY VacantType DEF AfterDelete, PodRecord, Status

\* What a step the cluster takes on its own can do to the pod it is about: a
\* container that ran has run and what it printed stays; only a refused container
\* has an error for a log; no pod comes to be; and a pod that is not being deleted
\* stays, keeps its specification and prints nothing but what it was made to, or
\* that it found nothing when what it looks for has gone.
LEMMA ClusterEffect ==
  ASSUME PodsTypeOK, NEW k \in Pods, ClusterStep(k)
  PROVE  /\ PodsTypeOK'
         /\ \A j \in Pods : j # k => pod'[j] = pod[j]
         /\ Ran(k) => Ran(k)' /\ (pod[k].out \notin {"silent", "begun"} => pod'[k].out = pod[k].out)
         /\ pod[k].status = "done" => pod'[k].status # "running"
         /\ pod'[k].out = "quoted" =>
              pod[k].out = "quoted" \/ pod'[k].status = "refused"
         /\ pod[k].out = "quoted" /\ pod[k].status \in {"refused", "terminating"} =>
              pod'[k].out = "silent" \/ pod'[k].status = pod[k].status
         /\ Exists(k)' => Exists(k)
         /\ pod[k].status \notin {"absent", "terminating"} =>
              /\ pod'[k].status \notin {"absent", "terminating"}
              /\ pod'[k].spec = pod[k].spec
              /\ \/ pod'[k].out \in {pod[k].out, "quoted", "begun", pod[k].spec.says}
                 \/ pod'[k].out = "clear" /\ FindsNothing(pod[k].spec)
              /\ pod'[k].out \notin {"silent", "quoted"} => pod'[k].out = pod[k].out \/ Ran(k)'
              /\ pod[k].status = "new" /\ pod[k].spec.pinned => pod[k].spec.hosted
  <1> USE DEF PodsTypeOK, PodRecord, PodSpec, Status, Output, Words, Ran, Exists, Becomes
  <1>1. CASE NotSchedulable(k) BY <1>1 DEF NotSchedulable
  <1>2. CASE Claim(k) BY <1>2 DEF Claim
  <1>3. CASE RefuseStart(k) BY <1>3 DEF RefuseStart
  <1>4. CASE Start(k) BY <1>4 DEF Start
  <1>5. CASE Speak(k)
    <2>1. /\ pod[k].status = "running" /\ pod[k].out \in {"silent", "begun"}
          /\ pod' = [pod EXCEPT ![k].out = NextWord(pod[k])]
      BY <1>5 DEF Speak
    <2>2. \/ NextWord(pod[k]) \in {"begun", pod[k].spec.says}
          \/ NextWord(pod[k]) = "clear" /\ FindsNothing(pod[k].spec)
      BY DEF NextWord
    <2>3. NextWord(pod[k]) \in Words /\ NextWord(pod[k]) # "quoted"
      BY <2>2
    <2>4. QED
      BY <2>1, <2>2, <2>3
  <1>6. CASE Exit(k) BY <1>6 DEF Exit
  <1>7. CASE Vanish(k) BY <1>7, VacantType DEF Vanish, Vacant
  <1>8. QED BY <1>1, <1>2, <1>3, <1>4, <1>5, <1>6, <1>7 DEF ClusterStep

-----------------------------------------------------------------------------
(***************************************************************************)
(* Types.                                                                  *)
(***************************************************************************)

\* What PlanAssumption says of the current experiment.
LEMMA ExpType ==
  ASSUME todo \in Seq(DOMAIN Experiments) \ {<< >>}
  PROVE  /\ exp \in Experiment
         /\ exp.target \in Pods /\ exp.intruder \in Pods
         /\ exp.service \subseteq Services
         /\ exp.target # exp.intruder
         /\ exp.privileged \in BOOLEAN /\ exp.lasting \in BOOLEAN
         /\ exp.target \notin exp.service /\ exp.intruder \notin exp.service
<1>1. Head(todo) \in DOMAIN Experiments
  BY HeadTailProperties
<1>2. exp \in Experiment
  BY <1>1, PlanAssumption DEF exp
<1>3. QED
  BY <1>2, PlanAssumption DEF Experiment

\* What is left when the current experiment is done.
LEMMA TodoShrinks ==
  ASSUME todo \in Seq(DOMAIN Experiments) \ {<< >>}
  PROVE  /\ Tail(todo) \in Seq(DOMAIN Experiments)
         /\ Len(todo) \in Nat \ {0}
         /\ Len(Tail(todo)) = Len(todo) - 1
         /\ Tail(todo) = << >> <=> ~ (Len(todo) > 1)
<1>1. /\ Tail(todo) \in Seq(DOMAIN Experiments)
      /\ Len(Tail(todo)) = Len(todo) - 1
  BY HeadTailProperties
<1>2. Len(todo) \in Nat /\ Len(todo) # 0
  BY EmptySeq, LenProperties
<1>3. Tail(todo) = << >> <=> Len(Tail(todo)) = 0
  BY <1>1, EmptySeq
<1>4. QED
  BY <1>1, <1>2, <1>3

\* What a judgement can be drawn from: a breach from a marker, hard isolation from
\* anything else where the intruder reports what it saw, and from no silence where
\* the experiment classifies it.
LEMMA Judgement ==
  ASSUME NEW x \in Experiment, NEW output \in Output
  PROVE  /\ Judge(x.judged, output) \in Level
         /\ Judge(x.judged, output) = "None" => output \in {"marker", "quoted"}
         /\ Judge(x.judged, output) = "Hard" =>
              /\ output # "marker"
              /\ x.judged \in {"repeats", "reports"} \/ output \in {"clear", "begun"}
<1>1. /\ x.judged \in {"repeats", "reports", "reachability", "dns", "keyring", "escape"}
      /\ output \in {"silent", "begun", "marker", "nothing", "clear", "denied", "quoted"}
  BY DEF Experiment, Output, Words
<1>2. CASE x.judged \in {"repeats", "reports"}
  BY <1>2, Zenon DEF Judge, Level
<1>3. CASE x.judged = "reachability"
  BY <1>1, <1>3, Zenon DEF Judge, JudgeReachability, Level
<1>4. CASE x.judged = "dns"
  BY <1>1, <1>4, Zenon DEF Judge, JudgeDns, Level
<1>5. CASE x.judged = "keyring"
  BY <1>1, <1>5, Zenon DEF Judge, ClassifyKeyring, Level
<1>6. CASE x.judged = "escape"
  BY <1>1, <1>6, Zenon DEF Judge, ClassifyEscape, Level
<1>7. QED
  BY <1>1, <1>2, <1>3, <1>4, <1>5, <1>6

\* The three things an intruder may find.
LEMMA PrintsType ==
  ASSUME NEW w \in World
  PROVE  /\ Prints(w.exposure) \in {"marker", "denied", "clear"}
         /\ Prints(w.exposure) = "marker" <=> w.exposure = "open"
         /\ Prints(w.exposure) = "clear" <=> w.exposure = "apart"
<1>1. w.exposure \in {"open", "ruled", "apart"}
  BY DEF World
<1>2. QED
  BY <1>1, Zenon DEF Prints

\* The request for the intruder is well formed.
LEMMA IntruderSpecType ==
  ASSUME TypeOK
  PROVE  IntruderSpec \in PodSpec
<1>1. Prints(world.exposure) \in Words
  BY PrintsType DEF TypeOK, Words
<1>2. Pinned(exp) \in BOOLEAN /\ Staged \in BOOLEAN /\ world.hosted \in BOOLEAN
  BY DEF Pinned, Staged, TypeOK, World
<1>3. exp.target \in Pods
  BY ExpType DEF TypeOK
<1>4. QED
  BY <1>1, <1>2, <1>3 DEF IntruderSpec, PodSpec, Words

\* A result is well formed whatever it rests on.
LEMMA ConcludeType ==
  ASSUME TypeOK, KeepPods, NEW level \in Level, NEW way \in Way, NEW status \in Snapshot,
         NEW output \in Heard, NEW nodes \in Listing,
         Conclude(level, way, status, output, nodes)
  PROVE  TypeOK'
<1>1. Missed \in BOOLEAN
  BY DEF Missed
<1>2. QED
  BY <1>1, AttemptsAssumption
     DEF TypeOK, KeepPods, Conclude, Forget, Verdict, Planted, Ran, PodsTypeOK, Snapshot,
         CleanUp

\* No step leaves the types.
LEMMA TypeStep == TypeOK /\ [Next]_vars => TypeOK'
<1> SUFFICES ASSUME TypeOK, [Next]_vars PROVE TypeOK'
  OBVIOUS
<1> USE PlanAssumption, AttemptsAssumption, ExpType
    DEF TypeOK, Body, Planting, Attempting, CleanUp, Terminal, Goto, Fail, Conclude, Forget, KeepPods,
        local, Verdict, Planted, Ran, PodsTypeOK, Snapshot
<1>1. CASE CreateTarget
  <2>1. PICK says \in TargetWords : Create(exp.target, TargetSpec(says))
    BY <1>1 DEF CreateTarget
  <2>2. TargetSpec(says) \in PodSpec
    BY DEF TargetSpec, TargetWords, PodSpec, Words
  <2>3. PodsTypeOK'
    BY <2>1, <2>2, CreatedType DEF Create
  <2>4. QED
    BY <1>1, <2>3 DEF CreateTarget
<1>2. CASE CreateTargetFails
  BY <1>2 DEF CreateTargetFails
<1>3. CASE TargetReady
  BY <1>3 DEF TargetReady
<1>4. CASE TargetNotReady
  BY <1>4 DEF TargetNotReady
<1>5. CASE InspectTarget
  BY <1>5 DEF InspectTarget
<1>6. CASE InspectTargetFails
  BY <1>6 DEF InspectTargetFails
<1>7. CASE PollAddress
  BY <1>7 DEF PollAddress, AttemptsLeft
<1>8. CASE AddressSettled
  BY <1>8 DEF AddressSettled, AfterAddress
<1>9. CASE CreateService
  BY <1>9 DEF CreateService
<1>10. CASE CreateServiceFails
  BY <1>10 DEF CreateServiceFails
<1>11. CASE ReadService
  BY <1>11 DEF ReadService
<1>12. CASE ReadServiceFails
  BY <1>12 DEF ReadServiceFails
<1>13. CASE Aim
  <2>1. CASE NothingToAimAt(exp, address)
    BY <1>13, <2>1, ConcludeType DEF Aim, Unmeasured, Way, Heard, Listing, Level
  <2>2. CASE ~ NothingToAimAt(exp, address)
    BY <1>13, <2>2 DEF Aim
  <2>3. QED
    BY <2>1, <2>2
<1>14. CASE PollSecret
  BY <1>14 DEF PollSecret, AttemptsLeft
<1>15. CASE NoSecret
  BY <1>15, ConcludeType DEF NoSecret, Unmeasured, Way, Heard, Listing, Level
<1>16. CASE CreateIntruder
  <2>1. IntruderSpec \in PodSpec
    BY IntruderSpecType
  <2>2. PodsTypeOK'
    BY <1>16, <2>1, CreatedType DEF CreateIntruder, Create
  <2>3. QED
    BY <1>16, <2>2 DEF CreateIntruder
<1>17. CASE IntruderRefused
  BY <1>17, ConcludeType DEF IntruderRefused, Way, Heard, Listing, Level
<1>18. CASE CreateIntruderFails
  BY <1>18 DEF CreateIntruderFails
<1>19. CASE Watch
  BY <1>19 DEF Watch
<1>20. CASE WatchPanics
  BY <1>20 DEF WatchPanics
<1>21. CASE Land
  <2>1. PICK status \in {pod[exp.intruder].status, "unread"} :
          IF AfterLanding(status) = "not_started"
            THEN Conclude(NotStartedLevel(exp.privileged), "not_started",
                          status, "unread", "unread")
            ELSE Goto(AfterLanding(status)) /\ landed' = status /\ UNCHANGED <<attempt, address>>
    BY <1>21 DEF Land
  <2>2. status \in Snapshot
    BY DEF PodRecord, Snapshot
  <2>3. NotStartedLevel(exp.privileged) \in Level
    BY DEF NotStartedLevel, Level
  <2>4. CASE AfterLanding(status) = "not_started"
    <3>1. /\ KeepPods
          /\ Conclude(NotStartedLevel(exp.privileged), "not_started", status, "unread", "unread")
      BY <1>21, <2>1, <2>4 DEF Land
    <3>2. "not_started" \in Way /\ "unread" \in Heard /\ "unread" \in Listing
      BY DEF Way, Heard, Listing
    <3> HIDE DEF TypeOK, Conclude, KeepPods, Snapshot
    <3>3. QED
      BY <2>2, <2>3, <3>1, <3>2, ConcludeType
  <2>5. CASE AfterLanding(status) # "not_started"
    <3>1. AfterLanding(status) \in {"nodes", "logs"}
      BY <2>5 DEF AfterLanding
    <3>2. QED
      BY <1>21, <2>1, <2>2, <2>5, <3>1 DEF Land
  <2>6. QED
    BY <2>4, <2>5
<1>22. CASE ListNodes
  <2>1. PICK answer \in {"answered", "failed"} :
          IF NodeAbsent(Pinned(exp), answer, world.hosted)
            THEN Conclude("Hard", "unreachable", landed, "unread", answer)
            ELSE Conclude(NotStartedLevel(exp.privileged), "not_started",
                          landed, "unread", answer)
    BY <1>22 DEF ListNodes
  <2>2. NotStartedLevel(exp.privileged) \in Level
    BY DEF NotStartedLevel, Level
  <2>3. KeepPods
    BY <1>22 DEF ListNodes
  <2>4. landed \in Snapshot /\ "unread" \in Heard /\ answer \in Listing /\ "Hard" \in Level
    BY DEF Heard, Listing, Level
  <2> HIDE DEF TypeOK, Conclude, KeepPods, Snapshot
  <2>5. CASE NodeAbsent(Pinned(exp), answer, world.hosted)
    BY <2>1, <2>3, <2>4, <2>5, ConcludeType DEF Way
  <2>6. CASE ~ NodeAbsent(Pinned(exp), answer, world.hosted)
    BY <2>1, <2>2, <2>3, <2>4, <2>6, ConcludeType DEF Way
  <2>7. QED
    BY <2>5, <2>6
<1>23. CASE ReadLogs
  <2>1. PICK output \in LogReads(exp.intruder) :
          Conclude(Judge(exp.judged, output), "saw", landed, output, "unread")
    BY <1>23 DEF ReadLogs
  <2>2. output \in Heard /\ output \in Output
    BY DEF LogReads, PodRecord, Output, Words, Heard
  <2>3. Judge(exp.judged, output) \in Level
    BY <2>2, Judgement
  <2>4. KeepPods
    BY <1>23 DEF ReadLogs
  <2>5. QED
    BY <2>1, <2>2, <2>3, <2>4, ConcludeType DEF Way, Listing
<1>24. CASE DeleteTarget
  BY <1>24, AfterDeleteType DEF DeleteTarget, DeletePod, Cleaning, Delete, PodsTypeOK
<1>25. CASE DeleteIntruder
  BY <1>25, AfterDeleteType DEF DeleteIntruder, DeletePod, Cleaning, Delete, PodsTypeOK
<1>26. CASE WaitTarget
  BY <1>26 DEF WaitTarget, WaitGone, WaitGivesUp, Cleaning
<1>27. CASE WaitIntruder
  BY <1>27 DEF WaitIntruder, WaitGone, WaitGivesUp, Cleaning
<1>28. CASE DeleteService
  BY <1>28 DEF DeleteService, Cleaning
<1>29. CASE ReturnError
  BY <1>29 DEF ReturnError
<1>30. CASE NextExperiment
  <2>1. todo' \in Seq(DOMAIN Experiments) \ {<< >>}
    BY <1>30, TodoShrinks DEF NextExperiment
  <2>2. QED
    BY <1>30, <2>1 DEF NextExperiment, Worlds
<1>31. CASE Report
  BY <1>31 DEF Report
<1>32. CASE Cluster
  <2>1. PICK k \in Pods : ClusterStep(k)
    BY <1>32 DEF Cluster
  <2>2. PodsTypeOK'
    BY <2>1, ClusterEffect
  <2>3. QED
    BY <1>32, <2>2 DEF Cluster
<1>33. CASE Ended \/ UNCHANGED vars
  BY <1>33 DEF Ended, vars, PodsTypeOK
<1>34. QED
  BY <1>1, <1>2, <1>3, <1>4, <1>5, <1>6, <1>7, <1>8, <1>9, <1>10, <1>11, <1>12, <1>13,
     <1>14, <1>15, <1>16, <1>17, <1>18, <1>19, <1>20, <1>21, <1>22, <1>23, <1>24, <1>25,
     <1>26, <1>27, <1>28, <1>29, <1>30, <1>31, <1>32, <1>33
     DEF Next, Harness, Plant, Observe, CleansUp

\* The program never leaves its control points, its loops never exceed their
\* bounds, and what it holds is what it can hold.
THEOREM TypeCorrect == Spec => []TypeOK
<1>1. Init => TypeOK
  BY PlanAssumption, AttemptsAssumption, VacantType
     DEF Init, TypeOK, PodsTypeOK, PodsInit, Body, Planting, Attempting, Snapshot, Worlds
<1>2. QED
  BY <1>1, TypeStep, PTL DEF Spec

-----------------------------------------------------------------------------
(***************************************************************************)
(* The inductive invariant: first the three ways in which a step of the    *)
(* body that leaves the pods alone can go on, then the steps one by one.   *)
(***************************************************************************)

\* Leaving the body leaves only the names and the result to account for.
LEMMA LeaveBody ==
  ASSUME IInv, TypeOK', KeepPods, UNCHANGED <<todo, world>>,
         pc \in Body, pc' = "delete_target",
         outcome' \in {"verdict", "error"}, Judged' <=> outcome' = "verdict",
         VerdictSound'
  PROVE  IInv'
  <1> USE DEF IInv
  <1>1. OutcomeKnown'
    BY DEF OutcomeKnown, Body, Planting, Attempting, CleanUp
  <1>2. QuotesAreErrors'
    BY DEF QuotesAreErrors, KeepPods
  <1>3. (TargetStands /\ SecretStands /\ IntruderIsOurs /\ UnhostedNeverRuns /\ LandedIsPast)'
    BY DEF TargetStands, SecretStands, IntruderIsOurs, UnhostedNeverRuns, LandedIsPast,
           AfterReady, Attempting, AfterCreate
  <1>4. LeaksKnown'
    BY DEF LeaksKnown, MayExist, KeepPods, exp, Exists, Body, Planting, Attempting
  <1>5. QED
    BY <1>1, <1>2, <1>3, <1>4

\* An error is no result, so there is none to be wrong.
LEMMA FailKeeps ==
  ASSUME IInv, TypeOK', KeepPods, pc \in Body, NEW why, Fail(why)
  PROVE  IInv'
  <1>1. ~ Judged /\ ~ Judged'
    BY DEF IInv, OutcomeKnown, Fail, Judged, Body, Planting, Attempting
  <1>2. VerdictSound'
    BY <1>1 DEF VerdictSound, MeasurementIsGrounded, BreachIsReal, HardIsTrue,
                SilenceDecidesNothing
  <1>3. QED
    BY <1>1, <1>2, LeaveBody DEF Fail

\* A result is sound when its level is borne out by the pods and the world.
LEMMA ConcludeKeeps ==
  ASSUME IInv, TypeOK', KeepPods, pc \in Body,
         NEW level, NEW way, NEW status, NEW output, NEW nodes,
         Conclude(level, way, status, output, nodes),
         level # "Unknown" => Planted(exp.target) \/ exp.secret \in {"readiness", "stated"},
         level = "None" =>
           \/ Ran(exp.intruder) /\ world.exposure = "open"
           \/ output = "quoted" /\ status \in {"unread", "new", "waiting"},
         level = "Hard" =>
           \/ Separate \/ Missed
           \/ output \in {"silent", "begun", "quoted"} \/ nodes = "failed",
         level = "Hard" /\ way = "saw" /\ exp.judged \notin {"repeats", "reports"} =>
           Ran(exp.intruder) /\ (Separate \/ output = "begun" \/ Missed)
  PROVE  IInv'
  <1>1. verdict' = [level |-> level, way |-> way, landed |-> status,
                    heard |-> output, listed |-> nodes,
                    planted |-> Planted(exp.target), attempted |-> Ran(exp.intruder),
                    missed |-> Missed]
    BY DEF Conclude
  <1>2. exp' = exp /\ world' = world /\ (Separate' <=> Separate)
    BY DEF Conclude, exp, Separate, Pinned
  <1>3. VerdictSound'
    BY <1>1, <1>2 DEF VerdictSound, MeasurementIsGrounded, BreachIsReal, HardIsTrue,
                      SilenceDecidesNothing
  <1>4. Judged'
    <2>1. "way" \in DOMAIN verdict'
      BY <1>1
    <2>2. "way" \notin DOMAIN NoVerdict
      BY DEF NoVerdict
    <2>3. QED
      BY <2>1, <2>2 DEF Judged
  <1>5. QED
    BY <1>3, <1>4, LeaveBody DEF Conclude

\* Going on within the body, with the pods as they are.
LEMMA GoOn ==
  ASSUME IInv, TypeOK', KeepPods, NEW label, Goto(label),
         pc \in Body \ {"create"}, label \in Body \ {"create"},
         Ran(exp.target),
         label \in Attempting => SecretIn(exp.target),
         label \in AfterCreate => pc \in AfterCreate,
         LandedIsPast'
  PROVE  IInv'
  <1> USE DEF IInv, Goto, KeepPods
  <1>1. exp' = exp
    BY DEF exp
  <1>2. OutcomeKnown'
    BY DEF OutcomeKnown, Body, Planting, Attempting, CleanUp, Judged
  <1>3. QuotesAreErrors' /\ TargetStands'
    BY <1>1 DEF QuotesAreErrors, TargetStands, Ran
  <1>4. SecretStands'
    BY <1>1 DEF SecretStands, SecretIn, Planted, Ran, Body, Planting, Attempting
  <1>5. (IntruderIsOurs /\ UnhostedNeverRuns)'
    BY <1>1 DEF IntruderIsOurs, UnhostedNeverRuns, IntruderSpec, Staged, PlantedNone, Missed,
                Ran, Prints, Pinned
  <1>6. LeaksKnown'
    BY <1>1 DEF LeaksKnown, MayExist, Exists, Body, Planting, Attempting
  <1>7. VerdictSound'
    BY <1>1 DEF VerdictSound, MeasurementIsGrounded, BreachIsReal, HardIsTrue,
                SilenceDecidesNothing, Judged, Separate, Pinned
  <1>8. QED
    BY <1>2, <1>3, <1>4, <1>5, <1>6, <1>7

\* plant_secret keeps the invariant: the target stands from its readiness on, and
\* nothing but its own words gets past the polling of its log.
LEMMA PlantKeeps ==
  ASSUME IInv, TypeOK', Plant
  PROVE  IInv'
<1> USE DEF Body, Planting, Attempting, AfterReady, AfterCreate
<1>1. CASE CreateTarget
  <2>1. PICK says \in TargetWords : Create(exp.target, TargetSpec(says))
    BY <1>1 DEF CreateTarget
  <2>2. /\ exp' = exp /\ pc' = "ready" /\ pc = "create"
        /\ UNCHANGED <<services, leaked, outcome, verdict, world>>
    BY <1>1 DEF CreateTarget, Goto, exp
  <2>3. /\ pod'[exp.target] = Created(TargetSpec(says))
        /\ \A k \in Pods : k # exp.target => pod'[k] = pod[k]
    BY <2>1, ExpType DEF Create, IInv, TypeOK, PodsTypeOK
  <2>4. OutcomeKnown'
    BY <2>2 DEF IInv, OutcomeKnown, CleanUp, Judged
  <2>5. QuotesAreErrors'
    BY <2>3 DEF IInv, QuotesAreErrors, Created
  <2>6. (TargetStands /\ SecretStands /\ IntruderIsOurs /\ UnhostedNeverRuns /\ LandedIsPast)'
    BY <2>2 DEF TargetStands, SecretStands, IntruderIsOurs, UnhostedNeverRuns, LandedIsPast
  <2>7. LeaksKnown'
    BY <2>2, <2>3 DEF IInv, LeaksKnown, MayExist, Exists
  <2>8. VerdictSound'
    BY <2>2 DEF IInv, VerdictSound, MeasurementIsGrounded, BreachIsReal, HardIsTrue,
                SilenceDecidesNothing, Judged, Separate, Pinned
  <2>9. QED
    BY <2>4, <2>5, <2>6, <2>7, <2>8 DEF IInv
<1>2. CASE CreateTargetFails \/ TargetNotReady \/ InspectTargetFails
             \/ CreateServiceFails \/ ReadServiceFails
  BY <1>2, FailKeeps DEF CreateTargetFails, TargetNotReady, InspectTargetFails,
                         CreateServiceFails, ReadServiceFails
<1>3. CASE TargetReady
  BY <1>3, GoOn DEF TargetReady, ReadyStatus, Ran, LandedIsPast, Goto
<1>4. CASE InspectTarget
  BY <1>4, GoOn DEF InspectTarget, IInv, TargetStands, LandedIsPast, Goto
<1>5. CASE PollAddress
  BY <1>5, GoOn DEF PollAddress, IInv, TargetStands, LandedIsPast, Goto
<1>6. CASE AddressSettled
  BY <1>6, GoOn DEF AddressSettled, AfterAddress, IInv, TargetStands, LandedIsPast, Goto
<1>7. CASE CreateService
  <2>1. /\ exp' = exp /\ pc' = "service_address" /\ pc = "service"
        /\ UNCHANGED <<pod, leaked, outcome, verdict, world>>
        /\ services' = services \union exp.service
    BY <1>7 DEF CreateService, Goto, exp
  <2>2. OutcomeKnown'
    BY <2>1 DEF IInv, OutcomeKnown, CleanUp, Judged
  <2>3. QuotesAreErrors'
    BY <2>1 DEF IInv, QuotesAreErrors
  <2>4. (TargetStands /\ SecretStands /\ IntruderIsOurs /\ UnhostedNeverRuns /\ LandedIsPast)'
    BY <2>1 DEF IInv, TargetStands, SecretStands, IntruderIsOurs, UnhostedNeverRuns,
                LandedIsPast, Ran
  <2>5. LeaksKnown'
    BY <2>1 DEF IInv, LeaksKnown, MayExist, Exists
  <2>6. VerdictSound'
    BY <2>1 DEF IInv, VerdictSound, MeasurementIsGrounded, BreachIsReal, HardIsTrue,
                SilenceDecidesNothing, Judged, Separate, Pinned
  <2>7. QED
    BY <2>2, <2>3, <2>4, <2>5, <2>6 DEF IInv
<1>8. CASE ReadService
  BY <1>8, GoOn DEF ReadService, IInv, TargetStands, LandedIsPast, Goto
<1>9. CASE Aim
  <2>1. CASE NothingToAimAt(exp, address)
    BY <1>9, <2>1, ConcludeKeeps DEF Aim, Unmeasured
  <2>2. CASE ~ NothingToAimAt(exp, address)
    BY <1>9, <2>2, GoOn DEF Aim, IInv, TargetStands, LandedIsPast, Goto
  <2>3. QED
    BY <2>1, <2>2
<1>10. CASE PollSecret
  <2>1. PICK output \in LogReads(exp.target) :
          IF RecoverSecret(exp.secret, output)
            THEN Goto("intrude") /\ attempt' = 0
            ELSE Goto("secret") /\ attempt' = attempt + 1
    BY <1>10 DEF PollSecret
  <2>2. Ran(exp.target) /\ KeepPods /\ pc = "secret"
    BY <1>10 DEF PollSecret, IInv, TargetStands
  <2>3. CASE RecoverSecret(exp.secret, output)
    <3>1. output # "quoted"
      BY <2>2, ExpType DEF LogReads, Ran, IInv, QuotesAreErrors, TypeOK
    <3>2. SecretIn(exp.target)
      BY <2>2, <2>3, <3>1 DEF RecoverSecret, LogReads, SecretIn, Planted
    <3>3. Goto("intrude")
      BY <2>1, <2>3
    <3>4. LandedIsPast'
      BY <3>3 DEF LandedIsPast, Goto
    <3>5. QED
      BY <2>2, <3>2, <3>3, <3>4, GoOn
  <2>4. CASE ~ RecoverSecret(exp.secret, output)
    <3>1. Goto("secret")
      BY <2>1, <2>4
    <3>2. LandedIsPast'
      BY <3>1 DEF LandedIsPast, Goto
    <3>3. QED
      BY <2>2, <3>1, <3>2, GoOn
  <2>5. QED
    BY <2>3, <2>4
<1>11. CASE NoSecret
  BY <1>11, ConcludeKeeps DEF NoSecret, Unmeasured
<1>12. QED
  BY <1>1, <1>2, <1>3, <1>4, <1>5, <1>6, <1>7, <1>8, <1>9, <1>10, <1>11 DEF Plant

\* What the harness read of the intruder just before it decides where to look: an
\* assigned pod, or one that may yet be.
LEMMA AfterLandingLogs ==
  ASSUME IInv, pc = "land", NEW status \in {pod[exp.intruder].status, "unread"},
         AfterLanding(status) = "logs"
  PROVE  /\ status \in {"unread", "new", "waiting", "running", "done"}
         /\ status \in {"running", "done"} => Ran(exp.intruder)
<1>1. status \notin {"unschedulable", "refused"}
  BY DEF AfterLanding, NeverPlaced, NeverStarted
<1>2. pod[exp.intruder].status \in Status \ {"absent", "terminating"}
  BY ExpType DEF IInv, IntruderIsOurs, AfterCreate, TypeOK, PodsTypeOK, PodRecord
<1>3. QED
  BY <1>1, <1>2 DEF Status, Ran

\* A log that was read of an intruder that may have run is its own words, or the
\* error of a container whose refusal the status that was read does not show yet.
LEMMA LogIsSound ==
  ASSUME IInv, pc = "logs", NEW output \in LogReads(exp.intruder)
  PROVE  /\ output \in Output
         /\ output \in {"silent", "quoted", "begun", "clear", Prints(world.exposure)}
         /\ output \notin {"silent", "quoted"} => Ran(exp.intruder)
         /\ output = "clear" => world.exposure = "apart" \/ Missed
         /\ output = "quoted" => landed \in {"unread", "new", "waiting"}
<1>1. exp.intruder \in Pods /\ pod[exp.intruder].out \in Output /\ "silent" \in Output
  BY ExpType DEF IInv, TypeOK, PodsTypeOK, PodRecord, Output, Words
<1>2. output \in {pod[exp.intruder].out, "silent"}
  BY DEF LogReads
<1>3. pod[exp.intruder].out = "quoted" => ~ Ran(exp.intruder)
  BY <1>1 DEF IInv, QuotesAreErrors, Ran
<1>4. QED
  BY <1>1, <1>2, <1>3 DEF IInv, IntruderIsOurs, AfterCreate, LandedIsPast

\* observe keeps the invariant: each of its judgements is borne out by the pods.
LEMMA ObserveKeeps ==
  ASSUME IInv, TypeOK', Observe
  PROVE  IInv'
<1> USE DEF Body, Planting, Attempting, AfterReady, AfterCreate
<1>1. CASE CreateIntruder
  <2>1. /\ exp' = exp /\ pc' = "watch" /\ pc = "intrude"
        /\ UNCHANGED <<services, leaked, outcome, verdict, world>>
        /\ IntruderSpec' = IntruderSpec
    <3>1. /\ exp' = exp /\ pc' = "watch" /\ pc = "intrude"
          /\ UNCHANGED <<services, leaked, outcome, verdict, world>>
      BY <1>1 DEF CreateIntruder, Goto, exp
    <3>2. pod'[exp.target] = pod[exp.target]
      BY <1>1, ExpType DEF CreateIntruder, Create, IInv, TypeOK, PodsTypeOK
    <3>3. QED
      BY <3>1, <3>2 DEF IntruderSpec, PlantedNone, Staged, Pinned, Prints
  <2>2. /\ exp.intruder \in Pods /\ exp.target # exp.intruder
        /\ pod'[exp.intruder] = Created(IntruderSpec)
        /\ \A k \in Pods : k # exp.intruder => pod'[k] = pod[k]
    BY <1>1, ExpType DEF CreateIntruder, Create, IInv, TypeOK, PodsTypeOK
  <2>3. OutcomeKnown'
    BY <2>1 DEF IInv, OutcomeKnown, CleanUp, Judged
  <2>4. QuotesAreErrors'
    BY <2>2 DEF IInv, QuotesAreErrors, Created
  <2>5. TargetStands' /\ SecretStands'
    BY <2>1, <2>2, ExpType DEF IInv, TypeOK, TargetStands, SecretStands, SecretIn,
                               Planted, Ran
  <2>6. (IntruderIsOurs /\ UnhostedNeverRuns /\ LandedIsPast)'
    BY <2>1, <2>2 DEF IntruderIsOurs, UnhostedNeverRuns, LandedIsPast, Created
  <2>7. LeaksKnown'
    BY <2>1, <2>2 DEF IInv, LeaksKnown, MayExist, Exists
  <2>8. VerdictSound'
    BY <2>1 DEF IInv, VerdictSound, MeasurementIsGrounded, BreachIsReal, HardIsTrue,
                SilenceDecidesNothing, Judged, Separate, Pinned
  <2>9. QED
    BY <2>3, <2>4, <2>5, <2>6, <2>7, <2>8 DEF IInv
<1>2. CASE IntruderRefused
  BY <1>2, ConcludeKeeps DEF IntruderRefused, IInv, SecretStands, SecretIn
<1>3. CASE CreateIntruderFails
  BY <1>3, FailKeeps DEF CreateIntruderFails
<1>4. CASE Watch
  BY <1>4, GoOn DEF Watch, IInv, TargetStands, SecretStands, LandedIsPast, Goto
<1>5. CASE WatchPanics
  <2>1. /\ exp' = exp /\ pc' = "panicked" /\ pc = "watch"
        /\ UNCHANGED <<pod, services, leaked, outcome, verdict, world>>
    BY <1>5 DEF WatchPanics, Goto, KeepPods, exp
  <2>2. OutcomeKnown'
    BY <2>1 DEF IInv, OutcomeKnown, CleanUp, Judged
  <2>3. (QuotesAreErrors /\ TargetStands /\ IntruderIsOurs /\ UnhostedNeverRuns
           /\ LandedIsPast)'
    BY <2>1 DEF IInv, QuotesAreErrors, TargetStands, IntruderIsOurs, UnhostedNeverRuns,
                LandedIsPast
  <2>4. SecretStands'
    BY <2>1 DEF IInv, SecretStands, SecretIn, Planted, Ran
  <2>5. LeaksKnown'
    BY <2>1 DEF IInv, LeaksKnown, MayExist, Exists
  <2>6. VerdictSound'
    BY <2>1 DEF IInv, VerdictSound, MeasurementIsGrounded, BreachIsReal, HardIsTrue,
                SilenceDecidesNothing, Judged, Separate, Pinned
  <2>7. QED
    BY <2>2, <2>3, <2>4, <2>5, <2>6 DEF IInv
<1>6. CASE Land
  <2>1. PICK status \in {pod[exp.intruder].status, "unread"} :
          IF AfterLanding(status) = "not_started"
            THEN Conclude(NotStartedLevel(exp.privileged), "not_started",
                          status, "unread", "unread")
            ELSE Goto(AfterLanding(status)) /\ landed' = status
                   /\ UNCHANGED <<attempt, address>>
    BY <1>6 DEF Land
  <2>2. KeepPods /\ pc = "land"
    BY <1>6 DEF Land
  <2>3. CASE AfterLanding(status) = "not_started"
    BY <2>1, <2>2, <2>3, ConcludeKeeps
       DEF NotStartedLevel, IInv, SecretStands, SecretIn
  <2>4. CASE AfterLanding(status) # "not_started"
    <3>1. Goto(AfterLanding(status)) /\ landed' = status
      BY <2>1, <2>4
    <3>2. AfterLanding(status) \in {"nodes", "logs"}
      BY <2>4 DEF AfterLanding
    <3>3. LandedIsPast'
      BY <2>2, <3>1, <3>2, AfterLandingLogs DEF LandedIsPast, Goto, KeepPods, Ran, exp
    <3>4. Ran(exp.target) /\ SecretIn(exp.target)
      BY <2>2 DEF IInv, TargetStands, SecretStands
    <3>5. QED
      BY <2>2, <3>1, <3>2, <3>3, <3>4, GoOn
  <2>5. QED
    BY <2>3, <2>4
<1>7. CASE ListNodes
  <2>1. PICK answer \in {"answered", "failed"} :
          IF NodeAbsent(Pinned(exp), answer, world.hosted)
            THEN Conclude("Hard", "unreachable", landed, "unread", answer)
            ELSE Conclude(NotStartedLevel(exp.privileged), "not_started",
                          landed, "unread", answer)
    BY <1>7 DEF ListNodes
  <2>2. /\ KeepPods /\ pc = "nodes"
        /\ Planted(exp.target) \/ exp.secret \in {"readiness", "stated"}
    BY <1>7 DEF ListNodes, IInv, SecretStands, SecretIn
  <2>3. CASE NodeAbsent(Pinned(exp), answer, world.hosted)
    <3>1. Separate \/ answer = "failed"
      BY <2>3 DEF NodeAbsent, Separate
    <3>2. QED
      BY <2>1, <2>2, <2>3, <3>1, ConcludeKeeps
  <2>4. CASE ~ NodeAbsent(Pinned(exp), answer, world.hosted)
    BY <2>1, <2>2, <2>4, ConcludeKeeps DEF NotStartedLevel
  <2>5. QED
    BY <2>3, <2>4
<1>8. CASE ReadLogs
  <2>1. PICK output \in LogReads(exp.intruder) :
          Conclude(Judge(exp.judged, output), "saw", landed, output, "unread")
    BY <1>8 DEF ReadLogs
  <2>2. /\ KeepPods /\ pc = "logs"
        /\ Planted(exp.target) \/ exp.secret \in {"readiness", "stated"}
    BY <1>8 DEF ReadLogs, IInv, SecretStands, SecretIn
  <2>3. /\ output \in Output
        /\ output \in {"silent", "quoted", "begun", "clear", Prints(world.exposure)}
        /\ output \notin {"silent", "quoted"} => Ran(exp.intruder)
        /\ output = "clear" => world.exposure = "apart" \/ Missed
        /\ output = "quoted" => landed \in {"unread", "new", "waiting"}
    BY <2>2, LogIsSound
  <2>4. /\ Prints(world.exposure) \in {"marker", "denied", "clear"}
        /\ Prints(world.exposure) = "marker" <=> world.exposure = "open"
    BY PrintsType DEF IInv, TypeOK
  <2>5. /\ Judge(exp.judged, output) = "None" => output \in {"marker", "quoted"}
        /\ Judge(exp.judged, output) = "Hard" =>
             /\ output # "marker"
             /\ exp.judged \in {"repeats", "reports"} \/ output \in {"clear", "begun"}
    BY <2>3, ExpType, Judgement DEF IInv, TypeOK
  <2>6. Judge(exp.judged, output) = "None" =>
          \/ Ran(exp.intruder) /\ world.exposure = "open"
          \/ output = "quoted" /\ landed \in {"unread", "new", "waiting"}
    BY <2>3, <2>4, <2>5
  <2>7. Judge(exp.judged, output) = "Hard" =>
          Separate \/ Missed \/ output \in {"silent", "begun", "quoted"}
    BY <2>3, <2>4, <2>5 DEF Separate
  <2>8. Judge(exp.judged, output) = "Hard" /\ exp.judged \notin {"repeats", "reports"} =>
          Ran(exp.intruder) /\ (Separate \/ output = "begun" \/ Missed)
    BY <2>3, <2>5 DEF Separate
  <2>9. QED
    BY <2>1, <2>2, <2>6, <2>7, <2>8, ConcludeKeeps
<1>9. QED
  BY <1>1, <1>2, <1>3, <1>4, <1>5, <1>6, <1>7, <1>8 DEF Observe

\* clean_up takes away what may exist, one name at a time, or owns up to it.
LEMMA CleansUpKeeps ==
  ASSUME IInv, TypeOK', CleansUp
  PROVE  IInv'
<1>1. /\ pc \in CleanUp \ {"return"} /\ pc' \in CleanUp /\ exp' = exp
      /\ UNCHANGED <<todo, outcome, verdict, world>>
  BY DEF CleansUp, DeleteTarget, DeleteIntruder, WaitTarget, WaitIntruder, DeleteService,
         DeletePod, WaitGone, WaitGivesUp, Cleaning, Goto, CleanUp, exp
<1>2. (OutcomeKnown /\ VerdictSound)'
  BY <1>1 DEF IInv, OutcomeKnown, CleanUp, Body, Planting, Attempting, VerdictSound, MeasurementIsGrounded,
              BreachIsReal, HardIsTrue, SilenceDecidesNothing, Judged, Separate, Pinned
<1>3. (TargetStands /\ SecretStands /\ IntruderIsOurs /\ UnhostedNeverRuns /\ LandedIsPast)'
  BY <1>1 DEF TargetStands, SecretStands, IntruderIsOurs, UnhostedNeverRuns, LandedIsPast,
              CleanUp, AfterReady, Attempting, AfterCreate
<1>4. exp.target \in Pods /\ exp.intruder \in Pods
  BY ExpType DEF IInv, TypeOK
<1>5. CASE DeleteTarget \/ DeleteIntruder
  <2>1. /\ \/ pc = "delete_target" /\ pc' = "delete_intruder"
           \/ pc = "delete_intruder" /\ pc' = "wait_target"
        /\ UNCHANGED <<services, leaked>>
        /\ \/ UNCHANGED pod
           \/ Delete(exp.target)
           \/ Delete(exp.intruder)
    BY <1>5 DEF DeleteTarget, DeleteIntruder, DeletePod, Cleaning, Goto
  <2>2. \A k \in Pods : pod'[k] \in {pod[k], AfterDelete(pod[k])}
    BY <2>1, <1>4 DEF Delete, IInv, TypeOK, PodsTypeOK
  <2>3. \A k \in Pods :
          /\ Exists(k)' => Exists(k)
          /\ pod'[k].out = "quoted" =>
               pod[k].out = "quoted" /\ pod'[k].status \in {pod[k].status, "terminating"}
    BY <2>2 DEF AfterDelete, Vacant, Exists, IInv, TypeOK, PodsTypeOK, PodRecord, Status
  <2>4. QuotesAreErrors'
    BY <2>3 DEF IInv, QuotesAreErrors
  <2>5. LeaksKnown'
    BY <1>1, <2>1, <2>3 DEF IInv, LeaksKnown, MayExist
  <2>6. QED
    BY <1>2, <1>3, <2>4, <2>5 DEF IInv
<1>6. CASE WaitTarget
  <2>1. /\ pc = "wait_target" /\ pc' = "wait_intruder" /\ UNCHANGED <<pod, services>>
        /\ \/ ~ Exists(exp.target) /\ leaked' = leaked \ {exp.target}
           \/ leaked' = leaked \union {exp.target}
    BY <1>6 DEF WaitTarget, WaitGone, WaitGivesUp, Cleaning, Goto, SeenGone
  <2>2. QuotesAreErrors'
    BY <2>1 DEF IInv, QuotesAreErrors
  <2>3. exp.target \notin services
    BY <1>4, PlanAssumption DEF IInv, TypeOK
  <2>4. LeaksKnown'
    BY <1>1, <2>1, <2>3 DEF IInv, LeaksKnown, MayExist, Exists
  <2>5. QED
    BY <1>2, <1>3, <2>2, <2>4 DEF IInv
<1>7. CASE WaitIntruder
  <2>1. /\ pc = "wait_intruder" /\ pc' = "delete_service" /\ UNCHANGED <<pod, services>>
        /\ \/ ~ Exists(exp.intruder) /\ leaked' = leaked \ {exp.intruder}
           \/ leaked' = leaked \union {exp.intruder}
    BY <1>7 DEF WaitIntruder, WaitGone, WaitGivesUp, Cleaning, Goto, SeenGone
  <2>2. QuotesAreErrors'
    BY <2>1 DEF IInv, QuotesAreErrors
  <2>3. exp.intruder \notin services
    BY <1>4, PlanAssumption DEF IInv, TypeOK
  <2>4. LeaksKnown'
    BY <1>1, <2>1, <2>3 DEF IInv, LeaksKnown, MayExist, Exists
  <2>5. QED
    BY <1>2, <1>3, <2>2, <2>4 DEF IInv
<1>8. CASE DeleteService
  <2>1. /\ pc = "delete_service" /\ pc' = "return" /\ UNCHANGED pod
        /\ \/ services' = services \ exp.service /\ leaked' = leaked \ exp.service
           \/ services' = services /\ leaked' = leaked \union (services \intersect exp.service)
    BY <1>8 DEF DeleteService, Cleaning, Goto
  <2>2. QuotesAreErrors'
    BY <2>1 DEF IInv, QuotesAreErrors
  <2>3. \A k \in Pods : k \notin exp.service /\ (Exists(k)' => k \in leaked)
    BY <2>1, ExpType, PlanAssumption DEF IInv, TypeOK, LeaksKnown, MayExist, Exists
  <2>4. services \subseteq leaked \union exp.service
    BY <2>1 DEF IInv, LeaksKnown, MayExist
  <2>5. LeaksKnown'
    BY <2>1, <2>3, <2>4 DEF LeaksKnown, MayExist
  <2>6. QED
    BY <1>2, <1>3, <2>2, <2>5 DEF IInv
<1>9. QED
  BY <1>5, <1>6, <1>7, <1>8 DEF CleansUp

\* What the cluster does on its own takes nothing from what the program knows.
LEMMA ClusterKeeps ==
  ASSUME IInv, TypeOK', Cluster
  PROVE  IInv'
<1>1. PICK k \in Pods : ClusterStep(k)
  BY DEF Cluster
<1>2. UNCHANGED <<services, pc, todo, attempt, address, landed, outcome, cause, verdict, world, leaked>>
  BY DEF Cluster, local
<1>3. /\ \A j \in Pods : j # k => pod'[j] = pod[j]
      /\ Ran(k) => Ran(k)' /\ (pod[k].out \notin {"silent", "begun"} => pod'[k].out = pod[k].out)
      /\ pod[k].status = "done" => pod'[k].status # "running"
      /\ pod'[k].out = "quoted" =>
           pod[k].out = "quoted" \/ pod'[k].status = "refused"
      /\ pod[k].out = "quoted" /\ pod[k].status \in {"refused", "terminating"} =>
           pod'[k].out = "silent" \/ pod'[k].status = pod[k].status
      /\ Exists(k)' => Exists(k)
      /\ pod[k].status \notin {"absent", "terminating"} =>
           /\ pod'[k].status \notin {"absent", "terminating"}
           /\ pod'[k].spec = pod[k].spec
           /\ \/ pod'[k].out \in {pod[k].out, "quoted", "begun", pod[k].spec.says}
              \/ pod'[k].out = "clear" /\ FindsNothing(pod[k].spec)
           /\ pod'[k].out \notin {"silent", "quoted"} => pod'[k].out = pod[k].out \/ Ran(k)'
           /\ pod[k].status = "new" /\ pod[k].spec.pinned => pod[k].spec.hosted
  BY <1>1, ClusterEffect DEF IInv, TypeOK
<1>4. /\ exp' = exp /\ exp.target \in Pods /\ exp.intruder \in Pods
      /\ exp.target # exp.intruder
  BY <1>2, ExpType DEF IInv, TypeOK, exp
<1>5. (OutcomeKnown /\ VerdictSound)'
  BY <1>2, <1>4 DEF IInv, OutcomeKnown, VerdictSound, MeasurementIsGrounded,
              BreachIsReal, HardIsTrue, SilenceDecidesNothing, Judged, Separate, Pinned
<1>6. QuotesAreErrors'
  <2> SUFFICES ASSUME NEW j \in Pods, pod'[j].out = "quoted"
               PROVE  pod'[j].status \in {"refused", "terminating"}
    BY DEF QuotesAreErrors
  <2>1. pod[j].out = "quoted" => pod[j].status \in {"refused", "terminating"}
    BY DEF IInv, QuotesAreErrors
  <2>2. CASE j = k
    BY <1>3, <2>1, <2>2
  <2>3. CASE j # k
    BY <1>3, <2>1, <2>3
  <2>4. QED
    BY <2>2, <2>3
<1>7. \A j \in Pods :
        /\ pod[j].status \in {"running", "done"} =>
             /\ pod'[j].status \in {"running", "done"}
             /\ pod[j].out \notin {"silent", "begun"} => pod'[j].out = pod[j].out
             /\ pod[j].status = "done" => pod'[j].status = "done"
        /\ pod'[j].status # "absent" => pod[j].status # "absent"
  BY <1>3 DEF Ran, Exists
<1>8. TargetStands' /\ SecretStands'
  BY <1>2, <1>4, <1>7 DEF IInv, TargetStands, SecretStands, SecretIn, Planted, Ran
<1>9. pc \in AfterCreate => (PlantedNone' <=> PlantedNone) /\ (Missed => Missed')
  <2> SUFFICES ASSUME pc \in AfterCreate
               PROVE  (PlantedNone' <=> PlantedNone) /\ (Missed => Missed')
    OBVIOUS
  <2>1. Ran(exp.target) /\ SecretIn(exp.target)
    BY DEF IInv, TargetStands, SecretStands, AfterCreate, Attempting
  <2>2. exp.secret = "stated" => pod'[exp.target].out = pod[exp.target].out
    BY <1>4, <1>7, <2>1 DEF SecretIn, Planted, Ran
  <2>3. pod[exp.target].status # "running" => pod'[exp.target].status # "running"
    BY <1>4, <1>7, <2>1 DEF Ran
  <2>4. QED
    BY <1>4, <2>2, <2>3 DEF PlantedNone, Missed
<1>10. pc \in AfterCreate => IntruderSpec' = IntruderSpec
  <2>1. /\ Prints(world.exposure)' = Prints(world.exposure)
        /\ Pinned(exp)' = Pinned(exp)
        /\ Staged' = Staged
    BY <1>2, <1>4 DEF Prints, Pinned, Staged
  <2> HIDE DEF Prints, Pinned, Staged
  <2>2. ASSUME pc \in AfterCreate PROVE PlantedNone' <=> PlantedNone
    BY <1>9, <2>2
  <2>3. PlantedNone \in BOOLEAN /\ PlantedNone' \in BOOLEAN
    BY DEF PlantedNone
  <2>4. QED
    BY <1>2, <1>4, <2>1, <2>2, <2>3 DEF IntruderSpec
<1>11. IntruderIsOurs'
  <2> SUFFICES ASSUME pc \in AfterCreate PROVE IntruderIsOurs'
    BY <1>2 DEF IntruderIsOurs
  <2>1. /\ pod[exp.intruder].status \notin {"absent", "terminating"}
        /\ pod[exp.intruder].spec = IntruderSpec
        /\ pod[exp.intruder].out \in
             {"silent", "quoted", "begun", "clear", Prints(world.exposure)}
        /\ pod[exp.intruder].out \notin {"silent", "quoted"} => Ran(exp.intruder)
        /\ pod[exp.intruder].out = "clear" => world.exposure = "apart" \/ Missed
    BY DEF IInv, IntruderIsOurs
  <2>2. Prints(world.exposure)' = Prints(world.exposure)
    BY <1>2 DEF Prints
  <2>3. CASE k = exp.intruder
    <3>1. /\ pod[k].spec.says \in {"clear", Prints(world.exposure)}
          /\ pod[k].spec.says = "clear" => world.exposure = "apart" \/ Missed
      BY <2>1, <2>3, PrintsType DEF IInv, TypeOK, IntruderSpec, Missed
    <3>2. FindsNothing(pod[k].spec) => Missed
      BY <2>1, <2>3 DEF FindsNothing, IntruderSpec, Missed
    <3>3. /\ pod'[k].status \notin {"absent", "terminating"}
          /\ pod'[k].spec = pod[k].spec
          /\ pod'[k].out \in {"silent", "quoted", "begun", "clear", Prints(world.exposure)}
          /\ pod'[k].out = "clear" => world.exposure = "apart" \/ Missed
      BY <1>3, <2>1, <2>3, <3>1, <3>2
    <3>4. pod'[k].out \notin {"silent", "quoted"} => Ran(k)'
      BY <1>3, <2>1, <2>3
    <3>5. QED
      BY <1>2, <1>4, <1>9, <1>10, <2>1, <2>2, <2>3, <3>3, <3>4 DEF IntruderIsOurs
  <2>4. CASE k # exp.intruder
    <3>1. pod'[exp.intruder] = pod[exp.intruder] /\ (Ran(exp.intruder)' <=> Ran(exp.intruder))
      BY <1>3, <1>4, <2>4 DEF Ran
    <3>2. QED
      BY <1>2, <1>4, <1>9, <1>10, <2>1, <2>2, <3>1 DEF IntruderIsOurs
  <2>5. QED
    BY <2>3, <2>4
<1>12. UnhostedNeverRuns'
  <2> SUFFICES ASSUME pc \in AfterCreate, Pinned(exp), ~ world.hosted
               PROVE  pod'[exp.intruder] = pod[exp.intruder]
    BY <1>2, <1>4 DEF IInv, UnhostedNeverRuns, Pinned
  <2>1. pod[exp.intruder].status = "new"
    BY DEF IInv, UnhostedNeverRuns
  <2>2. pod[exp.intruder].spec.pinned /\ ~ pod[exp.intruder].spec.hosted
    BY DEF IInv, IntruderIsOurs, IntruderSpec
  <2>3. QED
    BY <1>3, <1>4, <2>1, <2>2
<1>13. LandedIsPast'
  <2>1. Ran(exp.intruder) => Ran(exp.intruder)'
    BY <1>4, <1>7 DEF Ran
  <2>2. QED
    BY <1>2, <2>1 DEF IInv, LandedIsPast
<1>14. LeaksKnown'
  <2>1. MayExist' = MayExist
    BY <1>2, <1>4 DEF MayExist
  <2>2. QED
    BY <1>2, <1>7, <2>1 DEF IInv, LeaksKnown, Exists
<1>15. QED
  BY <1>5, <1>6, <1>8, <1>11, <1>12, <1>13, <1>14 DEF IInv

\* The caller moves on only with nothing left, and forgets the result with the world.
LEMMA CallerKeeps ==
  ASSUME IInv, TypeOK', ReturnError \/ NextExperiment \/ Report
  PROVE  IInv'
<1>1. /\ pc = "return" /\ pc' \in {"aborted", "create", "reported"}
      /\ UNCHANGED <<pod, services, leaked>>
  BY DEF ReturnError, NextExperiment, Report, KeepPods, Goto
<1>2. (QuotesAreErrors /\ TargetStands /\ SecretStands /\ IntruderIsOurs
         /\ UnhostedNeverRuns /\ LandedIsPast)'
  BY <1>1 DEF IInv, QuotesAreErrors, TargetStands, SecretStands, IntruderIsOurs,
              UnhostedNeverRuns, LandedIsPast, AfterReady, Attempting, AfterCreate
<1>3. LeaksKnown'
  BY <1>1 DEF IInv, LeaksKnown, MayExist, Exists
<1>4. (OutcomeKnown /\ VerdictSound)'
  <2>1. CASE ReturnError \/ Report
    <3>1. /\ exp' = exp /\ UNCHANGED <<outcome, verdict, world>>
          /\ pc' = "aborted" => outcome = "error"
          /\ pc' = "reported" => outcome = "verdict"
          /\ pc' # "create"
      BY <2>1 DEF ReturnError, Report, Goto, exp
    <3>2. QED
      BY <1>1, <3>1 DEF IInv, OutcomeKnown, CleanUp, Body, Planting, Attempting, VerdictSound,
         MeasurementIsGrounded, BreachIsReal, HardIsTrue, SilenceDecidesNothing, Judged,
         Separate, Pinned
  <2>2. CASE NextExperiment
    BY <1>1, <2>2 DEF NextExperiment, OutcomeKnown, CleanUp, Body, Planting, Attempting, VerdictSound,
       MeasurementIsGrounded, BreachIsReal, HardIsTrue, SilenceDecidesNothing, Judged
  <2>3. QED
    BY <2>1, <2>2
<1>5. QED
  BY <1>2, <1>3, <1>4 DEF IInv

\* The inductive invariant holds of every behaviour.
THEOREM Invariant == Spec => []IInv
<1>1. Init => IInv
  <2> SUFFICES ASSUME Init PROVE IInv
    OBVIOUS
  <2>1. TypeOK
    BY PlanAssumption, AttemptsAssumption, VacantType
       DEF Init, TypeOK, PodsTypeOK, PodsInit, Body, Planting, Attempting, Snapshot, Worlds
  <2>2. ~ Judged
    BY DEF Init, Judged
  <2>3. \A k \in Pods : pod[k] = Vacant
    BY DEF Init, PodsInit
  <2>4. QED
    BY <2>1, <2>2, <2>3
       DEF IInv, Init, OutcomeKnown, QuotesAreErrors, TargetStands, SecretStands,
           IntruderIsOurs, UnhostedNeverRuns, LandedIsPast, LeaksKnown, MayExist,
           VerdictSound, MeasurementIsGrounded, BreachIsReal, HardIsTrue,
           SilenceDecidesNothing, Vacant, Exists, Body, Planting, Attempting, CleanUp, AfterReady, Attempting,
           AfterCreate
<1>2. IInv /\ [Next]_vars => IInv'
  <2> SUFFICES ASSUME IInv, [Next]_vars PROVE IInv'
    OBVIOUS
  <2>1. TypeOK'
    BY TypeStep DEF IInv
  <2>2. CASE UNCHANGED vars
    <3> USE <2>2 DEF vars, IInv, exp
    <3>1. (OutcomeKnown /\ QuotesAreErrors /\ TargetStands /\ SecretStands)'
      BY DEF OutcomeKnown, Judged, QuotesAreErrors, TargetStands, SecretStands,
             SecretIn, Planted, Ran
    <3>2. (IntruderIsOurs /\ UnhostedNeverRuns /\ LandedIsPast)'
      BY DEF IntruderIsOurs, IntruderSpec, Staged, PlantedNone, Missed, Prints, Pinned, UnhostedNeverRuns, LandedIsPast, Ran
    <3>3. LeaksKnown'
      BY DEF LeaksKnown, MayExist, Exists
    <3>4. VerdictSound'
      BY DEF VerdictSound, MeasurementIsGrounded, BreachIsReal, HardIsTrue,
             SilenceDecidesNothing, Judged, Separate, Pinned
    <3>5. QED
      BY <2>1, <3>1, <3>2, <3>3, <3>4
  <2>3. QED
    BY <2>1, <2>2, PlantKeeps, ObserveKeeps, CleansUpKeeps, CallerKeeps, ClusterKeeps
       DEF Next, Harness, Ended
<1>3. QED
  BY <1>1, <1>2, PTL DEF Spec

-----------------------------------------------------------------------------
(***************************************************************************)
(* What the invariant is for.                                              *)
(***************************************************************************)

\* No measurement is taken against a secret the target never printed.
THEOREM Grounded == Spec => []MeasurementIsGrounded
<1>1. IInv => MeasurementIsGrounded
  BY DEF IInv, VerdictSound
<1>2. QED
  BY <1>1, Invariant, PTL

\* A breach that is reported happened, but for the window the property names.
THEOREM BreachesAreReal == Spec => []BreachIsReal
<1>1. IInv => BreachIsReal
  BY DEF IInv, VerdictSound
<1>2. QED
  BY <1>1, Invariant, PTL

\* Hard isolation that is reported is there, but for the readings the property names.
THEOREM HardIsSound == Spec => []HardIsTrue
<1>1. IInv => HardIsTrue
  BY DEF IInv, VerdictSound
<1>2. QED
  BY <1>1, Invariant, PTL

\* The experiments that decide for themselves take no silence for isolation.
THEOREM SilenceIsNoVerdict == Spec => []SilenceDecidesNothing
<1>1. IInv => SilenceDecidesNothing
  BY DEF IInv, VerdictSound
<1>2. QED
  BY <1>1, Invariant, PTL

\* Whatever holds one of the fixed names between two experiments is a leak that
\* clean_up was there for and did not see through.
THEOREM NoResidue == Spec => []NothingLeftBehind
<1>1. IInv => NothingLeftBehind
  BY DEF IInv, LeaksKnown, MayExist, NothingLeftBehind
<1>2. QED
  BY <1>1, Invariant, PTL

-----------------------------------------------------------------------------
(***************************************************************************)
(* The experiment implements the method: what the mapping makes of each    *)
(* stretch of the program, then of each step.                              *)
(***************************************************************************)
\* Before the secret is found there is neither a result nor anything confirmed;
\* while the intruder is at work the secret is, as the target stands, and a crash
\* leaves it so; and after the body all that matters is what came of it.
MappingKnown ==
  /\ pc \in Planting =>
       MethodStep = "plant" /\ MethodLevel = "open" /\ MethodConfirmed = FALSE
  /\ pc \in Attempting =>
       MethodStep = "attempt" /\ MethodLevel = "open" /\ MethodConfirmed = TRUE
  /\ pc \in CleanUp \union Terminal =>
       /\ MethodStep = IF pc \in CleanUp THEN "clean" ELSE "over"
       /\ outcome = "open" => MethodLevel = "open" /\ MethodConfirmed = TRUE
       /\ outcome = "error" => MethodLevel = "error" /\ MethodConfirmed = FALSE
       /\ outcome = "verdict" =>
            /\ MethodLevel = verdict.level
            /\ MethodConfirmed =
                 (verdict.way # "unplanted" /\ TargetConfirmed(verdict.planted))

LEMMA Mapping == IInv => MappingKnown
<1> SUFFICES ASSUME IInv PROVE MappingKnown
  OBVIOUS
<1>1. CASE pc \in Planting
  <2>1. MethodStep = "plant" /\ pc \notin Attempting \union CleanUp \union Terminal
    BY <1>1 DEF Planting, Attempting, CleanUp, Terminal, MethodStep
  <2>2. outcome = "open" /\ ~ Judged
    BY <1>1 DEF IInv, OutcomeKnown, Body
  <2>3. QED
    BY <1>1, <2>1, <2>2 DEF MappingKnown, MethodLevel, MethodConfirmed
<1>2. CASE pc \in Attempting
  <2>1. MethodStep = "attempt" /\ pc \notin Planting \union CleanUp \union Terminal
    BY <1>2 DEF Planting, Attempting, CleanUp, Terminal, MethodStep
  <2>2. outcome = "open" /\ ~ Judged
    BY <1>2 DEF IInv, OutcomeKnown, Body
  <2>3. TargetConfirmed(Planted(exp.target))
    BY <1>2 DEF IInv, SecretStands, SecretIn, TargetConfirmed
  <2>4. QED
    BY <1>2, <2>1, <2>2, <2>3 DEF MappingKnown, MethodLevel, MethodConfirmed
<1>3. CASE pc \in CleanUp \union Terminal
  <2>1. /\ MethodStep = IF pc \in CleanUp THEN "clean" ELSE "over"
        /\ pc \notin Planting \union Attempting
    BY <1>3 DEF Planting, Attempting, CleanUp, Terminal, MethodStep
  <2>2. /\ Judged <=> outcome = "verdict"
        /\ outcome = "open" => pc = "panicked"
    BY <1>3 DEF IInv, OutcomeKnown, Terminal
  <2>3. outcome = "open" => TargetConfirmed(Planted(exp.target))
    BY <2>2 DEF IInv, SecretStands, SecretIn, TargetConfirmed
  <2>4. MethodStep # "plant"
    BY <2>1
  <2>5. QED
    BY <1>3, <2>1, <2>2, <2>3, <2>4 DEF MappingKnown, MethodLevel, MethodConfirmed
<1>4. pc \in Planting \union Attempting \union CleanUp \union Terminal
  BY DEF IInv, TypeOK, Body
<1>5. QED
  BY <1>1, <1>2, <1>3, <1>4

\* One step of the code is one step of the method, or none.
LEMMA MethodStepRefined ==
  ASSUME IInv, IInv', MappingKnown, MappingKnown', [Next]_vars
  PROVE  [Method!MNext]_(Method!mvars)
<1> USE DEF MappingKnown, Method!mvars
<1>1. CASE pc \in Planting /\ pc' \in Planting /\ todo' = todo
  BY <1>1
<1>2. CASE pc \in Attempting /\ pc' \in Attempting /\ todo' = todo
  BY <1>2
<1>3. CASE /\ \/ pc \in CleanUp /\ pc' \in CleanUp
              \/ pc \in Terminal /\ pc' = pc
           /\ UNCHANGED <<todo, outcome, verdict>>
  <2>1. verdict' = verdict /\ exp' = exp /\ MethodStep' = MethodStep
    BY <1>3 DEF exp, CleanUp, Terminal
  <2>2. (verdict.way # "unplanted" /\ TargetConfirmed(verdict.planted))' =
          (verdict.way # "unplanted" /\ TargetConfirmed(verdict.planted))
    BY <2>1 DEF TargetConfirmed
  <2>3. pc \in CleanUp \union Terminal /\ pc' \in CleanUp \union Terminal
    BY <1>3
  <2>4. CASE outcome = "open"
    BY <1>3, <2>1, <2>3, <2>4
  <2>5. CASE outcome = "error"
    BY <1>3, <2>1, <2>3, <2>5
  <2>6. CASE outcome = "verdict"
    BY <1>3, <2>1, <2>2, <2>3, <2>6
  <2>7. QED
    BY <2>4, <2>5, <2>6 DEF IInv, TypeOK
<1>4. CASE pc \in Planting /\ pc' \in Attempting /\ todo' = todo
  BY <1>4 DEF Method!MNext, Method!PlantAndConfirm
<1>5. CASE pc \in Body /\ pc' \in CleanUp /\ todo' = todo /\ outcome' = "error"
  BY <1>5 DEF Method!MNext, Method!RunFails, Body
<1>6. CASE pc \in Planting /\ pc' \in CleanUp /\ todo' = todo /\ outcome' = "verdict"
           /\ verdict'.level = "Unknown" /\ verdict'.way = "unplanted"
  BY <1>6 DEF Method!MNext, Method!NothingPlanted
<1>7. CASE pc \in Attempting /\ pc' \in CleanUp /\ todo' = todo /\ outcome' = "verdict"
           /\ verdict'.level \in Level /\ verdict'.way # "unplanted"
           /\ TargetConfirmed(verdict.planted)'
  BY <1>7 DEF Method!MNext, Method!AttemptAndJudge, Level
<1>8. CASE WatchPanics
  <2>1. /\ pc = "watch" /\ pc' = "panicked" /\ todo' = todo
        /\ outcome = "open" /\ outcome' = "open"
    BY <1>8 DEF WatchPanics, Goto, IInv, OutcomeKnown, Body, Attempting
  <2>2. QED
    BY <2>1 DEF Method!MNext, Method!Crash, Attempting, Terminal, CleanUp
<1>9. CASE ReturnError \/ Report \/ NextExperiment
  <2>1. /\ pc = "return" /\ pc' \in {"aborted", "reported", "create"}
        /\ outcome \in {"error", "verdict"}
    BY <1>9 DEF ReturnError, Report, NextExperiment, Goto
  <2>2. MethodStep = "clean"
    BY <2>1 DEF CleanUp
  <2>3. outcome = "verdict" => MethodLevel # "error"
    <3>1. outcome = "verdict" => verdict.level \in Level
      BY <2>1 DEF IInv, TypeOK, OutcomeKnown, Judged, Verdict
    <3>2. QED
      BY <2>1, <3>1 DEF CleanUp, Level
  <2>4. CASE ReturnError
    <3>1. pc' = "aborted" /\ outcome = "error" /\ UNCHANGED <<todo, outcome, verdict>>
      BY <2>4 DEF ReturnError, Goto
    <3>2. QED
      BY <2>1, <2>2, <3>1 DEF Method!MNext, Method!Cleaned, CleanUp, Terminal
  <2>5. CASE Report
    <3>1. /\ pc' = "reported" /\ outcome = "verdict" /\ Tail(todo) = << >>
          /\ UNCHANGED <<todo, outcome, verdict>> /\ exp' = exp
      BY <2>5 DEF Report, Goto, exp
    <3>2. (verdict.way # "unplanted" /\ TargetConfirmed(verdict.planted))' =
            (verdict.way # "unplanted" /\ TargetConfirmed(verdict.planted))
      BY <3>1 DEF TargetConfirmed
    <3>3. ~ (Len(todo) > 1)
      BY <3>1, TodoShrinks DEF IInv, TypeOK
    <3>4. MethodStep' = "over" /\ MethodLevel' = MethodLevel /\ MethodConfirmed' = MethodConfirmed
      BY <2>1, <3>1, <3>2 DEF CleanUp, Terminal
    <3>5. QED
      BY <2>2, <3>1, <3>3, <3>4 DEF Method!MNext, Method!Cleaned
  <2>6. CASE NextExperiment
    <3>1. pc' = "create" /\ outcome = "verdict" /\ Tail(todo) # << >> /\ todo' = Tail(todo)
      BY <2>6 DEF NextExperiment
    <3>2. Len(todo) > 1 /\ Len(todo') = Len(todo) - 1
      BY <3>1, TodoShrinks DEF IInv, TypeOK
    <3>3. QED
      BY <2>2, <2>3, <3>1, <3>2 DEF Method!MNext, Method!Cleaned, Planting
  <2>7. QED
    BY <1>9, <2>4, <2>5, <2>6
<1>10. CASE Plant
  <2>1. \/ pc \in Planting /\ pc' \in Planting /\ todo' = todo
        \/ pc \in Planting /\ pc' \in Attempting /\ todo' = todo
        \/ pc \in Body /\ pc' \in CleanUp /\ todo' = todo /\ outcome' = "error"
        \/ /\ pc \in Planting /\ pc' \in CleanUp /\ todo' = todo /\ outcome' = "verdict"
           /\ verdict'.level = "Unknown" /\ verdict'.way = "unplanted"
    <3> USE DEF Planting, Attempting, Body, CleanUp, Goto
    <3>1. CASE CreateTarget \/ TargetReady \/ InspectTarget \/ PollAddress \/ AddressSettled
                 \/ CreateService \/ ReadService
      BY <3>1 DEF CreateTarget, TargetReady, InspectTarget, PollAddress, AddressSettled,
                  AfterAddress, CreateService, ReadService
    <3>2. CASE CreateTargetFails \/ TargetNotReady \/ InspectTargetFails
                 \/ CreateServiceFails \/ ReadServiceFails
      BY <3>2 DEF CreateTargetFails, TargetNotReady, InspectTargetFails,
                  CreateServiceFails, ReadServiceFails, Fail
    <3>3. CASE Aim
      BY <3>3 DEF Aim, Unmeasured, Conclude
    <3>4. CASE PollSecret
      BY <3>4 DEF PollSecret
    <3>5. CASE NoSecret
      BY <3>5 DEF NoSecret, Unmeasured, Conclude
    <3>6. QED
      BY <1>10, <3>1, <3>2, <3>3, <3>4, <3>5 DEF Plant
  <2>2. QED
    BY <2>1, <1>1, <1>4, <1>5, <1>6
<1>11. CASE Observe /\ ~ WatchPanics
  <2>1. TargetConfirmed(Planted(exp.target)) /\ pc \in Attempting
    BY <1>11 DEF Observe, CreateIntruder, IntruderRefused, CreateIntruderFails, Watch, Land,
       ListNodes, ReadLogs, Attempting, IInv, SecretStands, SecretIn, TargetConfirmed
  <2>2. ASSUME NEW level, NEW way, NEW status, NEW output, NEW nodes,
               Conclude(level, way, status, output, nodes)
        PROVE  /\ pc' \in CleanUp /\ todo' = todo /\ outcome' = "verdict"
               /\ verdict'.level = level /\ verdict'.way = way
               /\ TargetConfirmed(verdict.planted)'
    <3>1. verdict' = [level |-> level, way |-> way, landed |-> status,
                      heard |-> output, listed |-> nodes,
                      planted |-> Planted(exp.target), attempted |-> Ran(exp.intruder),
                    missed |-> Missed]
      BY <2>2 DEF Conclude
    <3>2. exp' = exp
      BY <2>2 DEF Conclude, exp
    <3>3. TargetConfirmed(verdict.planted)'
      BY <2>1, <3>1, <3>2 DEF TargetConfirmed
    <3>4. QED
      BY <2>2, <3>1, <3>3 DEF Conclude, CleanUp
  <2>3. \/ pc \in Attempting /\ pc' \in Attempting /\ todo' = todo
        \/ pc \in Body /\ pc' \in CleanUp /\ todo' = todo /\ outcome' = "error"
        \/ /\ pc' \in CleanUp /\ todo' = todo /\ outcome' = "verdict"
           /\ verdict'.level \in Level /\ verdict'.way # "unplanted"
           /\ TargetConfirmed(verdict.planted)'
    <3>1. CASE CreateIntruder \/ Watch
      BY <3>1 DEF CreateIntruder, Watch, Goto, Attempting
    <3>2. CASE CreateIntruderFails
      BY <3>2 DEF CreateIntruderFails, Fail, Body, Attempting, CleanUp
    <3>3. CASE IntruderRefused
      BY <2>2, <3>3 DEF IntruderRefused, Level
    <3>4. CASE Land
      <4>1. PICK status \in {pod[exp.intruder].status, "unread"} :
              IF AfterLanding(status) = "not_started"
                THEN Conclude(NotStartedLevel(exp.privileged), "not_started",
                              status, "unread", "unread")
                ELSE Goto(AfterLanding(status)) /\ landed' = status
                       /\ UNCHANGED <<attempt, address>>
        BY <3>4 DEF Land
      <4>2. NotStartedLevel(exp.privileged) \in Level
        BY DEF NotStartedLevel, Level
      <4>3. AfterLanding(status) \in {"nodes", "not_started", "logs"}
        BY DEF AfterLanding
      <4>4. QED
        BY <2>1, <2>2, <4>1, <4>2, <4>3 DEF Goto, Attempting
    <3>5. CASE ListNodes
      BY <2>2, <3>5 DEF ListNodes, NotStartedLevel, Level
    <3>6. CASE ReadLogs
      <4>1. PICK output \in LogReads(exp.intruder) :
              Conclude(Judge(exp.judged, output), "saw", landed, output, "unread")
        BY <3>6 DEF ReadLogs
      <4>2. Judge(exp.judged, output) \in Level
        <5>1. output \in Output
          BY <4>1, ExpType DEF LogReads, IInv, TypeOK, PodsTypeOK, PodRecord, Output, Words
        <5>2. QED
          BY <5>1, ExpType, Judgement DEF IInv, TypeOK
      <4>3. QED
        BY <2>2, <4>1, <4>2
    <3>7. QED
      BY <1>11, <3>1, <3>2, <3>3, <3>4, <3>5, <3>6 DEF Observe
  <2>4. QED
    BY <2>1, <2>3, <1>2, <1>5, <1>7
<1>12. CASE CleansUp
  <2>1. /\ pc \in CleanUp /\ pc' \in CleanUp
        /\ UNCHANGED <<todo, outcome, verdict>>
    BY <1>12 DEF CleansUp, DeleteTarget, DeleteIntruder, WaitTarget, WaitIntruder,
       DeleteService, DeletePod, WaitGone, WaitGivesUp, Cleaning, Goto, CleanUp
  <2>2. QED
    BY <2>1, <1>3
<1>13. CASE Cluster \/ Ended \/ UNCHANGED vars
  <2>1. UNCHANGED <<pc, todo, outcome, verdict>>
    BY <1>13 DEF Cluster, Ended, vars
  <2>2. pc \in Planting \union Attempting \union CleanUp \union Terminal
    BY DEF IInv, TypeOK, Body
  <2>3. QED
    BY <2>1, <2>2, <1>1, <1>2, <1>3
<1>14. QED
  BY <1>8, <1>9, <1>10, <1>11, <1>12, <1>13 DEF Next, Harness

\* Every behaviour of the code is one of the method, as far as safety goes.
THEOREM Refinement == Spec => Method!Safety
<1>1. Init => Method!MInit
  <2> SUFFICES ASSUME Init PROVE Method!MInit
    OBVIOUS
  <2>1. MethodStep = "plant" /\ ~ Judged /\ outcome = "open"
    BY DEF Init, MethodStep, Planting, Judged
  <2>2. Len(todo) \in Nat \ {0}
    BY PlanAssumption, TodoShrinks DEF Init
  <2>3. QED
    BY <2>1, <2>2 DEF Method!MInit, MethodLevel, MethodConfirmed
<1>2. IInv /\ IInv' /\ MappingKnown /\ MappingKnown' /\ [Next]_vars
        => [Method!MNext]_(Method!mvars)
  BY MethodStepRefined
<1>3. QED
  BY <1>1, <1>2, Invariant, Mapping, PTL DEF Spec, Method!Safety

-----------------------------------------------------------------------------
(***************************************************************************)
(* The steps run out: what Termination owes to the program alone.          *)
(***************************************************************************)

\* Leaving the body is a step ahead from anywhere in it.
LEMMA LeavingIsAhead ==
  ASSUME pc \in Body, pc' = "delete_target", todo' = todo
  PROVE  Nearer
BY DEF Nearer, Ahead, Body, Planting, Attempting

LEMMA PlantCounts ==
  ASSUME TypeOK, Plant
  PROVE  Nearer
<1>1. CASE \/ CreateTargetFails \/ TargetNotReady \/ InspectTargetFails
           \/ CreateServiceFails \/ ReadServiceFails \/ NoSecret
  BY <1>1, LeavingIsAhead
  DEF CreateTargetFails, TargetNotReady, InspectTargetFails, CreateServiceFails, ReadServiceFails,
      NoSecret, Unmeasured, Fail, Conclude, Body, Planting, Attempting
<1>2. CASE CreateTarget \/ TargetReady \/ InspectTarget \/ CreateService \/ ReadService
  BY <1>2
  DEF CreateTarget, TargetReady, InspectTarget, CreateService, ReadService, Goto, Nearer, Ahead
<1>3. CASE AddressSettled
  BY <1>3 DEF AddressSettled, AfterAddress, Goto, Nearer, Ahead
<1>4. CASE Aim
  BY <1>4, LeavingIsAhead
  DEF Aim, Unmeasured, Conclude, Goto, Nearer, Ahead, Body, Planting, Attempting
<1>5. CASE PollAddress
  <2>1. /\ pc = "address" /\ pc' = "address" /\ todo' = todo
        /\ attempt < AddressAttempts /\ attempt' = attempt + 1
    BY <1>5 DEF PollAddress, AttemptsLeft, Goto
  <2>2. AttemptsAhead' < AttemptsAhead
    BY <2>1, AttemptsAssumption DEF AttemptsAhead, AttemptsLeft, TypeOK
  <2> QED
    BY <2>1, <2>2 DEF Nearer
<1>6. CASE PollSecret
  <2>1. /\ pc = "secret" /\ todo' = todo /\ attempt < SecretAttempts
        /\ \/ pc' = "intrude"
           \/ pc' = "secret" /\ attempt' = attempt + 1
    BY <1>6 DEF PollSecret, AttemptsLeft, Goto
  <2>2. CASE pc' = "intrude"
    BY <2>1, <2>2 DEF Nearer, Ahead
  <2>3. CASE pc' = "secret" /\ attempt' = attempt + 1
    <3>1. AttemptsAhead' < AttemptsAhead
      BY <2>1, <2>3, AttemptsAssumption DEF AttemptsAhead, AttemptsLeft, TypeOK
    <3> QED
      BY <2>1, <2>3, <3>1 DEF Nearer
  <2> QED
    BY <2>1, <2>2, <2>3
<1> QED
  BY <1>1, <1>2, <1>3, <1>4, <1>5, <1>6 DEF Plant

LEMMA ObserveCounts ==
  ASSUME TypeOK, Observe
  PROVE  Nearer
<1>1. CASE IntruderRefused \/ CreateIntruderFails \/ ListNodes \/ ReadLogs
  BY <1>1, LeavingIsAhead
  DEF IntruderRefused, CreateIntruderFails, ListNodes, ReadLogs, Fail, Conclude, Body, Planting,
      Attempting
<1>2. CASE CreateIntruder \/ Watch \/ WatchPanics
  BY <1>2 DEF CreateIntruder, Watch, WatchPanics, Goto, Nearer, Ahead
<1>3. CASE Land
  <2>1. pc = "land" /\ todo' = todo /\ pc' \in {"delete_target", "nodes", "logs"}
    BY <1>3 DEF Land, AfterLanding, Conclude, Goto
  <2> QED
    BY <2>1 DEF Nearer, Ahead
<1> QED
  BY <1>1, <1>2, <1>3 DEF Observe

\* Every step of the harness brings its end nearer, and no step of the clusters
\* puts it off, for any plans and any bounds of the loops.
THEOREM StepsRunOut == Spec => EveryStepCounts
<1> DEFINE Counts == IF Harness THEN Nearer ELSE UNCHANGED <<todo, pc, attempt>>
<1>1. TypeOK /\ [Next]_vars => [Counts]_vars
  <2> SUFFICES ASSUME TypeOK, Next
               PROVE  Counts
    OBVIOUS
  <2>1. ASSUME CleansUp
        PROVE  Nearer
    BY <2>1
    DEF CleansUp, DeleteTarget, DeleteIntruder, WaitTarget, WaitIntruder, DeleteService, DeletePod,
        WaitGone, WaitGivesUp, Cleaning, Goto, Nearer, Ahead
  <2>2. ASSUME ReturnError \/ Report
        PROVE  Nearer
    BY <2>2 DEF ReturnError, Report, Goto, Nearer, Ahead
  <2>3. ASSUME NextExperiment
        PROVE  Nearer
    <3>1. Len(todo') = Len(todo) - 1 /\ Len(todo) \in Nat
      BY <2>3, TodoShrinks DEF NextExperiment, TypeOK
    <3> QED
      BY <3>1 DEF Nearer
  <2>4. Harness => Nearer
    BY <2>1, <2>2, <2>3, PlantCounts, ObserveCounts DEF Harness
  <2>5. Cluster \/ Ended => UNCHANGED <<todo, pc, attempt>>
    BY DEF Cluster, Ended, vars, local
  <2> QED
    BY <2>4, <2>5 DEF Next
<1> QED
  BY <1>1, TypeCorrect, PTL DEF Spec, EveryStepCounts

=============================================================================
