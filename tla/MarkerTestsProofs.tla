------------------------- MODULE MarkerTestsProofs -------------------------
(***************************************************************************)
(* Theorems about MarkerTests, for any addresses and any number of rounds  *)
(* and of looks at a log.                                                  *)
(***************************************************************************)
EXTENDS MarkerTests, TLAPS

-----------------------------------------------------------------------------
(***************************************************************************)
(* Where a step leads.                                                     *)
(***************************************************************************)
\* Without errands the test is where it is.
LEMMA Here ==
  ASSUME IInv, pc # "errands"
  PROVE  errands = << >> /\ At = pc
BY DEF IInv, OnCourse, At

LEMMA GoingTo ==
  ASSUME IInv, pc # "errands", NEW l \in Labels \ {"errands"}, Goto(l)
  PROVE  /\ pc' = l /\ At' = l /\ At = pc /\ errands = << >> /\ errands' = << >>
         /\ UNCHANGED <<after, verdict, leaked, test, shared>>
         /\ pc' \in Labels
         /\ Owed(errands)' = {} /\ Owed(errands) = {}
<1>1. pc' = l /\ errands = << >> /\ UNCHANGED <<errands, after, verdict, leaked, test, shared>>
  BY Here DEF Goto, leaving
<1>2. At' = l /\ At = pc
  BY <1>1, Here DEF At
<1>3. Owed(errands)' = {} /\ Owed(errands) = {}
  BY <1>1 DEF Owed
<1> QED
  BY <1>1, <1>2, <1>3

LEMMA LeavingFor ==
  ASSUME IInv, NEW todo \in Seq(Errand), NEW l \in {"reached_own", "judge", "return"},
     Leave(todo, l)
  PROVE  /\ At' = l /\ errands' = todo /\ after' = l /\ pc' \in Labels
         /\ (pc' = "errands" <=> todo # << >>) /\ errands' \in Seq(Errand)
         /\ UNCHANGED <<test, leaked, shared>>
         /\ Owed(errands)' = Owed(todo)
<1>1. /\ pc' = (IF todo = << >> THEN l ELSE "errands") /\ errands' = todo /\ after' = l
      /\ UNCHANGED <<test, leaked, shared>>
  BY DEF Leave
<1>2. At' = l
  BY <1>1 DEF At
<1>3. Owed(errands)' = Owed(todo)
  BY <1>1 DEF Owed
<1>4. pc' \in Labels
  BY <1>1 DEF Labels
<1> QED
  BY <1>1, <1>2, <1>3, <1>4

\* What the lists of errands take away.
LEMMA ErrandFacts ==
  /\ << >> \in Seq(Errand)
  /\ CleanUp \in Seq(Errand)
  /\ {"marker", "own", "probe", "tenant1", "tenant2"} \subseteq Owed(CleanUp)
  /\ <<DeleteOf("marker")>> \in Seq(Errand) /\ "marker" \in Owed(<<DeleteOf("marker")>>)
  /\ <<DeleteOf("marker"), DeleteOf("probe")>> \in Seq(Errand)
  /\ {"marker", "probe"} \subseteq Owed(<<DeleteOf("marker"), DeleteOf("probe")>>)
  /\ <<DeleteOf("marker"), DeleteOf("probe"), AwaitOf("marker"),
       AwaitOf("probe")>> \in Seq(Errand)
  /\ {"marker", "probe"} \subseteq
       Owed(<<DeleteOf("marker"), DeleteOf("probe"), AwaitOf("marker"), AwaitOf("probe")>>)
  /\ \A k \in Pods :
       /\ <<DeleteOf(k)>> \in Seq(Errand) /\ k \in Owed(<<DeleteOf(k)>>)
       /\ <<DeleteOf(k), AwaitOf(k)>> \in Seq(Errand) /\ k \in Owed(<<DeleteOf(k), AwaitOf(k)>>)
<1>1. /\ \A k \in Pods : DeleteOf(k) \in Errand /\ AwaitOf(k) \in Errand
      /\ \A t \in Tenants : DropOf(t) \in Errand /\ AwaitOf(t) \in Errand
  BY DEF Errand, DeleteOf, AwaitOf, DropOf
<1>2. {"marker", "own", "probe"} \subseteq Pods /\ {"tenant1", "tenant2"} \subseteq Tenants
  BY DEF Pods, Tenants
<1>3. \A todo, i : i \in DOMAIN todo /\ todo[i].do # "await" => todo[i].to \in Owed(todo)
  BY DEF Owed
<1>4. /\ \A k : DeleteOf(k).do # "await" /\ DeleteOf(k).to = k
      /\ \A t : DropOf(t).do # "await" /\ DropOf(t).to = t
  BY DEF DeleteOf, DropOf
<1>5. << >> \in Seq(Errand)
  OBVIOUS
<1>6. CleanUp \in Seq(Errand) /\ {"marker", "own", "probe", "tenant1",
                                   "tenant2"} \subseteq Owed(CleanUp)
  <2>1. CleanUp \in Seq(Errand)
    BY <1>1, <1>2 DEF CleanUp
  <2>2. /\ 1 \in DOMAIN CleanUp /\ CleanUp[1] = DropOf("tenant1")
        /\ 2 \in DOMAIN CleanUp /\ CleanUp[2] = DeleteOf("marker")
        /\ 3 \in DOMAIN CleanUp /\ CleanUp[3] = DropOf("tenant2")
        /\ 4 \in DOMAIN CleanUp /\ CleanUp[4] = DeleteOf("probe")
        /\ 5 \in DOMAIN CleanUp /\ CleanUp[5] = DeleteOf("own")
    BY DEF CleanUp
  <2>3. /\ "tenant1" \in Owed(CleanUp) /\ "marker" \in Owed(CleanUp)
        /\ "tenant2" \in Owed(CleanUp) /\ "probe" \in Owed(CleanUp) /\ "own" \in Owed(CleanUp)
    BY <1>3, <1>4, <2>2
  <2> QED
    BY <2>1, <2>3
<1>7. \A k \in Pods :
        /\ <<DeleteOf(k)>> \in Seq(Errand) /\ k \in Owed(<<DeleteOf(k)>>)
        /\ <<DeleteOf(k), AwaitOf(k)>> \in Seq(Errand)
        /\ k \in Owed(<<DeleteOf(k), AwaitOf(k)>>)
  <2>1. TAKE k \in Pods
  <2> DEFINE one == <<DeleteOf(k)>>
             two == <<DeleteOf(k), AwaitOf(k)>>
  <2>2. one \in Seq(Errand) /\ two \in Seq(Errand)
    BY <1>1
  <2>3. 1 \in DOMAIN one /\ one[1] = DeleteOf(k) /\ 1 \in DOMAIN two /\ two[1] = DeleteOf(k)
    OBVIOUS
  <2> HIDE DEF one, two
  <2>4. k \in Owed(one) /\ k \in Owed(two)
    BY <1>3, <1>4, <2>3
  <2> QED
    BY <2>2, <2>4 DEF one, two
<1>8. /\ <<DeleteOf("marker"), DeleteOf("probe")>> \in Seq(Errand)
      /\ {"marker", "probe"} \subseteq Owed(<<DeleteOf("marker"), DeleteOf("probe")>>)
  <2> DEFINE two == <<DeleteOf("marker"), DeleteOf("probe")>>
  <2>1. two \in Seq(Errand)
    BY <1>1, <1>2
  <2>2. 1 \in DOMAIN two /\ two[1] = DeleteOf("marker") /\ 2 \in DOMAIN two /\ two[2] = DeleteOf("probe")
    OBVIOUS
  <2> HIDE DEF two
  <2>3. "marker" \in Owed(two) /\ "probe" \in Owed(two)
    BY <1>3, <1>4, <2>2
  <2> QED
    BY <2>1, <2>3 DEF two
<1>9. /\ <<DeleteOf("marker"), DeleteOf("probe"), AwaitOf("marker"),
           AwaitOf("probe")>> \in Seq(Errand)
      /\ {"marker", "probe"} \subseteq
           Owed(<<DeleteOf("marker"), DeleteOf("probe"), AwaitOf("marker"), AwaitOf("probe")>>)
  <2> DEFINE four == <<DeleteOf("marker"), DeleteOf("probe"), AwaitOf("marker"),
                       AwaitOf("probe")>>
  <2>1. four \in Seq(Errand)
    BY <1>1, <1>2
  <2>2. 1 \in DOMAIN four /\ four[1] = DeleteOf("marker") /\ 2 \in DOMAIN four /\ four[2] = DeleteOf("probe")
    OBVIOUS
  <2> HIDE DEF four
  <2>3. "marker" \in Owed(four) /\ "probe" \in Owed(four)
    BY <1>3, <1>4, <2>2
  <2> QED
    BY <2>1, <2>3 DEF four
<1> QED
  BY <1>2, <1>5, <1>6, <1>7, <1>8, <1>9

LEMMA FreshFacts ==
  ASSUME NEW some \in SUBSET Addresses
  PROVE  /\ Fresh(some) \in Attempt /\ Fresh(some).targets = some /\ Fresh(some).heard = {}
         /\ Fresh(some).left = {} /\ ~ Fresh(some).placed
         /\ ~ Fresh(some).reachable
BY BoundsAssumption DEF Fresh, Attempt

\* With the verdict only the errands are left.
LEMMA EndFacts ==
  ASSUME IInv, NEW todo \in Seq(Errand), NEW level \in Level, NEW why \in Why,
         Leave(todo, "return"), Result(level, why), UNCHANGED cluster,
         {k \in Pods : pod[k] # "absent"} \union services \subseteq leaked \union Owed(todo)
  PROVE  IInv'
<1>1. /\ At' = "return" /\ errands' = todo /\ after' = "return" /\ pc' \in Labels
      /\ (pc' = "errands" <=> todo # << >>) /\ errands' \in Seq(Errand)
      /\ UNCHANGED <<test, leaked, shared>> /\ Owed(errands)' = Owed(todo)
  BY LeavingFor
<1>2. /\ verdict' = [level |-> level, why |-> why] /\ tries' = 0
      /\ addresses' = {} /\ collision' = "unasked" /\ control' = "none"
      /\ prober' = "probe" /\ attempt' = Fresh({})
      /\ leads' = [a \in Addresses |-> "untried"]
      /\ UNCHANGED <<pod, services, open, said>>
  BY DEF Result, cluster
<1>3. /\ attempt' \in Attempt /\ attempt'.targets = {} /\ attempt'.heard = {}
      /\ attempt'.left = {}
      /\ ~ attempt'.placed /\ ~ attempt'.reachable
  BY <1>2, FreshFacts
<1>4. verdict' # Pending
  <2>1. Pending.level = "pending" /\ verdict'.level = level
    BY <1>2 DEF Pending
  <2>2. level # "pending"
    BY DEF Level
  <2> QED
    BY <2>1, <2>2
<1>5. TypeOK'
  <2>1. verdict' \in [level : Level, why : Why]
    BY <1>2
  <2>2. leads' \in [Addresses -> Lead \union {"untried"}]
    BY <1>2
  <2> QED
    BY <1>1, <1>2, <1>3, <2>1, <2>2, BoundsAssumption DEF IInv, TypeOK
<1>6. OnCourse'
  BY <1>1, <1>2, <1>4 DEF IInv, OnCourse, Judged
<1>7. Kept'
  BY <1>1, <1>2 DEF Kept
<1>8. Planted'
  BY <1>1, <1>2 DEF IInv, Planted, Probing
<1>9. Controlled'
  BY <1>1, <1>2 DEF Controlled, Probing
<1>10. HeardSoFar' /\ SweptSoFar'
  BY <1>1, <1>3 DEF HeardSoFar, SweptSoFar, Answered
<1> QED
  BY <1>5, <1>6, <1>7, <1>8, <1>9, <1>10 DEF IInv

\* What is still being used is taken away by what is left to be done.
LEMMA UseFacts ==
  ASSUME IInv, pc # "errands", NEW todo, InUse \subseteq Owed(todo)
  PROVE  {k \in Pods : pod[k] # "absent"} \union services \subseteq leaked \union Owed(todo)
<1>1. Owed(errands) = {}
  BY Here DEF Owed
<1> QED
  BY <1>1 DEF IInv, Kept

-----------------------------------------------------------------------------
(***************************************************************************)
(* The steps that end the test.                                            *)
(***************************************************************************)
LEMMA GiveUpFacts ==
  ASSUME IInv, NEW why \in Why, GiveUp(why), UNCHANGED cluster, pc # "errands",
         InUse \subseteq {"marker"}
  PROVE  IInv'
<1>1. Leave(<<DeleteOf("marker")>>, "return") /\ Result("Unknown", why) /\ "Unknown" \in Level
  BY DEF GiveUp, Level
<1>2. InUse \subseteq Owed(<<DeleteOf("marker")>>) /\ <<DeleteOf("marker")>> \in Seq(Errand)
  BY ErrandFacts
<1>3. {k \in Pods : pod[k] # "absent"} \union services
        \subseteq leaked \union Owed(<<DeleteOf("marker")>>)
  BY <1>2, UseFacts
<1> QED
  BY <1>1, <1>2, <1>3, EndFacts

LEMMA CleanUpFacts ==
  ASSUME IInv, NEW level \in Level, NEW why \in Why, Leave(CleanUp, "return"),
         Result(level, why), UNCHANGED cluster, pc # "errands",
         InUse \subseteq {"marker", "own", "probe", "tenant1", "tenant2"}
  PROVE  IInv'
<1>1. InUse \subseteq Owed(CleanUp) /\ CleanUp \in Seq(Errand)
  BY ErrandFacts
<1>2. {k \in Pods : pod[k] # "absent"} \union services \subseteq leaked \union Owed(CleanUp)
  BY <1>1, UseFacts
<1> QED
  BY <1>1, <1>2, EndFacts

LEMMA WhyFacts ==
  {"unplanted", "unserved", "no_address", "refused", "unasked", "read", "collision",
   "unexpected", "control", "silence"} \subseteq Why /\ {"None", "Unknown", "Soft",
                                                          "Hard"} \subseteq Level
BY DEF Why, Level

LEMMA EarlyEndStep ==
  IInv /\ (PlantFails \/ MarkerNotReady \/ CreateServiceFails \/ NotServing \/ NoAddresses
           \/ NodeProbeRefused \/ NodeProbeFails) => IInv'
<1>1. ASSUME IInv, PlantFails PROVE IInv'
  <2>1. /\ pc = "plant" /\ Leave(<< >>, "return") /\ Result("Unknown", "unplanted")
        /\ UNCHANGED cluster
    BY <1>1 DEF PlantFails
  <2>2. At = "plant" /\ InUse = {}
    BY <1>1, <2>1, Here DEF InUse
  <2>3. {k \in Pods : pod[k] # "absent"} \union services \subseteq leaked \union Owed(<< >>)
    BY <1>1, <2>1, <2>2, UseFacts
  <2> QED
    BY <1>1, <2>1, <2>3, ErrandFacts, WhyFacts, EndFacts
<1>2. ASSUME IInv, MarkerNotReady \/ CreateServiceFails PROVE IInv'
  <2>1. pc \in {"ready", "service"} /\ GiveUp("unplanted") /\ UNCHANGED cluster
    BY <1>2 DEF MarkerNotReady, CreateServiceFails
  <2>2. InUse \subseteq {"marker"}
    BY <1>2, <2>1, Here DEF InUse
  <2> QED
    BY <1>2, <2>1, <2>2, WhyFacts, GiveUpFacts
<1>3. ASSUME IInv, NotServing PROVE IInv'
  <2>1. pc = "serving" /\ Leave(CleanUp, "return") /\ Result("Unknown",
                            "unserved") /\ UNCHANGED cluster
    BY <1>3 DEF NotServing
  <2>2. InUse \subseteq {"marker", "own", "probe", "tenant1", "tenant2"}
    BY <1>3, <2>1, Here DEF InUse
  <2> QED
    BY <1>3, <2>1, <2>2, WhyFacts, CleanUpFacts
<1>4. ASSUME IInv, NoAddresses PROVE IInv'
  <2>1. pc = "addresses" /\ UNCHANGED cluster
    BY <1>4 DEF NoAddresses
  <2>2. InUse \subseteq {"marker", "own", "probe", "tenant1", "tenant2"}
        /\ (test # "nodeport" => InUse \subseteq {"marker"})
    BY <1>4, <2>1, Here DEF InUse
  <2>3. CASE test = "nodeport"
    BY <1>4, <2>1, <2>2, <2>3, WhyFacts, CleanUpFacts DEF NoAddresses
  <2>4. CASE test # "nodeport"
    BY <1>4, <2>1, <2>2, <2>4, WhyFacts, GiveUpFacts DEF NoAddresses
  <2> QED
    BY <2>3, <2>4
<1>5. ASSUME IInv, NodeProbeRefused PROVE IInv'
  <2>1. /\ pc = "place" /\ test = "node_network" /\ Leave(<<DeleteOf("marker")>>, "return")
        /\ Result("Soft", "refused") /\ UNCHANGED cluster
    BY <1>5 DEF NodeProbeRefused
  <2>2. InUse \subseteq Owed(<<DeleteOf("marker")>>)
    BY <1>5, <2>1, Here, ErrandFacts DEF InUse
  <2>3. {k \in Pods : pod[k] # "absent"} \union services
          \subseteq leaked \union Owed(<<DeleteOf("marker")>>)
    BY <1>5, <2>1, <2>2, UseFacts
  <2> QED
    BY <1>5, <2>1, <2>3, ErrandFacts, WhyFacts, EndFacts
<1>6. ASSUME IInv, NodeProbeFails PROVE IInv'
  <2>1. pc = "place" /\ test = "node_network" /\ GiveUp("unasked") /\ UNCHANGED cluster
    BY <1>6 DEF NodeProbeFails
  <2>2. InUse \subseteq {"marker"}
    BY <1>6, <2>1, Here DEF InUse
  <2> QED
    BY <1>6, <2>1, <2>2, WhyFacts, GiveUpFacts
<1> QED
  BY <1>1, <1>2, <1>3, <1>4, <1>5, <1>6

LEMMA JudgeStep == IInv /\ Judge => IInv'
<1> SUFFICES ASSUME IInv, Judge PROVE IInv'
  OBVIOUS
<1>1. pc = "judge" /\ UNCHANGED cluster /\ At = "judge"
  BY Here DEF Judge
<1>2. CASE test = "nodeport"
  <2>1. JudgeNodePort /\ Leave(CleanUp, "return")
    BY <1>2 DEF Judge
  <2>2. InUse \subseteq {"marker", "own", "probe", "tenant1", "tenant2"}
    BY <1>1, <1>2 DEF InUse
  <2>3. PICK level \in Level, why \in Why : Result(level, why)
    BY <2>1, WhyFacts DEF JudgeNodePort
  <2> QED
    BY <1>1, <2>1, <2>2, <2>3, CleanUpFacts
<1>3. CASE test = "node_network"
  <2>1. JudgeNodeNetwork /\ Leave(<< >>, "return")
    BY <1>3 DEF Judge
  <2>2. InUse = {}
    BY <1>1, <1>3 DEF InUse
  <2>3. PICK level \in Level, why \in Why : Result(level, why)
    BY <2>1, WhyFacts DEF JudgeNodeNetwork
  <2>4. {k \in Pods : pod[k] # "absent"} \union services \subseteq leaked \union Owed(<< >>)
    BY <1>1, <2>2, UseFacts
  <2> QED
    BY <1>1, <2>1, <2>3, <2>4, ErrandFacts, EndFacts
<1>4. test = "nodeport" \/ test = "node_network"
  BY DEF IInv, TypeOK
<1> QED
  BY <1>2, <1>3, <1>4

-----------------------------------------------------------------------------
(***************************************************************************)
(* The steps that go on.                                                   *)
(***************************************************************************)
LEMMA LabelFacts ==
  {"plant", "ready", "service", "serving", "own_pod", "claim", "addresses", "own_addresses",
   "own_serving", "place", "settle", "sweep", "reached_own", "judge", "return", "over"}
    \subseteq Labels \ {"errands"}
BY DEF Labels

LEMMA PlantStep == IInv /\ Plant => IInv'
<1> SUFFICES ASSUME IInv, Plant PROVE IInv'
  OBVIOUS
<1>1. /\ pc = "plant" /\ errands = << >> /\ errands' = << >> /\ At = pc /\ At' = pc'
      /\ pc' = "ready" /\ pc' \in Labels \ {"errands"}
      /\ UNCHANGED <<after, verdict, leaked, test, shared>>
      /\ Owed(errands)' = {} /\ Owed(errands) = {}
  BY GoingTo, LabelFacts DEF Plant
<1>2. /\ UNCHANGED <<services, open, said, tries, addresses, collision, control, prober,
                     attempt, leads>>
      /\ pod["marker"] = "absent"
      /\ pod' = [pod EXCEPT !["marker"] = "pending"]
  BY DEF Plant, Create, Becomes, found, asking
<1>TypeOK. TypeOK'
  BY <1>1, <1>2 DEF IInv, TypeOK, PodStatus, Pods
<1>OnCourse. OnCourse'
  BY <1>1, <1>2 DEF IInv, OnCourse, Judged
<1>Kept. Kept'
  BY <1>1, <1>2 DEF IInv, Kept, InUse
<1>Planted. Planted'
  BY <1>1, <1>2 DEF IInv, Planted, Probing
<1>Controlled. Controlled'
  BY <1>1, <1>2 DEF IInv, Controlled, Probing
<1>HeardSoFar. HeardSoFar'
  BY <1>1, <1>2 DEF IInv, HeardSoFar, Answered
<1>SweptSoFar. SweptSoFar'
  BY <1>1, <1>2 DEF IInv, SweptSoFar, Told
<1> QED
  BY <1>TypeOK, <1>OnCourse, <1>Kept, <1>Planted, <1>Controlled, <1>HeardSoFar,
     <1>SweptSoFar DEF IInv

LEMMA MarkerReadyStep == IInv /\ MarkerReady => IInv'
<1> SUFFICES ASSUME IInv, MarkerReady PROVE IInv'
  OBVIOUS
<1>1. /\ pc = "ready" /\ errands = << >> /\ errands' = << >> /\ At = pc /\ At' = pc'
      /\ pc' = (IF test = "nodeport" THEN "service" ELSE "addresses")
      /\ pc' \in Labels \ {"errands"}
      /\ UNCHANGED <<after, verdict, leaked, test, shared>>
      /\ Owed(errands)' = {} /\ Owed(errands) = {}
  BY GoingTo, LabelFacts DEF MarkerReady
<1>2. UNCHANGED <<pod, services, open, said, tries, addresses, collision, control, prober,
                  attempt, leads>>
  BY DEF MarkerReady, cluster, found, asking, IsReady
<1>TypeOK. TypeOK'
  BY <1>1, <1>2 DEF IInv, TypeOK
<1>OnCourse. OnCourse'
  BY <1>1, <1>2 DEF IInv, OnCourse, Judged
<1>Kept. Kept'
  BY <1>1, <1>2 DEF IInv, Kept, InUse
<1>Planted. Planted'
  BY <1>1, <1>2 DEF IInv, Planted, Probing
<1>Controlled. Controlled'
  BY <1>1, <1>2 DEF IInv, Controlled, Probing
<1>HeardSoFar. HeardSoFar'
  BY <1>1, <1>2 DEF IInv, HeardSoFar, Answered
<1>SweptSoFar. SweptSoFar'
  BY <1>1, <1>2 DEF IInv, SweptSoFar, Told
<1> QED
  BY <1>TypeOK, <1>OnCourse, <1>Kept, <1>Planted, <1>Controlled, <1>HeardSoFar,
     <1>SweptSoFar DEF IInv

LEMMA CreateServiceStep == IInv /\ CreateService => IInv'
<1> SUFFICES ASSUME IInv, CreateService PROVE IInv'
  OBVIOUS
<1>1. /\ pc = "service" /\ errands = << >> /\ errands' = << >> /\ At = pc /\ At' = pc'
      /\ pc' = "serving" /\ pc' \in Labels \ {"errands"}
      /\ UNCHANGED <<after, verdict, leaked, test, shared>>
      /\ Owed(errands)' = {} /\ Owed(errands) = {}
  BY GoingTo, LabelFacts DEF CreateService
<1>2. /\ UNCHANGED <<pod, open, said, addresses, collision, control, prober, attempt, leads>>
      /\ services' = services \union {"tenant1"}
      /\ tries' = 0
  BY DEF CreateService, found, asking
<1>TypeOK. TypeOK'
  BY <1>1, <1>2, BoundsAssumption DEF IInv, TypeOK, Tenants
<1>OnCourse. OnCourse'
  BY <1>1, <1>2 DEF IInv, OnCourse, Judged
<1>Kept. Kept'
  <2>1. test = "nodeport"
    BY <1>1 DEF IInv, TypeOK, OnCourse
  <2>2. InUse \subseteq InUse' /\ {"tenant1", "tenant2", "own"} \subseteq InUse'
    BY <1>1, <1>2, <2>1 DEF InUse
  <2> QED
    BY <1>1, <1>2, <2>2 DEF IInv, Kept
<1>Planted. Planted'
  BY <1>1, <1>2 DEF IInv, Planted, Probing
<1>Controlled. Controlled'
  BY <1>1, <1>2 DEF IInv, Controlled, Probing
<1>HeardSoFar. HeardSoFar'
  BY <1>1, <1>2 DEF IInv, HeardSoFar, Answered
<1>SweptSoFar. SweptSoFar'
  BY <1>1, <1>2 DEF IInv, SweptSoFar, Told
<1> QED
  BY <1>TypeOK, <1>OnCourse, <1>Kept, <1>Planted, <1>Controlled, <1>HeardSoFar,
     <1>SweptSoFar DEF IInv

LEMMA AwaitServingStep == IInv /\ AwaitServing => IInv'
<1> SUFFICES ASSUME IInv, AwaitServing PROVE IInv'
  OBVIOUS
<1>1. /\ pc = "serving" /\ errands = << >> /\ errands' = << >> /\ At = pc /\ At' = pc'
      /\ pc' \in {"serving", "own_pod"} /\ pc' \in Labels \ {"errands"}
      /\ UNCHANGED <<after, verdict, leaked, test, shared>>
      /\ Owed(errands)' = {} /\ Owed(errands) = {}
  BY GoingTo, LabelFacts DEF AwaitServing, PollServing
<1>2. /\ UNCHANGED <<pod, services, open, said, addresses, collision, control, prober,
                     attempt, leads>>
      /\ tries' \in 0 .. ServingAttempts
      /\ pc' = "own_pod" => "marker" \in said
  BY BoundsAssumption DEF AwaitServing, cluster, found, asking, PollServing, SaysServing,
     MoreToCome, Goto, IInv, TypeOK
<1>TypeOK. TypeOK'
  BY <1>1, <1>2 DEF IInv, TypeOK
<1>OnCourse. OnCourse'
  BY <1>1, <1>2 DEF IInv, OnCourse, Judged
<1>Kept. Kept'
  BY <1>1, <1>2 DEF IInv, Kept, InUse
<1>Planted. Planted'
  BY <1>1, <1>2 DEF IInv, Planted, Probing
<1>Controlled. Controlled'
  BY <1>1, <1>2 DEF IInv, Controlled, Probing
<1>HeardSoFar. HeardSoFar'
  BY <1>1, <1>2 DEF IInv, HeardSoFar, Answered
<1>SweptSoFar. SweptSoFar'
  BY <1>1, <1>2 DEF IInv, SweptSoFar, Told
<1> QED
  BY <1>TypeOK, <1>OnCourse, <1>Kept, <1>Planted, <1>Controlled, <1>HeardSoFar,
     <1>SweptSoFar DEF IInv

LEMMA PlantOwnStep == IInv /\ PlantOwn => IInv'
<1> SUFFICES ASSUME IInv, PlantOwn PROVE IInv'
  OBVIOUS
<1>1. /\ pc = "own_pod" /\ errands = << >> /\ errands' = << >> /\ At = pc /\ At' = pc'
      /\ pc' = "claim" /\ pc' \in Labels \ {"errands"}
      /\ UNCHANGED <<after, verdict, leaked, test, shared>>
      /\ Owed(errands)' = {} /\ Owed(errands) = {}
  BY GoingTo, LabelFacts DEF PlantOwn
<1>2. /\ UNCHANGED <<services, open, said, tries, addresses, collision, control, prober,
                     attempt, leads>>
      /\ pod' \in [Pods -> PodStatus]
      /\ \A k \in Pods \ {"own"} : pod'[k] = pod[k]
  BY DEF PlantOwn, Create, Becomes, cluster, found, asking, IInv, TypeOK, Pods, PodStatus
<1>TypeOK. TypeOK'
  BY <1>1, <1>2 DEF IInv, TypeOK, PodStatus, Pods
<1>OnCourse. OnCourse'
  BY <1>1, <1>2 DEF IInv, OnCourse, Judged
<1>Kept. Kept'
  <2>1. test = "nodeport"
    BY <1>1 DEF IInv, TypeOK, OnCourse
  <2>2. InUse \subseteq InUse' /\ {"tenant1", "tenant2", "own"} \subseteq InUse'
    BY <1>1, <1>2, <2>1 DEF InUse
  <2> QED
    BY <1>1, <1>2, <2>2 DEF IInv, Kept
<1>Planted. Planted'
  BY <1>1, <1>2 DEF IInv, Planted, Probing, Pods
<1>Controlled. Controlled'
  BY <1>1, <1>2 DEF IInv, Controlled, Probing
<1>HeardSoFar. HeardSoFar'
  BY <1>1, <1>2 DEF IInv, HeardSoFar, Answered
<1>SweptSoFar. SweptSoFar'
  BY <1>1, <1>2 DEF IInv, SweptSoFar, Told
<1> QED
  BY <1>TypeOK, <1>OnCourse, <1>Kept, <1>Planted, <1>Controlled, <1>HeardSoFar,
     <1>SweptSoFar DEF IInv

LEMMA ClaimStep == IInv /\ Claim => IInv'
<1> SUFFICES ASSUME IInv, Claim PROVE IInv'
  OBVIOUS
<1>1. /\ pc = "claim" /\ errands = << >> /\ errands' = << >> /\ At = pc /\ At' = pc'
      /\ pc' = "addresses" /\ pc' \in Labels \ {"errands"}
      /\ UNCHANGED <<after, verdict, leaked, test, shared>>
      /\ Owed(errands)' = {} /\ Owed(errands) = {}
  BY GoingTo, LabelFacts DEF Claim
<1>2. /\ UNCHANGED <<pod, open, said, tries, addresses, control, prober, attempt, leads>>
      /\ services' = services \union {"tenant2"}
      /\ collision' = "none"
      /\ ~ shared
  BY <1>1 DEF Claim, found, asking, Free, IInv, Planted
<1>TypeOK. TypeOK'
  BY <1>1, <1>2 DEF IInv, TypeOK, Tenants
<1>OnCourse. OnCourse'
  BY <1>1, <1>2 DEF IInv, OnCourse, Judged
<1>Kept. Kept'
  <2>1. test = "nodeport"
    BY <1>1 DEF IInv, TypeOK, OnCourse
  <2>2. InUse \subseteq InUse' /\ {"tenant1", "tenant2", "own"} \subseteq InUse'
    BY <1>1, <1>2, <2>1 DEF InUse
  <2> QED
    BY <1>1, <1>2, <2>2 DEF IInv, Kept
<1>Planted. Planted'
  BY <1>1, <1>2 DEF IInv, Planted, Probing
<1>Controlled. Controlled'
  BY <1>1, <1>2 DEF IInv, Controlled, Probing
<1>HeardSoFar. HeardSoFar'
  BY <1>1, <1>2 DEF IInv, HeardSoFar, Answered
<1>SweptSoFar. SweptSoFar'
  BY <1>1, <1>2 DEF IInv, SweptSoFar, Told
<1> QED
  BY <1>TypeOK, <1>OnCourse, <1>Kept, <1>Planted, <1>Controlled, <1>HeardSoFar,
     <1>SweptSoFar DEF IInv

LEMMA ClaimFailsStep == IInv /\ ClaimFails => IInv'
<1> SUFFICES ASSUME IInv, ClaimFails PROVE IInv'
  OBVIOUS
<1>1. /\ pc = "claim" /\ errands = << >> /\ errands' = << >> /\ At = pc /\ At' = pc'
      /\ pc' = "addresses" /\ pc' \in Labels \ {"errands"}
      /\ UNCHANGED <<after, verdict, leaked, test, shared>>
      /\ Owed(errands)' = {} /\ Owed(errands) = {}
  BY GoingTo, LabelFacts DEF ClaimFails
<1>2. /\ UNCHANGED <<pod, services, open, said, tries, addresses, control, prober, attempt,
                     leads>>
      /\ collision' = "denied"
  BY DEF ClaimFails, cluster, found, asking
<1>TypeOK. TypeOK'
  BY <1>1, <1>2 DEF IInv, TypeOK
<1>OnCourse. OnCourse'
  BY <1>1, <1>2 DEF IInv, OnCourse, Judged
<1>Kept. Kept'
  BY <1>1, <1>2 DEF IInv, Kept, InUse
<1>Planted. Planted'
  BY <1>1, <1>2 DEF IInv, Planted, Probing
<1>Controlled. Controlled'
  BY <1>1, <1>2 DEF IInv, Controlled, Probing
<1>HeardSoFar. HeardSoFar'
  BY <1>1, <1>2 DEF IInv, HeardSoFar, Answered
<1>SweptSoFar. SweptSoFar'
  BY <1>1, <1>2 DEF IInv, SweptSoFar, Told
<1> QED
  BY <1>TypeOK, <1>OnCourse, <1>Kept, <1>Planted, <1>Controlled, <1>HeardSoFar,
     <1>SweptSoFar DEF IInv

LEMMA GatherAddressesStep == IInv /\ GatherAddresses => IInv'
<1> SUFFICES ASSUME IInv, GatherAddresses PROVE IInv'
  OBVIOUS
<1>1. /\ pc = "addresses" /\ errands = << >> /\ errands' = << >> /\ At = pc /\ At' = pc'
      /\ pc' = (IF collision = "none" THEN "own_addresses" ELSE "place")
      /\ pc' \in Labels \ {"errands"}
      /\ UNCHANGED <<after, verdict, leaked, test, shared>>
      /\ Owed(errands)' = {} /\ Owed(errands) = {}
  BY GoingTo, LabelFacts DEF GatherAddresses
<1>2. /\ UNCHANGED <<pod, services, open, said, tries, collision, control, leads>>
      /\ addresses' \in SUBSET Addresses
      /\ collision = "none" => addresses' # {}
      /\ attempt'.targets # {}
      /\ prober' = "probe"
      /\ attempt' \in Attempt
      /\ attempt'.heard = {}
      /\ attempt'.left = {}
      /\ ~ attempt'.placed
      /\ ~ attempt'.reachable
  <2>1. PICK some \in (SUBSET Addresses) \ {{}} :
          /\ addresses' = IF collision = "none" THEN some ELSE {}
          /\ prober' = "probe" /\ attempt' = Fresh(some)
    BY DEF GatherAddresses
  <2>2. UNCHANGED <<pod, services, open, said, tries, collision, control, leads>>
    BY DEF GatherAddresses, cluster, found
  <2>3. some \subseteq Addresses /\ some # {}
    BY <2>1
  <2>4. /\ Fresh(some) \in Attempt /\ Fresh(some).targets = some /\ Fresh(some).heard = {}
        /\ Fresh(some).left = {} /\ ~ Fresh(some).placed
        /\ ~ Fresh(some).reachable
    BY <2>3, FreshFacts
  <2> QED
    BY <2>1, <2>2, <2>3, <2>4
<1>TypeOK. TypeOK'
  BY <1>1, <1>2 DEF IInv, TypeOK
<1>OnCourse. OnCourse'
  BY <1>1, <1>2 DEF IInv, OnCourse, Judged
<1>Kept. Kept'
  BY <1>1, <1>2 DEF IInv, Kept, InUse
<1>Planted. Planted'
  BY <1>1, <1>2 DEF IInv, Planted, Probing
<1>Controlled. Controlled'
  BY <1>1, <1>2 DEF IInv, Controlled, Probing
<1>HeardSoFar. HeardSoFar'
  BY <1>1, <1>2 DEF IInv, HeardSoFar, Answered
<1>SweptSoFar. SweptSoFar'
  BY <1>1, <1>2 DEF IInv, SweptSoFar, Told
<1> QED
  BY <1>TypeOK, <1>OnCourse, <1>Kept, <1>Planted, <1>Controlled, <1>HeardSoFar,
     <1>SweptSoFar DEF IInv

LEMMA GatherOwnAddressesStep == IInv /\ GatherOwnAddresses => IInv'
<1> SUFFICES ASSUME IInv, GatherOwnAddresses PROVE IInv'
  OBVIOUS
<1>1. /\ pc = "own_addresses" /\ errands = << >> /\ errands' = << >> /\ At = pc /\ At' = pc'
      /\ pc' = "own_serving" /\ pc' \in Labels \ {"errands"}
      /\ UNCHANGED <<after, verdict, leaked, test, shared>>
      /\ Owed(errands)' = {} /\ Owed(errands) = {}
  BY GoingTo, LabelFacts DEF GatherOwnAddresses
<1>2. /\ UNCHANGED <<pod, services, open, said, tries, addresses, collision, control, leads>>
      /\ prober' = "selftest"
      /\ attempt'.targets # {}
      /\ attempt' \in Attempt
      /\ attempt'.heard = {}
      /\ attempt'.left = {}
      /\ ~ attempt'.placed
      /\ ~ attempt'.reachable
  <2>1. PICK some \in (SUBSET Addresses) \ {{}} : prober' = "selftest" /\ attempt' = Fresh(some)
    BY DEF GatherOwnAddresses
  <2>2. UNCHANGED <<pod, services, open, said, tries, addresses, collision, control, leads>>
    BY DEF GatherOwnAddresses, cluster, found
  <2>3. some \subseteq Addresses /\ some # {}
    BY <2>1
  <2>4. /\ Fresh(some) \in Attempt /\ Fresh(some).targets = some /\ Fresh(some).heard = {}
        /\ Fresh(some).left = {} /\ ~ Fresh(some).placed
        /\ ~ Fresh(some).reachable
    BY <2>3, FreshFacts
  <2> QED
    BY <2>1, <2>2, <2>3, <2>4
<1>TypeOK. TypeOK'
  BY <1>1, <1>2 DEF IInv, TypeOK
<1>OnCourse. OnCourse'
  BY <1>1, <1>2 DEF IInv, OnCourse, Judged
<1>Kept. Kept'
  BY <1>1, <1>2 DEF IInv, Kept, InUse
<1>Planted. Planted'
  BY <1>1, <1>2 DEF IInv, Planted, Probing
<1>Controlled. Controlled'
  BY <1>1, <1>2 DEF IInv, Controlled, Probing
<1>HeardSoFar. HeardSoFar'
  BY <1>1, <1>2 DEF IInv, HeardSoFar, Answered
<1>SweptSoFar. SweptSoFar'
  BY <1>1, <1>2 DEF IInv, SweptSoFar, Told
<1> QED
  BY <1>TypeOK, <1>OnCourse, <1>Kept, <1>Planted, <1>Controlled, <1>HeardSoFar,
     <1>SweptSoFar DEF IInv

LEMMA NoControlStep == IInv /\ NoControl => IInv'
<1> SUFFICES ASSUME IInv, NoControl PROVE IInv'
  OBVIOUS
<1>1. /\ pc \in {"own_addresses", "own_serving"} /\ errands = << >> /\ errands' = << >>
      /\ At = pc /\ At' = pc'
      /\ pc' = "place" /\ pc' \in Labels \ {"errands"}
      /\ UNCHANGED <<after, verdict, leaked, test, shared>>
      /\ Owed(errands)' = {} /\ Owed(errands) = {}
  BY GoingTo, LabelFacts DEF NoControl
<1>2. /\ UNCHANGED <<pod, services, open, said, collision, leads>>
      /\ prober' = "probe"
      /\ addresses' = {}
      /\ control' = "missed"
      /\ tries' = 0
      /\ attempt'.targets = addresses
      /\ attempt' \in Attempt
      /\ attempt'.heard = {}
      /\ attempt'.left = {}
      /\ ~ attempt'.placed
      /\ ~ attempt'.reachable
  BY FreshFacts DEF NoControl, cluster, found, IInv, TypeOK
<1>TypeOK. TypeOK'
  BY <1>1, <1>2, BoundsAssumption DEF IInv, TypeOK
<1>OnCourse. OnCourse'
  BY <1>1, <1>2 DEF IInv, OnCourse, Judged
<1>Kept. Kept'
  BY <1>1, <1>2 DEF IInv, Kept, InUse
<1>Planted. Planted'
  BY <1>1, <1>2 DEF IInv, Planted, Probing
<1>Controlled. Controlled'
  BY <1>1, <1>2 DEF IInv, Controlled, Probing
<1>HeardSoFar. HeardSoFar'
  BY <1>1, <1>2 DEF IInv, HeardSoFar, Answered
<1>SweptSoFar. SweptSoFar'
  BY <1>1, <1>2 DEF IInv, SweptSoFar, Told
<1> QED
  BY <1>TypeOK, <1>OnCourse, <1>Kept, <1>Planted, <1>Controlled, <1>HeardSoFar,
     <1>SweptSoFar DEF IInv

LEMMA AwaitOwnServingStep == IInv /\ AwaitOwnServing => IInv'
<1> SUFFICES ASSUME IInv, AwaitOwnServing PROVE IInv'
  OBVIOUS
<1>1. /\ pc = "own_serving" /\ errands = << >> /\ errands' = << >> /\ At = pc /\ At' = pc'
      /\ pc' \in {"own_serving", "place"} /\ pc' \in Labels \ {"errands"}
      /\ UNCHANGED <<after, verdict, leaked, test, shared>>
      /\ Owed(errands)' = {} /\ Owed(errands) = {}
  BY GoingTo, LabelFacts DEF AwaitOwnServing, PollServing
<1>2. /\ UNCHANGED <<pod, services, open, said, addresses, collision, control, prober,
                     attempt, leads>>
      /\ tries' \in 0 .. ServingAttempts
  BY BoundsAssumption DEF AwaitOwnServing, cluster, found, asking, PollServing, SaysServing,
     MoreToCome, Goto, IInv, TypeOK
<1>TypeOK. TypeOK'
  BY <1>1, <1>2 DEF IInv, TypeOK
<1>OnCourse. OnCourse'
  BY <1>1, <1>2 DEF IInv, OnCourse, Judged
<1>Kept. Kept'
  BY <1>1, <1>2 DEF IInv, Kept, InUse
<1>Planted. Planted'
  BY <1>1, <1>2 DEF IInv, Planted, Probing
<1>Controlled. Controlled'
  BY <1>1, <1>2 DEF IInv, OnCourse, Controlled, Probing
<1>HeardSoFar. HeardSoFar'
  BY <1>1, <1>2 DEF IInv, HeardSoFar, Answered
<1>SweptSoFar. SweptSoFar'
  BY <1>1, <1>2 DEF IInv, SweptSoFar, Told
<1> QED
  BY <1>TypeOK, <1>OnCourse, <1>Kept, <1>Planted, <1>Controlled, <1>HeardSoFar,
     <1>SweptSoFar DEF IInv

\* What a sweep leaves of the attempt as it was, and what it changes.
LEMMA RoundFacts ==
  ASSUME IInv, NEW targets \in SUBSET Addresses, NEW round \in 0 .. Rounds - 1
  PROVE  LET new == BeginRound(targets, round) IN
           /\ new \in Attempt /\ new.placed /\ new.targets = targets /\ new.left = targets
           /\ new.round = round /\ new.heard = attempt.heard
           /\ new.reachable => VictimServes
           /\ new.exec_failed = attempt.exec_failed
<1>1. attempt \in Attempt /\ VictimServes \in BOOLEAN
  BY DEF IInv, TypeOK, VictimServes
<1> QED
  BY <1>1 DEF Attempt, BeginRound

LEMMA PlaceStep == IInv /\ Place => IInv'
<1> SUFFICES ASSUME IInv, Place PROVE IInv'
  OBVIOUS
<1>1. /\ pc = "place" /\ errands = << >> /\ errands' = << >> /\ At = pc /\ At' = pc'
      /\ pc' = "settle" /\ pc' \in Labels \ {"errands"}
      /\ UNCHANGED <<after, verdict, leaked, test, shared>>
      /\ Owed(errands)' = {} /\ Owed(errands) = {}
  BY GoingTo, LabelFacts DEF Place
<1>2. /\ UNCHANGED <<services, open, said, tries, addresses, collision, control, prober,
                     attempt, leads>>
      /\ pod' \in [Pods -> PodStatus]
      /\ \A k \in Pods \ {prober} : pod'[k] = pod[k]
      /\ prober # "marker"
  BY DEF Place, Create, Becomes, cluster, found, asking, IInv, TypeOK, Pods, PodStatus
<1>TypeOK. TypeOK'
  BY <1>1, <1>2 DEF IInv, TypeOK
<1>OnCourse. OnCourse'
  BY <1>1, <1>2 DEF IInv, OnCourse, Judged
<1>Kept. Kept'
  BY <1>1, <1>2 DEF IInv, Kept, InUse
<1>Planted. Planted'
  BY <1>1, <1>2 DEF IInv, Planted, Probing, Pods
<1>Controlled. Controlled'
  BY <1>1, <1>2 DEF IInv, Controlled, Probing
<1>HeardSoFar. HeardSoFar'
  BY <1>1, <1>2 DEF IInv, HeardSoFar, Answered
<1>SweptSoFar. SweptSoFar'
  BY <1>1, <1>2 DEF IInv, SweptSoFar, Told
<1> QED
  BY <1>TypeOK, <1>OnCourse, <1>Kept, <1>Planted, <1>Controlled, <1>HeardSoFar,
     <1>SweptSoFar DEF IInv

LEMMA PlaceFailsStep == IInv /\ PlaceFails => IInv'
<1> SUFFICES ASSUME IInv, PlaceFails PROVE IInv'
  OBVIOUS
<1>1. /\ pc = "place" /\ test = "nodeport" /\ errands = << >> /\ errands' = << >> /\ At = pc
      /\ At' = pc'
      /\ pc' = (IF prober = "selftest" THEN "reached_own" ELSE "judge")
      /\ pc' \in Labels \ {"errands"}
      /\ UNCHANGED <<after, verdict, leaked, test, shared>>
      /\ Owed(errands)' = {} /\ Owed(errands) = {}
  BY GoingTo, LabelFacts DEF PlaceFails, Probed
<1>2. UNCHANGED <<pod, services, open, said, tries, addresses, collision, control, prober,
                  attempt, leads>>
  BY DEF PlaceFails, cluster, found, asking, Probed
<1>TypeOK. TypeOK'
  BY <1>1, <1>2 DEF IInv, TypeOK
<1>OnCourse. OnCourse'
  BY <1>1, <1>2 DEF IInv, TypeOK, OnCourse, Judged
<1>Kept. Kept'
  BY <1>1, <1>2 DEF IInv, Kept, InUse
<1>Planted. Planted'
  BY <1>1, <1>2 DEF IInv, Planted, Probing
<1>Controlled. Controlled'
  BY <1>1, <1>2 DEF IInv, Controlled, Probing
<1>HeardSoFar. HeardSoFar'
  BY <1>1, <1>2 DEF IInv, HeardSoFar, Answered
<1>SweptSoFar. SweptSoFar'
  BY <1>1, <1>2 DEF IInv, HeardSoFar, SweptSoFar, Told
<1> QED
  BY <1>TypeOK, <1>OnCourse, <1>Kept, <1>Planted, <1>Controlled, <1>HeardSoFar,
     <1>SweptSoFar DEF IInv

LEMMA SettleStep == IInv /\ Settle => IInv'
<1> SUFFICES ASSUME IInv, Settle PROVE IInv'
  OBVIOUS
<1>1. /\ pc = "settle" /\ errands = << >> /\ errands' = << >> /\ At = pc /\ At' = pc'
      /\ pc' = "sweep" /\ pc' \in Labels \ {"errands"}
      /\ UNCHANGED <<after, verdict, leaked, test, shared>>
      /\ Owed(errands)' = {} /\ Owed(errands) = {}
  BY GoingTo, LabelFacts DEF Settle
<1>2. /\ UNCHANGED <<pod, services, open, said, tries, addresses, collision, control, prober,
                     leads>>
      /\ attempt' \in Attempt
      /\ attempt'.placed
      /\ attempt.targets \subseteq attempt'.targets
      /\ attempt'.left = attempt'.targets
      /\ attempt'.round = 0
      /\ attempt'.reachable => VictimServes
      /\ attempt'.heard = attempt.heard
      /\ attempt'.exec_failed = attempt.exec_failed
  <2>1. PICK hops \in SUBSET Addresses : attempt' = BeginRound(attempt.targets \union hops, 0)
    BY DEF Settle
  <2>2. UNCHANGED <<pod, services, open, said, tries, addresses, collision, control, prober,
                    leads>>
    BY DEF Settle, cluster, found
  <2>3. attempt.targets \union hops \in SUBSET Addresses /\ 0 \in 0 .. Rounds - 1
    BY <2>1, BoundsAssumption DEF IInv, TypeOK, Attempt
  <2> DEFINE targets == attempt.targets \union hops
             new == BeginRound(targets, 0)
  <2> HIDE DEF targets
  <2>4. /\ new \in Attempt /\ new.placed /\ new.targets = targets /\ new.left = targets
        /\ new.round = 0 /\ (new.reachable => VictimServes) /\ new.heard = attempt.heard
        /\ new.exec_failed = attempt.exec_failed
    BY <2>3, RoundFacts DEF targets
  <2>5. attempt' = new /\ attempt.targets \subseteq targets
    BY <2>1 DEF targets
  <2> HIDE DEF new
  <2> QED
    BY <2>2, <2>4, <2>5
<1>TypeOK. TypeOK'
  BY <1>1, <1>2 DEF IInv, TypeOK
<1>OnCourse. OnCourse'
  BY <1>1, <1>2 DEF IInv, OnCourse, Judged
<1>Kept. Kept'
  BY <1>1, <1>2 DEF IInv, Kept, InUse
<1>Planted. Planted'
  BY <1>1, <1>2 DEF IInv, Planted, Probing
<1>Controlled. Controlled'
  BY <1>1, <1>2 DEF IInv, Controlled, Probing
<1>HeardSoFar. HeardSoFar'
  BY <1>1, <1>2 DEF IInv, HeardSoFar, Answered
<1>SweptSoFar. SweptSoFar'
  BY <1>1, <1>2 DEF IInv, SweptSoFar, Told, VictimServes, YetToServe
<1> QED
  BY <1>TypeOK, <1>OnCourse, <1>Kept, <1>Planted, <1>Controlled, <1>HeardSoFar,
     <1>SweptSoFar DEF IInv

LEMMA NextRoundStep == IInv /\ NextRound => IInv'
<1> SUFFICES ASSUME IInv, NextRound PROVE IInv'
  OBVIOUS
<1>1. /\ pc = "sweep" /\ errands = << >> /\ errands' = << >> /\ At = pc /\ At' = pc'
      /\ pc' = "sweep" /\ pc' \in Labels \ {"errands"}
      /\ UNCHANGED <<after, verdict, leaked, test, shared>>
      /\ Owed(errands)' = {} /\ Owed(errands) = {}
  BY GoingTo, LabelFacts DEF NextRound
<1>2. /\ UNCHANGED <<pod, services, open, said, tries, addresses, collision, control, prober,
                     leads>>
      /\ attempt' \in Attempt
      /\ attempt'.placed
      /\ attempt'.targets = attempt.targets
      /\ attempt'.left = attempt'.targets
      /\ attempt.left = {}
      /\ attempt'.reachable => VictimServes
      /\ attempt'.heard = attempt.heard
      /\ attempt'.exec_failed = attempt.exec_failed
  <2> DEFINE new == BeginRound(attempt.targets, attempt.round + 1)
  <2>1. attempt' = new /\ attempt.left = {} /\ attempt.round + 1 < Rounds
    BY DEF NextRound
  <2>2. UNCHANGED <<pod, services, open, said, tries, addresses, collision, control, prober,
                    leads>>
    BY DEF NextRound, cluster, found
  <2>3. attempt.targets \in SUBSET Addresses /\ attempt.round + 1 \in 0 .. Rounds - 1
    BY <2>1, BoundsAssumption DEF IInv, TypeOK, Attempt
  <2>4. /\ new \in Attempt /\ new.placed /\ new.targets = attempt.targets /\ new.left = attempt.targets
        /\ (new.reachable => VictimServes) /\ new.heard = attempt.heard
        /\ new.exec_failed = attempt.exec_failed
    BY <2>3, RoundFacts
  <2> HIDE DEF new
  <2> QED
    BY <2>1, <2>2, <2>4
<1>TypeOK. TypeOK'
  BY <1>1, <1>2 DEF IInv, TypeOK
<1>OnCourse. OnCourse'
  BY <1>1, <1>2 DEF IInv, OnCourse, Judged
<1>Kept. Kept'
  BY <1>1, <1>2 DEF IInv, Kept, InUse
<1>Planted. Planted'
  BY <1>1, <1>2 DEF IInv, Planted, Probing
<1>Controlled. Controlled'
  BY <1>1, <1>2 DEF IInv, Controlled, Probing
<1>HeardSoFar. HeardSoFar'
  BY <1>1, <1>2 DEF IInv, Controlled, Probing, HeardSoFar, Answered
<1>SweptSoFar. SweptSoFar'
  BY <1>1, <1>2 DEF IInv, SweptSoFar, Told, VictimServes, YetToServe
<1> QED
  BY <1>TypeOK, <1>OnCourse, <1>Kept, <1>Planted, <1>Controlled, <1>HeardSoFar,
     <1>SweptSoFar DEF IInv

LEMMA AskFailsStep == IInv /\ AskFails => IInv'
<1> SUFFICES ASSUME IInv, AskFails PROVE IInv'
  OBVIOUS
<1>1. /\ pc = "sweep" /\ errands = << >> /\ errands' = << >> /\ At = pc /\ At' = pc'
      /\ pc' = "sweep" /\ pc' \in Labels \ {"errands"}
      /\ UNCHANGED <<after, verdict, leaked, test, shared>>
      /\ Owed(errands)' = {} /\ Owed(errands) = {}
  BY GoingTo, LabelFacts DEF AskFails
<1>2. /\ UNCHANGED <<pod, services, open, said, tries, addresses, collision, control, prober,
                     leads>>
      /\ attempt' \in Attempt
      /\ attempt'.placed = attempt.placed
      /\ attempt'.targets = attempt.targets
      /\ attempt'.left \subseteq attempt.left
      /\ attempt'.reachable = attempt.reachable
      /\ attempt'.heard = attempt.heard
      /\ attempt'.exec_failed
  <2>1. PICK a \in attempt.left :
               attempt' = [attempt EXCEPT !.exec_failed = TRUE, !.left = @ \ {a}]
    BY DEF AskFails
  <2>2. UNCHANGED <<pod, services, open, said, tries, addresses, collision, control, prober,
                    leads>>
    BY DEF AskFails, cluster, found
  <2>3. attempt \in Attempt
    BY DEF IInv, TypeOK
  <2> QED
    BY <2>1, <2>2, <2>3 DEF Attempt
<1>TypeOK. TypeOK'
  BY <1>1, <1>2 DEF IInv, TypeOK
<1>OnCourse. OnCourse'
  BY <1>1, <1>2 DEF IInv, OnCourse, Judged
<1>Kept. Kept'
  BY <1>1, <1>2 DEF IInv, Kept, InUse
<1>Planted. Planted'
  BY <1>1, <1>2 DEF IInv, Planted, Probing
<1>Controlled. Controlled'
  BY <1>1, <1>2 DEF IInv, Controlled, Probing
<1>HeardSoFar. HeardSoFar'
  BY <1>1, <1>2 DEF IInv, HeardSoFar, Answered
<1>SweptSoFar. SweptSoFar'
  BY <1>1, <1>2 DEF IInv, SweptSoFar, Told
<1> QED
  BY <1>TypeOK, <1>OnCourse, <1>Kept, <1>Planted, <1>Controlled, <1>HeardSoFar,
     <1>SweptSoFar DEF IInv

LEMMA ControlDoneStep == IInv /\ ControlDone => IInv'
<1> SUFFICES ASSUME IInv, ControlDone PROVE IInv'
  OBVIOUS
<1>1. /\ pc = "reached_own" /\ errands = << >> /\ errands' = << >> /\ At = pc /\ At' = pc'
      /\ pc' = "place" /\ pc' \in Labels \ {"errands"}
      /\ UNCHANGED <<after, verdict, leaked, test, shared>>
      /\ Owed(errands)' = {} /\ Owed(errands) = {}
  BY GoingTo, LabelFacts DEF ControlDone
<1>2. /\ UNCHANGED <<pod, services, open, said, tries, collision, leads>>
      /\ prober' = "probe"
      /\ addresses' = {}
      /\ control' \in {"reached", "missed"}
      /\ attempt'.targets = addresses
      /\ attempt' \in Attempt
      /\ attempt'.heard = {}
      /\ attempt'.left = {}
      /\ ~ attempt'.placed
      /\ ~ attempt'.reachable
  BY FreshFacts DEF ControlDone, cluster, found, IInv, TypeOK, NewAttempt
<1>TypeOK. TypeOK'
  BY <1>1, <1>2 DEF IInv, TypeOK
<1>OnCourse. OnCourse'
  BY <1>1, <1>2 DEF IInv, OnCourse, Judged
<1>Kept. Kept'
  BY <1>1, <1>2 DEF IInv, Kept, InUse
<1>Planted. Planted'
  BY <1>1, <1>2 DEF IInv, Planted, Probing
<1>Controlled. Controlled'
  BY <1>1, <1>2 DEF IInv, OnCourse, Controlled, Probing
<1>HeardSoFar. HeardSoFar'
  BY <1>1, <1>2 DEF IInv, HeardSoFar, Answered
<1>SweptSoFar. SweptSoFar'
  BY <1>1, <1>2 DEF IInv, SweptSoFar, Told
<1> QED
  BY <1>TypeOK, <1>OnCourse, <1>Kept, <1>Planted, <1>Controlled, <1>HeardSoFar,
     <1>SweptSoFar DEF IInv

\* An answer comes from where the port leads, or is lost on the way.
LEMMA ReplyFacts ==
  ASSUME NEW lead \in Lead, NEW answer \in {Reply(lead), "cut"}
  PROVE  /\ answer \in Answer
         /\ answer = "marker" => lead = "victim"
         /\ answer = "own" => lead = "own"
         /\ answer = "other" => lead = "other"
         /\ lead = "victim" /\ VictimServes => answer \in {"marker", "cut"}
<1>1. Reply(lead) = (IF lead = "victim" /\ VictimServes THEN "marker"
                     ELSE IF lead = "own" /\ OwnServes THEN "own"
                     ELSE IF lead = "other" THEN "other" ELSE "refused")
  BY DEF Reply
<1> QED
  BY <1>1 DEF Answer

LEMMA AskStep == IInv /\ Ask => IInv'
<1> SUFFICES ASSUME IInv, Ask PROVE IInv'
  OBVIOUS
<1>1. /\ pc = "sweep" /\ errands = << >> /\ errands' = << >> /\ At = pc /\ At' = pc'
      /\ pc' = "sweep" /\ pc' \in Labels \ {"errands"}
      /\ UNCHANGED <<after, verdict, leaked, test, shared>>
      /\ Owed(errands)' = {} /\ Owed(errands) = {}
  BY GoingTo, LabelFacts DEF Ask
<1>2. UNCHANGED <<pod, services, open, said, tries, addresses, collision, control, prober>>
  BY DEF Ask, cluster, found
<1>3. PICK a \in attempt.left, lead \in Lead :
        /\ leads[a] \in {"untried", lead}
        /\ leads' = [leads EXCEPT ![a] = lead]
        /\ \E answer \in {Reply(lead), "cut"} :
             attempt' = [attempt EXCEPT !.heard = @ \union {answer}, !.left = @ \ {a}]
  BY DEF Ask
<1>4. PICK answer \in {Reply(lead), "cut"} :
        attempt' = [attempt EXCEPT !.heard = @ \union {answer}, !.left = @ \ {a}]
  BY <1>3
<1>5. /\ answer \in Answer
      /\ answer = "marker" => lead = "victim"
      /\ answer = "own" => lead = "own"
      /\ answer = "other" => lead = "other"
      /\ lead = "victim" /\ VictimServes => answer \in {"marker", "cut"}
  BY <1>3, <1>4, ReplyFacts
<1>6. /\ attempt \in Attempt /\ attempt.left \subseteq attempt.targets
      /\ leads \in [Addresses -> Lead \union {"untried"}]
  BY DEF IInv, TypeOK, HeardSoFar
<1>7. /\ attempt' \in Attempt
      /\ attempt'.heard = attempt.heard \union {answer} /\ attempt'.left = attempt.left \ {a}
      /\ attempt'.placed = attempt.placed /\ attempt'.exec_failed = attempt.exec_failed
      /\ attempt'.targets = attempt.targets /\ attempt'.reachable = attempt.reachable
  BY <1>4, <1>5, <1>6 DEF Attempt
<1>8. /\ a \in attempt.targets /\ a \in Addresses
      /\ leads' \in [Addresses -> Lead \union {"untried"}]
      /\ leads'[a] = lead /\ \A b \in Addresses \ {a} : leads'[b] = leads[b]
      /\ \A b \in Addresses : leads[b] # "untried" => leads'[b] = leads[b]
  <2>1. a \in attempt.targets /\ a \in Addresses
    BY <1>3, <1>6 DEF Attempt
  <2> QED
    BY <1>3, <1>6, <2>1 DEF Lead
<1>TypeOK. TypeOK'
  BY <1>1, <1>2, <1>7, <1>8 DEF IInv, TypeOK
<1>OnCourse. OnCourse'
  BY <1>1, <1>2 DEF IInv, OnCourse, Judged
<1>Kept. Kept'
  BY <1>1, <1>2 DEF IInv, Kept, InUse
<1>Planted. Planted'
  BY <1>1, <1>2 DEF IInv, Planted, Probing
<1>Controlled. Controlled'
  BY <1>1, <1>2, <1>7 DEF IInv, Controlled, Probing
<1>HeardSoFar. HeardSoFar'
  <2>1. attempt.targets \subseteq Addresses
    BY <1>6 DEF Attempt
  <2>2. attempt'.left \subseteq attempt'.targets /\ attempt'.placed /\ Answered'
    BY <1>1, <1>6, <1>7 DEF IInv, HeardSoFar, Answered
  <2>3. "marker" \in attempt'.heard => \E b \in attempt'.targets : leads'[b] = "victim"
    BY <1>5, <1>7, <1>8, <2>1 DEF IInv, HeardSoFar
  <2>4. \A l \in {"own",
     "other"} \intersect attempt'.heard : \E b \in attempt'.targets : leads'[b] = l
    BY <1>5, <1>7, <1>8, <2>1 DEF IInv, HeardSoFar
  <2> QED
    BY <1>1, <2>2, <2>3, <2>4 DEF HeardSoFar
<1>SweptSoFar. SweptSoFar'
  <2> SUFFICES ASSUME test = "nodeport", attempt.reachable, ~ attempt.exec_failed
               PROVE  /\ "tenant1" \in open /\ ~ YetToServe'
                      /\ pod["marker"] = "serving" =>
                           \A b \in attempt'.targets \ attempt'.left : leads'[b] = "victim" => Told'
    BY <1>1, <1>2, <1>7 DEF SweptSoFar
  <2>1. /\ "tenant1" \in open /\ ~ YetToServe'
        /\ pod["marker"] = "serving" =>
             \A b \in attempt.targets \ attempt.left : leads[b] = "victim" => Told
    BY <1>1, <1>2 DEF IInv, SweptSoFar, YetToServe
  <2>2. Told => Told'
    BY <1>7 DEF Told
  <2> SUFFICES ASSUME pod["marker"] = "serving", NEW b \in attempt'.targets \ attempt'.left,
                      leads'[b] = "victim"
               PROVE  Told'
    BY <2>1
  <2>3. CASE b = a
    <3>1. VictimServes /\ lead = "victim"
      BY <1>8, <2>1, <2>3 DEF VictimServes
    <3> QED
      BY <1>5, <1>7, <3>1 DEF Told
  <2>4. CASE b # a
    <3>1. b \in attempt.targets \ attempt.left /\ b \in Addresses
      BY <1>6, <1>7, <2>4 DEF Attempt
    <3> QED
      BY <1>8, <2>1, <2>2, <2>4, <3>1
  <2> QED
    BY <2>3, <2>4
<1> QED
  BY <1>TypeOK, <1>OnCourse, <1>Kept, <1>Planted, <1>Controlled, <1>HeardSoFar,
     <1>SweptSoFar DEF IInv

LEMMA ReturnStep == IInv /\ Return => IInv'
<1> SUFFICES ASSUME IInv, Return PROVE IInv'
  OBVIOUS
<1>1. /\ pc = "return" /\ errands = << >> /\ errands' = << >> /\ At = pc /\ At' = pc'
      /\ pc' = "over" /\ pc' \in Labels \ {"errands"}
      /\ UNCHANGED <<after, verdict, leaked, test, shared>>
      /\ Owed(errands)' = {} /\ Owed(errands) = {}
  BY GoingTo, LabelFacts DEF Return
<1>2. UNCHANGED <<pod, services, open, said, tries, addresses, collision, control, prober,
                  attempt, leads>>
  BY DEF Return, cluster, found, asking
<1>TypeOK. TypeOK'
  BY <1>1, <1>2 DEF IInv, TypeOK
<1>OnCourse. OnCourse'
  BY <1>1, <1>2 DEF IInv, OnCourse, Judged
<1>Kept. Kept'
  BY <1>1, <1>2 DEF IInv, Kept, InUse
<1>Planted. Planted'
  BY <1>1, <1>2 DEF IInv, Planted, Probing
<1>Controlled. Controlled'
  BY <1>1, <1>2 DEF IInv, Controlled, Probing
<1>HeardSoFar. HeardSoFar'
  BY <1>1, <1>2 DEF IInv, HeardSoFar, Answered
<1>SweptSoFar. SweptSoFar'
  BY <1>1, <1>2 DEF IInv, SweptSoFar, Told
<1> QED
  BY <1>TypeOK, <1>OnCourse, <1>Kept, <1>Planted, <1>Controlled, <1>HeardSoFar,
     <1>SweptSoFar DEF IInv

-----------------------------------------------------------------------------
(***************************************************************************)
(* The steps that leave with something to take away.                       *)
(***************************************************************************)
LEMMA NotSettledStep == IInv /\ NotSettled => IInv'
<1> SUFFICES ASSUME IInv, NotSettled PROVE IInv'
  OBVIOUS
<1>1. /\ pc = "settle" /\ At = "settle" /\ Owed(errands) = {} /\ prober \in Pods
      /\ UNCHANGED <<pod, services, open, said>>
  BY Here DEF NotSettled, cluster, Owed, IInv, TypeOK, Pods
<1>2. CASE test = "nodeport"
  <2> DEFINE todo == <<DeleteOf(prober)>>
  <2>1. Leave(todo, Probed) /\ UNCHANGED <<tries, found, asking, verdict>>
    BY <1>2 DEF NotSettled
  <2>2. todo \in Seq(Errand) /\ prober \in Owed(todo)
    BY <1>1, ErrandFacts
  <2>3. Probed \in {"reached_own", "judge"} /\ (Probed = "reached_own" <=> prober = "selftest")
    BY DEF Probed
  <2> HIDE DEF todo
  <2>4. /\ At' = Probed /\ errands' = todo /\ after' = Probed /\ pc' \in Labels
        /\ (pc' = "errands" <=> todo # << >>) /\ errands' \in Seq(Errand)
        /\ UNCHANGED <<test, leaked, shared>> /\ Owed(errands)' = Owed(todo)
    BY <2>1, <2>2, <2>3, LeavingFor
  <2>5. /\ UNCHANGED <<pod, services, open, said, tries, addresses, collision, control,
                       prober>>
        /\ UNCHANGED <<attempt, leads, verdict>>
    BY <1>1, <2>1 DEF found, asking
  <2>6. TypeOK'
    BY <2>3, <2>4, <2>5 DEF IInv, TypeOK
  <2>7. OnCourse'
    BY <1>1, <1>2, <2>3, <2>4, <2>5 DEF IInv, TypeOK, OnCourse, Judged
  <2>8. Kept'
    <3>1. InUse \subseteq InUse' \union {prober}
      BY <1>1, <1>2, <2>3, <2>4, <2>5 DEF InUse
    <3> QED
      BY <1>1, <2>2, <2>4, <2>5, <3>1 DEF IInv, Kept
  <2>9. Planted' /\ Controlled'
    BY <1>1, <2>3, <2>4, <2>5 DEF IInv, Planted, Controlled, Probing
  <2>10. HeardSoFar' /\ SweptSoFar'
    BY <1>1, <2>3, <2>4, <2>5 DEF IInv, HeardSoFar, SweptSoFar, Answered, YetToServe
  <2> QED
    BY <2>6, <2>7, <2>8, <2>9, <2>10 DEF IInv
<1>3. CASE test # "nodeport"
  <2> DEFINE todo == <<DeleteOf("marker"), DeleteOf("probe")>>
  <2>1. Leave(todo, "return") /\ Result("Unknown", "unasked") /\ UNCHANGED cluster
    BY <1>3 DEF NotSettled
  <2>2. todo \in Seq(Errand) /\ {"marker", "probe"} \subseteq Owed(todo)
    BY ErrandFacts
  <2> HIDE DEF todo
  <2>3. InUse \subseteq {"marker", "probe"}
    BY <1>1, <1>3 DEF IInv, TypeOK, OnCourse, InUse
  <2>4. {k \in Pods : pod[k] # "absent"} \union services \subseteq leaked \union Owed(todo)
    BY <1>1, <2>2, <2>3, UseFacts
  <2> QED
    BY <2>1, <2>2, <2>4, WhyFacts, EndFacts
<1> QED
  BY <1>2, <1>3

LEMMA SweepDoneStep == IInv /\ SweepDone => IInv'
<1> SUFFICES ASSUME IInv, SweepDone PROVE IInv'
  OBVIOUS
<1>1. /\ pc = "sweep" /\ At = "sweep" /\ Owed(errands) = {} /\ prober \in Pods
      /\ Hit \/ attempt.left = {}
      /\ UNCHANGED <<pod, services, open, said, tries, addresses, collision, control, prober>>
      /\ UNCHANGED <<verdict, leads>>
  BY Here DEF SweepDone, cluster, found, Owed, IInv, TypeOK, Pods
<1>2. /\ attempt' \in Attempt /\ attempt'.left = {}
      /\ attempt'.heard = attempt.heard /\ attempt'.placed = attempt.placed
      /\ attempt'.exec_failed = attempt.exec_failed /\ attempt'.targets = attempt.targets
      /\ attempt'.reachable = (attempt.reachable /\ pod["marker"] = "serving")
  <2>1. attempt \in Attempt /\ 0 \in 0 .. Rounds - 1
    BY BoundsAssumption DEF IInv, TypeOK
  <2> QED
    BY <2>1 DEF SweepDone, Attempt
<1>3. PICK todo \in Seq(Errand), l \in {"reached_own", "judge"} :
        /\ Leave(todo, l)
        /\ test = "nodeport" => l = Probed /\ prober \in Owed(todo)
        /\ test # "nodeport" => l = "judge" /\ {"marker", "probe"} \subseteq Owed(todo)
  <2>1. Probed \in {"reached_own", "judge"}
    BY DEF Probed
  <2>2. CASE test = "nodeport"
    <3> DEFINE todo == <<DeleteOf(prober), AwaitOf(prober)>>
    <3>1. Leave(todo, Probed)
      BY <2>2 DEF SweepDone
    <3>2. todo \in Seq(Errand) /\ prober \in Owed(todo)
      BY <1>1, ErrandFacts
    <3> QED
      BY <2>1, <2>2, <3>1, <3>2
  <2>3. CASE test # "nodeport"
    <3> DEFINE todo == <<DeleteOf("marker"), DeleteOf("probe"), AwaitOf("marker"),
                         AwaitOf("probe")>>
    <3>1. Leave(todo, "judge")
      BY <2>3 DEF SweepDone
    <3>2. todo \in Seq(Errand) /\ {"marker", "probe"} \subseteq Owed(todo)
      BY ErrandFacts
    <3> QED
      BY <2>3, <3>1, <3>2
  <2> QED
    BY <2>2, <2>3
<1>4. /\ At' = l /\ errands' = todo /\ after' = l /\ pc' \in Labels
      /\ (pc' = "errands" <=> todo # << >>) /\ errands' \in Seq(Errand)
      /\ UNCHANGED <<test, leaked, shared>> /\ Owed(errands)' = Owed(todo)
  BY <1>3, LeavingFor
<1>5. test = "nodeport" => (l = "reached_own" <=> prober = "selftest")
  BY <1>3 DEF Probed
<1>6. test # "nodeport" => prober = "probe" /\ services = {} /\ test = "node_network"
  BY DEF IInv, TypeOK, OnCourse
<1>7. TypeOK'
  BY <1>1, <1>2, <1>3, <1>4 DEF IInv, TypeOK
<1>8. OnCourse'
  BY <1>1, <1>3, <1>4, <1>5, <1>6 DEF IInv, TypeOK, OnCourse, Judged
<1>9. Kept'
  <2>1. InUse \subseteq InUse' \union Owed(todo)
    BY <1>1, <1>3, <1>4, <1>6 DEF InUse
  <2> QED
    BY <1>1, <1>4, <2>1 DEF IInv, Kept
<1>10. Planted' /\ Controlled'
  BY <1>1, <1>2, <1>3, <1>4 DEF IInv, Planted, Controlled, Probing
<1>11. HeardSoFar'
  <2>1. attempt.exec_failed \/ Answered
    BY <1>1 DEF IInv, HeardSoFar, Controlled, Probing, Hit, Answered
  <2> QED
    BY <1>1, <1>2, <1>3, <1>4, <2>1 DEF IInv, HeardSoFar, Answered
<1>12. SweptSoFar'
  <2> SUFFICES ASSUME test = "nodeport", attempt.reachable, ~ attempt.exec_failed, l = "judge",
                      pod["marker"] = "serving", NEW a \in attempt.targets, leads[a] = "victim"
               PROVE  Told
    BY <1>1, <1>2, <1>3, <1>4 DEF SweptSoFar, Told
  <2>1. CASE Hit
    <3>1. prober # "selftest"
      BY <1>5
    <3> QED
      BY <2>1, <3>1 DEF Hit, Sought, Told
  <2>2. CASE attempt.left = {}
    BY <1>1, <2>2 DEF IInv, SweptSoFar
  <2> QED
    BY <1>1, <2>1, <2>2
<1> QED
  BY <1>7, <1>8, <1>9, <1>10, <1>11, <1>12 DEF IInv

-----------------------------------------------------------------------------
(***************************************************************************)
(* The errands.                                                            *)
(***************************************************************************)
\* With an errand done the test is still where its errands lead, and what is owed is what
\* was, without that errand.
LEMMA TickOffFacts ==
  ASSUME IInv, NEW do, NextIs(do), TickOff
  PROVE  /\ At' = At /\ At \in {"reached_own", "judge", "return"} /\ pc' \in Labels
         /\ (pc' = "errands" <=> errands' # << >>) /\ errands' \in Seq(Errand)
         /\ Head(errands) \in Errand /\ Head(errands).do = do
         /\ Owed(errands) \subseteq Owed(errands)' \union {Head(errands).to}
         /\ do = "await" => Owed(errands) \subseteq Owed(errands)'
         /\ UNCHANGED <<test, tries, addresses, collision, control, prober, attempt, leads>>
         /\ UNCHANGED <<after, verdict, shared>>
<1>1. /\ pc = "errands" /\ errands # << >> /\ Head(errands).do = do
      /\ errands' = Tail(errands) /\ pc' = (IF errands' = << >> THEN after ELSE pc)
      /\ UNCHANGED <<test, tries, addresses, collision, control, prober, attempt, leads>>
      /\ UNCHANGED <<after, verdict, shared>>
  BY DEF NextIs, TickOff, found, asking
<1>2. /\ errands \in Seq(Errand) /\ after \in {"reached_own", "judge", "return"}
  BY DEF IInv, TypeOK
<1>3. errands' \in Seq(Errand) /\ Head(errands) \in Errand
  BY <1>1, <1>2
<1>4. At' = At /\ At \in {"reached_own", "judge", "return"} /\ pc' \in Labels
      /\ (pc' = "errands" <=> errands' # << >>)
  BY <1>1, <1>2 DEF At, Labels
<1>5. ASSUME NEW k \in Owed(errands), k \notin Owed(errands)'
      PROVE  k = Head(errands).to /\ do # "await"
  <2>1. PICK i \in DOMAIN errands : errands[i].do # "await" /\ errands[i].to = k
    BY DEF Owed
  <2>2. CASE i = 1
    BY <1>1, <1>2, <2>1, <2>2
  <2>3. CASE i # 1
    <3>1. i - 1 \in DOMAIN errands' /\ errands'[i - 1] = errands[i]
      BY <1>1, <1>2, <2>3
    <3>2. k \in Owed(errands)'
      BY <2>1, <3>1 DEF Owed
    <3> QED
      BY <1>5, <3>2
  <2> QED
    BY <2>2, <2>3
<1> QED
  BY <1>1, <1>3, <1>4, <1>5

\* Nothing but what is kept can be disturbed by an errand.
LEMMA ErrandDone ==
  ASSUME IInv, NEW do, NextIs(do), TickOff,
         pod' \in [Pods -> PodStatus], services' \subseteq services, open' \subseteq services',
         leaked' \subseteq Pods \union Tenants, UNCHANGED said,
         \A k \in Pods : pod'[k] \in {pod[k], "terminating", "absent"},
         {k \in Pods : pod'[k] # "absent"} \union services'
           \subseteq leaked' \union Owed(errands)' \union InUse
  PROVE  IInv'
<1>1. /\ At' = At /\ At \in {"reached_own", "judge", "return"} /\ pc' \in Labels
      /\ (pc' = "errands" <=> errands' # << >>) /\ errands' \in Seq(Errand)
      /\ UNCHANGED <<test, tries, addresses, collision, control, prober, attempt, leads>>
      /\ UNCHANGED <<after, verdict, shared>>
  BY TickOffFacts
<1>2. TypeOK'
  BY <1>1 DEF IInv, TypeOK
<1>3. OnCourse'
  BY <1>1 DEF IInv, OnCourse, Judged
<1>4. Kept'
  <2>1. InUse' = InUse
    BY <1>1 DEF InUse
  <2> QED
    BY <2>1 DEF Kept
<1>5. Planted'
  BY <1>1 DEF IInv, Planted, Pods
<1>6. Controlled' /\ HeardSoFar' /\ SweptSoFar'
  BY <1>1 DEF IInv, Controlled, Probing, HeardSoFar, SweptSoFar, Answered, Told, YetToServe
<1> QED
  BY <1>2, <1>3, <1>4, <1>5, <1>6 DEF IInv

LEMMA ErrandStep == IInv /\ (DeletePod \/ DropService \/ AwaitGone) => IInv'
<1> SUFFICES ASSUME IInv PROVE DeletePod \/ DropService \/ AwaitGone => IInv'
  OBVIOUS
<1>1. /\ pod \in [Pods -> PodStatus] /\ open \subseteq services /\ services \subseteq Tenants
      /\ leaked \subseteq Pods \union Tenants
      /\ {k \in Pods : pod[k] # "absent"} \union services
           \subseteq leaked \union Owed(errands) \union InUse
  BY DEF IInv, TypeOK, Kept
<1>2. Pods \intersect Tenants = {}
  BY DEF Pods, Tenants
<1>3. ASSUME DeletePod PROVE IInv'
  <2> DEFINE k == Head(errands).to
  <2>1. /\ NextIs("delete") /\ TickOff /\ leaked' = leaked \union {k}
        /\ \/ pod' = [pod EXCEPT ![k] = "terminating"]
           \/ pod' = [pod EXCEPT ![k] = "absent"]
           \/ pod' = pod
        /\ UNCHANGED <<services, open, said>>
    BY <1>3 DEF DeletePod, Becomes
  <2>2. Head(errands) \in Errand /\ Owed(errands) \subseteq Owed(errands)' \union {k}
        /\ Head(errands).do = "delete"
    BY <2>1, TickOffFacts
  <2>3. k \in Pods
    BY <2>2 DEF Errand
  <2> HIDE DEF k
  <2>4. pod' \in [Pods -> PodStatus] /\ \A j \in Pods : pod'[j] \in {pod[j], "terminating",
                                          "absent"}
        /\ \A i \in Pods \ {k} : pod'[i] = pod[i]
    BY <1>1, <2>1, <2>3 DEF PodStatus
  <2>5. {j \in Pods : pod'[j] # "absent"} \union services'
          \subseteq leaked' \union Owed(errands)' \union InUse
    BY <1>1, <2>1, <2>2, <2>4
  <2> QED
    BY <1>1, <2>1, <2>3, <2>4, <2>5, ErrandDone
<1>4. ASSUME DropService PROVE IInv'
  <2> DEFINE t == Head(errands).to
  <2>1. /\ NextIs("drop") /\ TickOff /\ UNCHANGED <<pod, said>>
        /\ \/ services' = services \ {t} /\ open' = open \ {t} /\ leaked' = leaked \ {t}
           \/ leaked' = leaked \union {t} /\ UNCHANGED <<services, open>>
    BY <1>4 DEF DropService
  <2>2. Head(errands) \in Errand /\ Owed(errands) \subseteq Owed(errands)' \union {t}
        /\ Head(errands).do = "drop"
    BY <2>1, TickOffFacts
  <2>3. t \in Tenants
    BY <2>2 DEF Errand
  <2> HIDE DEF t
  <2>4. {j \in Pods : pod'[j] # "absent"} \union services'
          \subseteq leaked' \union Owed(errands)' \union InUse
    BY <1>1, <1>2, <2>1, <2>2, <2>3
  <2> QED
    BY <1>1, <2>1, <2>3, <2>4, ErrandDone
<1>5. ASSUME AwaitGone PROVE IInv'
  <2> DEFINE k == Head(errands).to
  <2>1. /\ NextIs("await") /\ TickOff /\ UNCHANGED <<pod, services, open, said>>
        /\ \/ k \in Pods /\ pod[k] = "absent" /\ leaked' = leaked \ {k}
           \/ leaked' = leaked
    BY <1>5 DEF AwaitGone, cluster
  <2>2. Owed(errands) \subseteq Owed(errands)'
    BY <2>1, TickOffFacts
  <2> HIDE DEF k
  <2>4. {j \in Pods : pod'[j] # "absent"} \union services'
          \subseteq leaked' \union Owed(errands)' \union InUse
    BY <1>1, <1>2, <2>1, <2>2
  <2> QED
    BY <1>1, <2>1, <2>4, ErrandDone
<1> QED
  BY <1>3, <1>4, <1>5

-----------------------------------------------------------------------------
(***************************************************************************)
(* The clusters.                                                           *)
(***************************************************************************)
\* What a pod does of its own accord: a server that has bound its port and ended does not
\* come back.
LEMMA PodFacts ==
  ASSUME IInv, NEW k \in Pods, Starts(k) \/ Announces(k) \/ Binds(k) \/ Ends(k) \/ Vanishes(k)
  PROVE  /\ pod' \in [Pods -> PodStatus] /\ said \subseteq said'
         /\ said' \subseteq {"marker", "own"}
         /\ \A j \in Pods : pod[j] = "absent" => pod'[j] = "absent"
         /\ "marker" \in said' => pod'["marker"] \notin {"pending", "running"}
         /\ pod["marker"] = "absent" => ("marker" \in said' => "marker" \in said)
         /\ ~ YetToServe => ~ YetToServe' /\ (pod'["marker"] = "serving" => pod["marker"] = "serving")
<1>1. pod \in [Pods -> PodStatus] /\ said \subseteq {"marker", "own"} /\ "marker" \in Pods
      /\ ("marker" \in said => pod["marker"] \notin {"pending", "running"})
  BY DEF IInv, TypeOK, Planted, Pods
<1>2. CASE Starts(k)
  BY <1>1, <1>2 DEF Starts, Becomes, PodStatus, YetToServe
<1>3. CASE Announces(k)
  BY <1>1, <1>3 DEF Announces, Becomes, PodStatus, YetToServe
<1>4. CASE Binds(k)
  BY <1>1, <1>4 DEF Binds, Becomes, PodStatus, YetToServe
<1>5. CASE Ends(k)
  BY <1>1, <1>5 DEF Ends, Becomes, PodStatus, YetToServe
<1>6. CASE Vanishes(k)
  BY <1>1, <1>6 DEF Vanishes, Becomes, PodStatus, YetToServe
<1> QED
  BY <1>2, <1>3, <1>4, <1>5, <1>6

LEMMA ClusterFacts ==
  ASSUME IInv, Cluster
  PROVE  /\ pod' \in [Pods -> PodStatus] /\ said \subseteq said'
         /\ said' \subseteq {"marker", "own"}
         /\ \A j \in Pods : pod[j] = "absent" => pod'[j] = "absent"
         /\ "marker" \in said' => pod'["marker"] \notin {"pending", "running"}
         /\ pod["marker"] = "absent" => ("marker" \in said' => "marker" \in said)
         /\ ~ YetToServe => ~ YetToServe' /\ (pod'["marker"] = "serving" => pod["marker"] = "serving")
         /\ open \subseteq open' /\ open' \subseteq services
<1>1. CASE /\ \E k \in Pods : Starts(k) \/ Announces(k) \/ Binds(k) \/ Ends(k) \/ Vanishes(k)
           /\ UNCHANGED open
  BY <1>1, PodFacts DEF IInv, TypeOK
<1>2. CASE (\E t \in services \ open : Opens(t)) /\ UNCHANGED <<pod, said>>
  BY <1>2 DEF IInv, TypeOK, Planted, Opens, YetToServe
<1> QED
  BY <1>1, <1>2 DEF Cluster

LEMMA ClusterStep == IInv /\ Cluster => IInv'
<1> SUFFICES ASSUME IInv, Cluster PROVE IInv'
  OBVIOUS
<1>1. /\ UNCHANGED <<test, pc, services, tries, addresses, collision, control, prober, attempt>>
      /\ UNCHANGED <<leads, errands, after, verdict, leaked, shared>>
  BY DEF Cluster, found, asking, leaving
<1>2. At' = At /\ InUse' = InUse /\ Owed(errands)' = Owed(errands)
  BY <1>1 DEF At, InUse, Owed
<1>3. /\ pod' \in [Pods -> PodStatus] /\ said \subseteq said'
      /\ said' \subseteq {"marker", "own"}
      /\ \A j \in Pods : pod[j] = "absent" => pod'[j] = "absent"
      /\ "marker" \in said' => pod'["marker"] \notin {"pending", "running"}
      /\ pod["marker"] = "absent" => ("marker" \in said' => "marker" \in said)
      /\ ~ YetToServe => ~ YetToServe' /\ (pod'["marker"] = "serving" => pod["marker"] = "serving")
      /\ open \subseteq open' /\ open' \subseteq services
  BY ClusterFacts
<1>4. TypeOK' /\ OnCourse'
  BY <1>1, <1>2, <1>3 DEF IInv, TypeOK, OnCourse, Judged
<1>5. Kept'
  BY <1>1, <1>2, <1>3 DEF IInv, Kept
<1>6. Planted'
  BY <1>1, <1>2, <1>3 DEF IInv, Planted, Probing, Pods
<1>7. Controlled' /\ HeardSoFar'
  BY <1>1, <1>2 DEF IInv, Controlled, HeardSoFar, Answered
<1>8. SweptSoFar'
  BY <1>1, <1>2, <1>3 DEF IInv, Planted, Probing, SweptSoFar, Told
<1> QED
  BY <1>4, <1>5, <1>6, <1>7, <1>8 DEF IInv

LEMMA StutterStep == IInv /\ UNCHANGED vars => IInv'
<1> SUFFICES ASSUME IInv, UNCHANGED vars PROVE IInv'
  OBVIOUS
<1>1. /\ UNCHANGED <<test, pc, pod, services, open, said, tries, addresses, collision,
                     control>>
      /\ UNCHANGED <<prober, attempt, errands, after, verdict, leaked, shared, leads>>
  BY DEF vars
<1>2. At' = At /\ InUse' = InUse /\ Owed(errands)' = Owed(errands)
  BY <1>1 DEF At, InUse, Owed
<1>3. TypeOK' /\ OnCourse' /\ Kept'
  BY <1>1, <1>2 DEF IInv, TypeOK, OnCourse, Judged, Kept
<1>4. Planted' /\ Controlled' /\ HeardSoFar' /\ SweptSoFar'
  BY <1>1, <1>2 DEF IInv, Planted, Controlled, HeardSoFar, SweptSoFar, Answered, Told, YetToServe
<1> QED
  BY <1>3, <1>4 DEF IInv

-----------------------------------------------------------------------------
(***************************************************************************)
(* The invariant, and what it says of a state.                             *)
(***************************************************************************)
LEMMA InitInvariant == Init => IInv
<1> SUFFICES ASSUME Init PROVE IInv
  OBVIOUS
<1>1. /\ test \in {"nodeport", "node_network"} /\ pc = "plant"
      /\ pod = [k \in Pods |-> "absent"]
      /\ services = {} /\ open = {} /\ said = {} /\ tries = 0 /\ addresses = {}
      /\ collision = "unasked" /\ control = "none" /\ prober = "probe" /\ attempt = Fresh({})
      /\ errands = << >> /\ after = "return" /\ verdict = Pending /\ leaked = {}
      /\ shared \in BOOLEAN /\ leads = [a \in Addresses |-> "untried"]
  BY DEF Init
<1>2. /\ attempt \in Attempt /\ attempt.targets = {} /\ attempt.heard = {} /\ attempt.left = {}
      /\ ~ attempt.placed /\ ~ attempt.reachable
  BY <1>1, FreshFacts
<1>3. At = "plant" /\ Owed(errands) = {} /\ "marker" \in Pods
  BY <1>1 DEF At, Owed, Pods
<1>4. TypeOK
  <2>1. pod \in [Pods -> PodStatus] /\ leads \in [Addresses -> Lead \union {"untried"}]
    BY <1>1 DEF PodStatus
  <2> QED
    BY <1>1, <1>2, <2>1, BoundsAssumption DEF TypeOK, Labels
<1>5. OnCourse
  BY <1>1, <1>3 DEF OnCourse, Judged
<1>6. Kept
  BY <1>1, <1>3 DEF Kept
<1>7. Planted /\ Controlled
  BY <1>1, <1>3 DEF Planted, Controlled, Probing
<1>8. HeardSoFar /\ SweptSoFar
  BY <1>2, <1>3 DEF HeardSoFar, SweptSoFar, Answered
<1> QED
  BY <1>4, <1>5, <1>6, <1>7, <1>8 DEF IInv

LEMMA NextInvariant == IInv /\ [Next]_vars => IInv'
<1> SUFFICES ASSUME IInv, [Next]_vars PROVE IInv'
  OBVIOUS
<1>1. ASSUME Harness PROVE IInv'
  BY <1>1, EarlyEndStep, JudgeStep, PlantStep, MarkerReadyStep, CreateServiceStep,
     AwaitServingStep, PlantOwnStep, ClaimStep, ClaimFailsStep, GatherAddressesStep,
     GatherOwnAddressesStep, NoControlStep, AwaitOwnServingStep, PlaceStep, PlaceFailsStep,
     SettleStep, NotSettledStep, AskStep, AskFailsStep, NextRoundStep, SweepDoneStep,
     ControlDoneStep, ErrandStep, ReturnStep
     DEF Harness
<1> QED
  BY <1>1, ClusterStep, StutterStep DEF Next, Ended

\* The parts of the invariant hold in every state that is reached.  What it says of a sweep
\* is bound to the server having been there to be reached when the last round began: that the
\* target's log said so is not enough, for the log says it first.
THEOREM Invariant == Spec => []IInv
BY InitInvariant, NextInvariant, PTL DEF Spec

\* Every variable keeps its type and the loops their bounds.
THEOREM TypeCorrect == Spec => []TypeOK
<1>1. IInv => TypeOK
  BY DEF IInv
<1> QED
  BY <1>1, Invariant, PTL

\* When a test is over whatever is still there is known to have been leaked.
THEOREM Tidy == Spec => []NothingLeftBehind
<1>1. IInv => NothingLeftBehind
  <2> SUFFICES ASSUME IInv, pc = "over"
               PROVE  /\ \A k \in Pods : pod[k] # "absent" => k \in leaked
                      /\ services \subseteq leaked
    BY DEF NothingLeftBehind
  <2>1. At = "over" /\ InUse = {} /\ Owed(errands) = {}
    BY Here DEF InUse, Owed
  <2> QED
    BY <2>1 DEF IInv, Kept
<1> QED
  BY <1>1, Invariant, PTL

-----------------------------------------------------------------------------
(***************************************************************************)
(* What a verdict rests on.                                                *)
(***************************************************************************)
Verdict(level, why) == [level |-> level, why |-> why]

\* The steps that give a verdict, and the ways of those that do not.
LEMMA Verdicts ==
  ASSUME IInv, [Next]_vars
  PROVE  /\ test' = test
         /\ \/ verdict' = verdict
            \/ /\ pc \in {"plant", "ready", "service", "serving"} /\ pc' \in {"errands",
                    "return"}
               /\ verdict' \in {Verdict("Unknown", "unplanted"), Verdict("Unknown", "unserved")}
            \/ /\ pc = "addresses" /\ pc' \in {"errands", "return"}
               /\ verdict' = Verdict("Unknown", "no_address")
            \/ /\ pc \in {"place", "settle"} /\ test = "node_network"
               /\ verdict' \in {Verdict("Soft", "refused"), Verdict("Unknown", "unasked")}
            \/ Judge
<1>1. CASE PlantFails \/ MarkerNotReady \/ CreateServiceFails
  BY <1>1 DEF PlantFails, MarkerNotReady, CreateServiceFails, GiveUp, Leave, Result, Verdict
<1>2. CASE NotServing \/ NoAddresses
  BY <1>2 DEF NotServing, NoAddresses, GiveUp, Leave, Result, Verdict
<1>3. CASE NodeProbeRefused \/ NodeProbeFails
  BY <1>3 DEF NodeProbeRefused, NodeProbeFails, GiveUp, Leave, Result, Verdict
<1>4. CASE NotSettled
  BY <1>4 DEF NotSettled, IInv, TypeOK, Leave, Result, Verdict
<1>5. CASE Plant \/ MarkerReady \/ CreateService \/ AwaitServing \/ PlantOwn \/ Claim \/ ClaimFails
  BY <1>5 DEF Plant, MarkerReady, CreateService, AwaitServing, PlantOwn, Claim, ClaimFails,
              PollServing, Goto, leaving
<1>6. CASE GatherAddresses \/ GatherOwnAddresses \/ NoControl \/ AwaitOwnServing \/ Place \/ PlaceFails
  BY <1>6 DEF GatherAddresses, GatherOwnAddresses, NoControl, AwaitOwnServing, Place,
     PlaceFails,
              PollServing, Goto, leaving
<1>7. CASE Settle \/ Ask \/ AskFails \/ NextRound \/ ControlDone \/ Return
  BY <1>7 DEF Settle, Ask, AskFails, NextRound, ControlDone, Return, Goto, leaving
<1>8. CASE SweepDone
  BY <1>8 DEF SweepDone, Leave
<1>9. CASE DeletePod \/ DropService \/ AwaitGone
  BY <1>9 DEF DeletePod, DropService, AwaitGone, TickOff
<1>10. CASE Cluster \/ UNCHANGED vars
  BY <1>10 DEF Cluster, leaving, vars
<1>11. CASE Judge
  <2>1. test' = test
    BY <1>11 DEF Judge, Leave
  <2> QED
    BY <1>11, <2>1
<1> QED
  BY <1>1, <1>2, <1>3, <1>4, <1>5, <1>6, <1>7, <1>8, <1>9, <1>10, <1>11 DEF Next, Harness, Ended

\* The branches of the two judgements.
LEMMA Judgement ==
  ASSUME IInv, Judge
  PROVE  /\ pc = "judge" /\ At = "judge" /\ prober = "probe" /\ pc' \in {"errands", "return"}
         /\ \/ verdict' = Verdict("None", "read") /\ "marker" \in attempt.heard
            \/ verdict' \in {Verdict("Unknown", "unasked"), Verdict("Unknown", "control")}
            \/ /\ "marker" \notin attempt.heard /\ ~ NothingAsked
               /\ \/ verdict' = Verdict("Soft", "collision")
                  \/ /\ verdict' = Verdict("Soft", "unexpected")
                     /\ Unexpected(attempt.heard, "marker")
                  \/ /\ verdict' = Verdict("Hard", "silence")
                     /\ ~ Unexpected(attempt.heard, "marker")
                     /\ test = "nodeport" => collision # "denied" /\ control # "missed"
<1>1. pc = "judge" /\ At = "judge" /\ pc' \in {"errands", "return"}
  BY Here DEF Judge, Leave
<1>2. prober = "probe"
  BY <1>1 DEF IInv, OnCourse
<1>3. Sought = "marker" /\ (Hit <=> "marker" \in attempt.heard)
  BY <1>2 DEF Sought, Hit
<1>4. CASE test = "nodeport"
  <2>1. JudgeNodePort
    BY <1>4 DEF Judge
  <2> QED
    BY <1>1, <1>2, <1>3, <1>4, <2>1 DEF JudgeNodePort, Result, Verdict, ControlMissed
<1>5. CASE test # "nodeport"
  <2>1. JudgeNodeNetwork
    BY <1>5 DEF Judge
  <2> QED
    BY <1>1, <1>2, <1>3, <1>5, <2>1 DEF JudgeNodeNetwork, Result, Verdict
<1> QED
  BY <1>4, <1>5

LEMMA VerdictFacts ==
  /\ \A level, why : Verdict(level, why).level = level /\ Verdict(level, why).why = why
  /\ Pending.level = "pending"
  /\ \A level \in Level : \A why : Verdict(level, why) # Pending
<1>1. \A level, why : Verdict(level, why).level = level /\ Verdict(level, why).why = why
  BY DEF Verdict
<1>2. Pending.level = "pending" /\ "pending" \notin Level
  BY DEF Pending, Level
<1> QED
  BY <1>1, <1>2

\* A sharing is reported on the strength of an address that leads to tenant 1, and what is
\* softer than that on the strength of one that leads to somebody, of a denied port, of a
\* refused pod, or of an output that was lost.
THEOREM Sharing == Spec => SharingIsReal
<1> DEFINE Real ==
      /\ Says("None") => \E a \in attempt.targets : leads[a] = "victim"
      /\ Says("Soft") =>
           \/ verdict'.why \in {"refused", "collision"}
           \/ "cut" \in attempt.heard
           \/ \E a \in attempt.targets : leads[a] \in {"own", "other"}
<1>1. ASSUME IInv, [Next]_vars PROVE Real
  <2>1. CASE verdict' = verdict
    BY <2>1, VerdictFacts DEF Says, Judged
  <2>2. CASE verdict' \in {Verdict("Unknown", "unplanted"), Verdict("Unknown", "unserved"),
                           Verdict("Unknown", "no_address"), Verdict("Unknown", "unasked"),
                           Verdict("Soft", "refused")}
    BY <2>2, VerdictFacts DEF Says
  <2>3. CASE Judge
    <3>1. \/ verdict'.level = "None" /\ "marker" \in attempt.heard
          \/ verdict'.level \in {"Unknown", "Hard"}
          \/ verdict'.level = "Soft" /\ verdict'.why = "collision"
          \/ verdict'.level = "Soft" /\ Unexpected(attempt.heard, "marker")
      BY <1>1, <2>3, Judgement, VerdictFacts
    <3>2. "marker" \in attempt.heard => \E a \in attempt.targets : leads[a] = "victim"
      BY <1>1 DEF IInv, HeardSoFar
    <3>3. Unexpected(attempt.heard, "marker") =>
            "cut" \in attempt.heard \/ \E a \in attempt.targets : leads[a] \in {"own", "other"}
      <4>1. attempt.heard \subseteq Answer
        BY <1>1 DEF IInv, TypeOK, Attempt
      <4>2. \A l \in {"own",
         "other"} \intersect attempt.heard : \E a \in attempt.targets : leads[a] = l
        BY <1>1 DEF IInv, HeardSoFar
      <4> QED
        BY <4>1, <4>2 DEF Unexpected, Answer
    <3> QED
      BY <3>1, <3>2, <3>3 DEF Says
  <2> QED
    BY <1>1, <2>1, <2>2, <2>3, Verdicts
<1>2. IInv /\ [Next]_vars => [Real]_vars
  BY <1>1
<1> QED
  BY <1>2, Invariant, PTL DEF Spec, SharingIsReal

\* A verdict that is not Unknown rests on a command that was run, and Hard of the NodePort test
\* on spaces that are separate, on a control that was reached, and on a target that said that
\* it serves; no address of the sweep leads to tenant 1, unless a command failed, or the port
\* was not programmed, the server not yet bound or already gone during the last round.
THEOREM Measured == Spec => HardIsMeasured
<1> DEFINE Real ==
      /\ ~ Judged /\ Judged' /\ verdict'.level # "Unknown" /\ verdict'.why # "refused" =>
           attempt.placed /\ Answered
      /\ Says("Hard") /\ test = "nodeport" =>
           /\ ~ shared
           /\ control = "reached"
           /\ "refused" \in attempt.heard
           /\ "marker" \in said
           /\ \/ \A a \in attempt.targets : leads[a] # "victim"
              \/ attempt.exec_failed \/ ~ attempt.reachable
<1>1. ASSUME IInv, [Next]_vars PROVE Real
  <2>1. CASE verdict' = verdict
    BY <2>1, VerdictFacts DEF Says, Judged
  <2>2. CASE verdict' \in {Verdict("Unknown", "unplanted"), Verdict("Unknown", "unserved"),
                           Verdict("Unknown", "no_address"), Verdict("Unknown", "unasked"),
                           Verdict("Soft", "refused")}
    BY <2>2, VerdictFacts DEF Says
  <2>3. CASE Judge
    <3>1. /\ pc = "judge" /\ At = "judge" /\ prober = "probe"
          /\ \/ verdict'.level = "Unknown"
             \/ verdict'.level # "Hard" /\ ("marker" \in attempt.heard \/ ~ NothingAsked)
             \/ /\ "marker" \notin attempt.heard /\ ~ NothingAsked
                /\ ~ Unexpected(attempt.heard, "marker")
                /\ test = "nodeport" => collision # "denied" /\ control # "missed"
      BY <1>1, <2>3, Judgement, VerdictFacts
    <3>2. "marker" \in attempt.heard \/ ~ NothingAsked => attempt.placed /\ Answered
      BY <1>1, <3>1 DEF IInv, HeardSoFar, NothingAsked, Answered
    <3>3. ASSUME ~ NothingAsked, "marker" \notin attempt.heard,
                 ~ Unexpected(attempt.heard, "marker"), test = "nodeport",
                 collision # "denied", control # "missed"
          PROVE  /\ ~ shared /\ control = "reached" /\ "refused" \in attempt.heard
                 /\ "marker" \in said
                 /\ \/ \A a \in attempt.targets : leads[a] # "victim"
                    \/ attempt.exec_failed \/ ~ attempt.reachable
      <4>1. collision = "none" /\ ~ shared /\ control = "reached"
        BY <1>1, <3>1, <3>3 DEF IInv, TypeOK, Controlled, Probing
      <4>2. "refused" \in attempt.heard /\ "cut" \notin attempt.heard
        <5>1. attempt.heard # {} /\ attempt.heard \subseteq {"marker", "refused"}
          BY <3>2, <3>3 DEF Answered, Unexpected
        <5> QED
          BY <3>3, <5>1
      <4>3. "marker" \in said
        BY <1>1, <3>1, <3>3 DEF IInv, Planted, Probing
      <4>4. ~ Told
        BY <3>3, <4>2 DEF Told
      <4>5. \/ \A a \in attempt.targets : leads[a] # "victim"
            \/ attempt.exec_failed \/ ~ attempt.reachable
        BY <1>1, <3>1, <3>3, <4>4 DEF IInv, SweptSoFar
      <4> QED
        BY <4>1, <4>2, <4>3, <4>5
    <3> QED
      BY <3>1, <3>2, <3>3 DEF Says
  <2> QED
    BY <1>1, <2>1, <2>2, <2>3, Verdicts
<1>2. IInv /\ [Next]_vars => [Real]_vars
  BY <1>1
<1> QED
  BY <1>2, Invariant, PTL DEF Spec, HardIsMeasured

-----------------------------------------------------------------------------
(***************************************************************************)
(* The NodePort test implements the method.                                *)
(***************************************************************************)
Planting == {"plant", "ready", "service", "serving"}

\* What the mapping makes of each stretch of the program.
MappingKnown ==
  /\ test # "nodeport" => MethodStep = "plant" /\ MethodLevel = "open" /\ MethodConfirmed = FALSE
  /\ test = "nodeport" /\ ~ Judged /\ pc \in Planting =>
       MethodStep = "plant" /\ MethodLevel = "open" /\ MethodConfirmed = FALSE
  /\ test = "nodeport" /\ ~ Judged /\ pc \notin Planting =>
       MethodStep = "attempt" /\ MethodLevel = "open" /\ MethodConfirmed = TRUE
  /\ test = "nodeport" /\ Judged =>
       /\ MethodStep = (IF pc = "over" THEN "over" ELSE "clean")
       /\ MethodLevel = verdict.level
       /\ MethodConfirmed = (verdict.why \notin {"unplanted", "unserved"})

LEMMA Mapping == IInv => MappingKnown
<1> SUFFICES ASSUME IInv PROVE MappingKnown
  OBVIOUS
<1>1. CASE test # "nodeport"
  BY <1>1 DEF MappingKnown, MethodStep, MethodLevel, MethodConfirmed
<1>2. CASE test = "nodeport" /\ ~ Judged /\ pc \in Planting
  BY <1>2 DEF MappingKnown, MethodStep, MethodLevel, MethodConfirmed, Planting
<1>3. CASE test = "nodeport" /\ ~ Judged /\ pc \notin Planting
  <2>1. At \notin {"return", "over"} /\ pc # "over"
    BY <1>3 DEF IInv, OnCourse, At
  <2>2. At \in Probing \union {"own_pod", "claim", "addresses", "own_addresses", "own_serving"}
    BY <1>3, <2>1 DEF IInv, TypeOK, At, Probing, Labels, Planting
  <2>3. "marker" \in said
    BY <1>3, <2>2 DEF IInv, Planted
  <2> QED
    BY <1>3, <2>1, <2>3 DEF MappingKnown, MethodStep, MethodLevel, MethodConfirmed, Planting
<1>4. CASE test = "nodeport" /\ Judged
  BY <1>4 DEF MappingKnown, MethodStep, MethodLevel, MethodConfirmed
<1> QED
  BY <1>1, <1>2, <1>3, <1>4

\* Where a step without a verdict may lead: past the planting by one way only, which has
\* seen the marker announced, and to the end from the return.
LEMMA Ways ==
  ASSUME IInv, IInv', [Next]_vars, verdict' = verdict
  PROVE  /\ pc \in Planting /\ pc' \notin Planting => test # "nodeport" \/ pc' = "own_pod"
         /\ pc' \in Planting => pc \in Planting
         /\ pc = "over" => pc' = "over"
<1> USE DEF Planting
<1>1. CASE Plant \/ MarkerReady \/ CreateService \/ AwaitServing \/ PlantOwn \/ Claim \/ ClaimFails
  BY <1>1 DEF Plant, MarkerReady, CreateService, AwaitServing, PlantOwn, Claim, ClaimFails,
              PollServing, Goto
<1>2. CASE GatherAddresses \/ GatherOwnAddresses \/ NoControl \/ AwaitOwnServing \/ Place \/ PlaceFails
  BY <1>2 DEF GatherAddresses, GatherOwnAddresses, NoControl, AwaitOwnServing, Place,
     PlaceFails,
              PollServing, Goto, Probed
<1>3. CASE Settle \/ Ask \/ AskFails \/ NextRound \/ ControlDone \/ Return
  BY <1>3 DEF Settle, Ask, AskFails, NextRound, ControlDone, Return, Goto
<1>4. CASE SweepDone \/ NotSettled
  BY <1>4 DEF SweepDone, NotSettled, Leave, Probed
<1>5. CASE DeletePod \/ DropService \/ AwaitGone
  BY <1>5 DEF DeletePod, DropService, AwaitGone, TickOff, NextIs, IInv, TypeOK
<1>6. CASE Cluster \/ UNCHANGED vars
  BY <1>6 DEF Cluster, vars
<1>7. CASE PlantFails \/ MarkerNotReady \/ CreateServiceFails \/ NotServing \/ NoAddresses
           \/ NodeProbeRefused \/ NodeProbeFails \/ Judge
  <2>1. ~ Judged
    BY <1>7, Here DEF PlantFails, MarkerNotReady, CreateServiceFails, NotServing, NoAddresses,
             NodeProbeRefused, NodeProbeFails, Judge, IInv, OnCourse
  <2>2. Judged'
    <3>1. \E level \in Level, why \in Why : Result(level, why)
      BY <1>7, WhyFacts DEF PlantFails, MarkerNotReady, CreateServiceFails, NotServing,
         NoAddresses,
         NodeProbeRefused, NodeProbeFails, Judge, GiveUp, JudgeNodePort, JudgeNodeNetwork
    <3>2. PICK level \in Level, why \in Why : verdict' = Verdict(level, why)
      BY <3>1 DEF Result, Verdict
    <3> QED
      BY <3>2, VerdictFacts DEF Judged
  <2> QED
    BY <2>1, <2>2 DEF Judged
<1> QED
  BY <1>1, <1>2, <1>3, <1>4, <1>5, <1>6, <1>7 DEF Next, Harness, Ended

\* One step of the test is one step of the method, or none.
LEMMA MethodStepRefined ==
  ASSUME IInv, IInv', MappingKnown, MappingKnown', [Next]_vars
  PROVE  [Method!MNext]_(Method!mvars)
<1> USE DEF MappingKnown, Method!mvars
<1>1. CASE test # "nodeport"
  BY <1>1, Verdicts
<1>2. CASE test = "nodeport" /\ verdict' = verdict /\ ~ Judged
  <2>1. ~ Judged' /\ test' = "nodeport"
    BY <1>2, Verdicts DEF Judged
  <2>2. CASE pc \in Planting /\ pc' \notin Planting
    BY <1>2, <2>1, <2>2 DEF Method!MNext, Method!PlantAndConfirm
  <2>3. CASE (pc \in Planting <=> pc' \in Planting)
    <3>1. MethodStep' = MethodStep /\ MethodLevel' = MethodLevel /\ MethodConfirmed' = MethodConfirmed
      <4>1. CASE pc \in Planting
        BY <1>2, <2>1, <2>3, <4>1
      <4>2. CASE pc \notin Planting
        BY <1>2, <2>1, <2>3, <4>2
      <4> QED
        BY <4>1, <4>2
    <3> QED
      BY <3>1
  <2> QED
    BY <1>2, <2>2, <2>3, Ways
<1>3. CASE test = "nodeport" /\ verdict' = verdict /\ Judged
  <2>1. Judged' /\ test' = "nodeport"
    BY <1>3, Verdicts DEF Judged
  <2>2. CASE pc # "over" /\ pc' = "over"
    BY <1>3, <2>1, <2>2 DEF Method!MNext, Method!Cleaned
  <2>3. CASE (pc = "over" <=> pc' = "over")
    BY <1>3, <2>1, <2>3
  <2> QED
    BY <1>3, <2>2, <2>3, Ways
<1>4. CASE /\ test = "nodeport" /\ pc \in Planting /\ pc' \in {"errands", "return"}
           /\ verdict' \in {Verdict("Unknown", "unplanted"), Verdict("Unknown", "unserved")}
  <2>1. Judged' /\ test' = "nodeport" /\ ~ Judged /\ pc' # "over"
    BY <1>4, Verdicts, VerdictFacts, Here DEF Judged, Level, Planting, IInv, OnCourse
  <2>2. verdict'.level = "Unknown" /\ verdict'.why \in {"unplanted", "unserved"}
    BY <1>4, VerdictFacts
  <2>3. MethodStep = "plant" /\ MethodLevel = "open" /\ MethodConfirmed = FALSE
    BY <1>4, <2>1
  <2>4. MethodStep' = "clean" /\ MethodLevel' = "Unknown" /\ MethodConfirmed' = FALSE
    BY <2>1, <2>2
  <2> QED
    BY <2>3, <2>4 DEF Method!MNext, Method!NothingPlanted
<1>5. ASSUME test = "nodeport", pc \in {"addresses", "judge"}, pc' \in {"errands", "return"},
             NEW level \in Level, NEW why \in Why \ {"unplanted", "unserved"},
             verdict' = Verdict(level, why)
      PROVE  [Method!MNext]_(Method!mvars)
  <2>1. test' = "nodeport" /\ ~ Judged /\ pc' # "over" /\ pc \notin Planting
    BY <1>5, Verdicts, Here DEF Planting, IInv, OnCourse
  <2>2. Judged' /\ verdict'.level \in Level /\ verdict'.why \notin {"unplanted", "unserved"}
    BY <1>5, VerdictFacts DEF Judged
  <2> QED
    BY <1>5, <2>1, <2>2 DEF Method!MNext, Method!AttemptAndJudge, Level
<1>6. CASE test = "nodeport" /\ Judge
  <2>1. /\ pc = "judge" /\ pc' \in {"errands", "return"}
        /\ verdict' \in {Verdict("None", "read"), Verdict("Unknown", "unasked"),
                         Verdict("Unknown", "control"), Verdict("Soft", "collision"),
                         Verdict("Soft", "unexpected"), Verdict("Hard", "silence")}
    BY <1>6, Judgement
  <2> QED
    BY <1>5, <1>6, <2>1, WhyFacts
<1>7. CASE /\ test = "nodeport" /\ pc = "addresses" /\ pc' \in {"errands", "return"}
           /\ verdict' = Verdict("Unknown", "no_address")
  BY <1>5, <1>7, WhyFacts
<1> QED
  BY <1>1, <1>2, <1>3, <1>4, <1>6, <1>7, Verdicts DEF Planting

\* Every behaviour of the NodePort test is one of the method of breach.rs, where the target's
\* own word, which it gives before it serves, stands for the confirmation of the secret.
THEOREM Refinement == Spec => ImplementsMethod
<1>1. Init => Method!MInit
  <2> SUFFICES ASSUME Init PROVE Method!MInit
    OBVIOUS
  <2>1. IInv /\ ~ Judged /\ pc \in Planting
    BY InitInvariant DEF Init, Judged, Planting
  <2>2. MethodStep = "plant" /\ MethodLevel = "open" /\ MethodConfirmed = FALSE
    BY <2>1, Mapping DEF MappingKnown
  <2> QED
    BY <2>2 DEF Method!MInit
<1>2. IInv /\ IInv' /\ MappingKnown /\ MappingKnown' /\ [Next]_vars
        => [Method!MNext]_(Method!mvars)
  BY MethodStepRefined
<1> QED
  BY <1>1, <1>2, Invariant, Mapping, PTL DEF Spec, ImplementsMethod, Method!Safety
=============================================================================
