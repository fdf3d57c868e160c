-------------------------- MODULE AssessmentProofs --------------------------
(***************************************************************************)
(* Theorems about Assessment, for every catalogue of properties.           *)
(***************************************************************************)
EXTENDS Assessment, TLAPS

-----------------------------------------------------------------------------
(***************************************************************************)
(* The subsystems and the catalogue.                                       *)
(***************************************************************************)
LEMMA SequenceFacts ==
  /\ Len(Sequence) = 4
  /\ \A i \in 1 .. 4 : Sequence[i] \in Subsystems
  /\ \A i, j \in 1 .. 4 : Sequence[i] = Sequence[j] => i = j
  /\ Sequence[4] = "workload"
  /\ \A s \in Subsystems : \E i \in 1 .. 4 : s = Sequence[i]
<1>1. /\ Len(Sequence) = 4
      /\ Sequence[1] = "control_plane" /\ Sequence[2] = "storage"
      /\ Sequence[3] = "network" /\ Sequence[4] = "workload"
  BY DEF Sequence
<1>2. \A i \in 1 .. 4 : i = 1 \/ i = 2 \/ i = 3 \/ i = 4
  OBVIOUS
<1>3. \A i, j \in 1 .. 4 : Sequence[i] = Sequence[j] => i = j
  BY <1>1, <1>2
<1> QED
  BY <1>1, <1>3 DEF Subsystems

LEMMA CatalogueFacts ==
  ASSUME NEW s \in Subsystems
  PROVE  /\ Len(Catalogue[s]) \in Nat
         /\ \A r \in 1 .. Len(Catalogue[s]) : Catalogue[s][r] \in Nat
<1>1. Catalogue[s] \in Seq(Nat)
  BY CatalogueAssumption
<1> QED
  BY <1>1

-----------------------------------------------------------------------------
(***************************************************************************)
(* The order on levels, and the folds.                                     *)
(***************************************************************************)
LEMMA RankFacts ==
  /\ \A l \in Level : Rank(l) \in 0 .. 3
  /\ \A l, m \in Level : Rank(l) = Rank(m) => l = m
  /\ \A l \in Level : Rank(l) = 3 => l = "Hard"
  /\ Rank("Hard") = 3 /\ Rank("None") = 0
BY DEF Level, Rank

LEMMA LeastIsLeast ==
  ASSUME NEW levels \in SUBSET Level, levels # {}
  PROVE  /\ Least(levels) \in levels
         /\ \A m \in levels : Rank(Least(levels)) <= Rank(m)
<1>1. \E l \in levels : \A m \in levels : Rank(l) <= Rank(m)
  <2>1. CASE "None" \in levels
    BY <2>1 DEF Level, Rank
  <2>2. CASE "None" \notin levels /\ "Unknown" \in levels
    BY <2>2 DEF Level, Rank
  <2>3. CASE "None" \notin levels /\ "Unknown" \notin levels /\ "Soft" \in levels
    BY <2>3 DEF Level, Rank
  <2>4. CASE "None" \notin levels /\ "Unknown" \notin levels /\ "Soft" \notin levels
    <3>1. levels = {"Hard"}
      BY <2>4 DEF Level
    <3> QED
      BY <3>1 DEF Rank
  <2> QED
    BY <2>1, <2>2, <2>3, <2>4
<1> QED
  BY <1>1 DEF Least

\* The fold of a list of levels is the worst of them.
LEMMA OverallIsWorst ==
  ASSUME NEW levels \in SUBSET Level
  PROVE  /\ OverallLevel(levels) \in Level
         /\ levels = {} => OverallLevel(levels) = "Hard"
         /\ levels # {} => OverallLevel(levels) \in levels
         /\ \A m \in levels : Rank(OverallLevel(levels)) <= Rank(m)
<1>1. CASE levels = {}
  BY <1>1 DEF OverallLevel, Level
<1>2. CASE levels # {}
  BY <1>2, LeastIsLeast DEF OverallLevel
<1> QED
  BY <1>1, <1>2

LEMMA MinKnownIsKnown ==
  ASSUME NEW levels \in SUBSET Level
  PROVE  /\ MinKnownLevel(levels) # "none" => MinKnownLevel(levels) \in levels \ {"Unknown"}
         /\ "None" \in levels => MinKnownLevel(levels) = "None"
<1>1. CASE levels \ {"Unknown"} = {}
  BY <1>1 DEF MinKnownLevel
<1>2. CASE levels \ {"Unknown"} # {}
  <2>1. levels \ {"Unknown"} \in SUBSET Level
    OBVIOUS
  <2>2. /\ MinKnownLevel(levels) \in levels \ {"Unknown"}
        /\ \A m \in levels \ {"Unknown"} : Rank(MinKnownLevel(levels)) <= Rank(m)
    BY <1>2, <2>1, LeastIsLeast DEF MinKnownLevel
  <2>3. "None" \in levels => Rank(MinKnownLevel(levels)) <= 0
    BY <2>2, RankFacts
  <2>4. "None" \in levels => MinKnownLevel(levels) = "None"
    BY <2>2, <2>3 DEF Rank, Level
  <2> QED
    BY <2>2, <2>4
<1> QED
  BY <1>1, <1>2

-----------------------------------------------------------------------------
(***************************************************************************)
(* Lists that grow by one.                                                 *)
(***************************************************************************)
LEMMA EmptyFacts == DOMAIN Empty = {}
BY DEF Empty

\* A resource that is done is covered as soon as it is put among the assessments.
LEMMA CoversOneMore ==
  ASSUME NEW s \in Subsystems, NEW r \in 1 .. Len(Catalogue[s]), NEW a, NEW findings,
         Covers(a, s, r - 1),
         Catalogue[s][r] # 0,
         DOMAIN findings = 1 .. Catalogue[s][r],
         Levels(findings) \subseteq Level
  PROVE  Covers(Put(a, r, ResourceReport(findings)), s, r)
<1> DEFINE b == Put(a, r, ResourceReport(findings))
<1>1. r \in Nat \ {0} /\ Len(Catalogue[s]) \in Nat
  BY CatalogueFacts
<1>2. DOMAIN b = DOMAIN a \union {r} /\ b[r] = ResourceReport(findings)
  BY DEF Put
<1>3. \A x \in DOMAIN a : x # r /\ b[x] = a[x]
  BY <1>1 DEF Put, Covers
<1>4. DOMAIN b = {x \in 1 .. r : Catalogue[s][x] # 0}
  BY <1>1, <1>2 DEF Covers
<1>5. /\ DOMAIN b[r].ops = 1 .. Catalogue[s][r]
      /\ Levels(b[r].ops) \subseteq Level
      /\ b[r].overall = OverallLevel(Levels(b[r].ops))
  BY <1>2 DEF ResourceReport
<1>6. \A x \in DOMAIN a :
         /\ DOMAIN b[x].ops = 1 .. Catalogue[s][x]
         /\ Levels(b[x].ops) \subseteq Level
         /\ b[x].overall = OverallLevel(Levels(b[x].ops))
  BY <1>3 DEF Covers
<1> HIDE DEF b
<1>7. Covers(b, s, r)
  BY <1>2, <1>4, <1>5, <1>6 DEF Covers
<1> QED
  BY <1>7 DEF b

LEMMA CoversSkip ==
  ASSUME NEW s \in Subsystems, NEW r \in 1 .. Len(Catalogue[s]), NEW a,
         Covers(a, s, r - 1), Catalogue[s][r] = 0
  PROVE  Covers(a, s, r)
<1>1. r \in Nat \ {0} /\ Len(Catalogue[s]) \in Nat
  BY CatalogueFacts
<1>2. {x \in 1 .. r : Catalogue[s][x] # 0} = {x \in 1 .. r - 1 : Catalogue[s][x] # 0}
  BY <1>1
<1> QED
  BY <1>2 DEF Covers

-----------------------------------------------------------------------------
(***************************************************************************)
(* Type correctness.                                                       *)
(***************************************************************************)
LEMMA SystemFacts ==
  ASSUME sub \in 1 .. Len(Sequence)
  PROVE  /\ System \in Subsystems
         /\ Len(Resources) \in Nat
         /\ \A r \in 1 .. Len(Resources) : Resources[r] \in Nat
BY SequenceFacts, CatalogueFacts DEF System, Resources

LEMMA UntriedType ==
  ASSUME NEW authorized
  PROVE  Untried(authorized) \in Finding
BY DEF Untried, Finding, Level

LEMMA GrantType ==
  ASSUME NEW system, NEW answer \in Answers(system)
  PROVE  answer.granted \in BOOLEAN
<1>1. ASSUME NEW x \in Attempts \union Bools
      PROVE  x.granted \in {TRUE, FALSE}
  <2>1. PICK o, a : x = [authorized |-> a, granted |-> o = "ok"]
    BY Zenon DEF Attempts, Bools
  <2>2. x.granted = (o = "ok")
    BY <2>1, Zenon
  <2> QED
    BY <2>2, Zenon
<1>3. \A x, y : Both(x, y).granted \in {TRUE, FALSE}
  BY Zenon DEF Both
<1>4. Inert.granted \in {TRUE, FALSE} /\ Presumed.granted \in {TRUE, FALSE}
  BY Zenon DEF Inert, Presumed
<1>5. \/ answer \in Attempts \union Bools \union {Inert, Presumed}
      \/ \E v, m : answer = Both(v, m)
  <2>1. CASE system = "storage"
    <3>1. answer \in Attempts \union {Both(v, m) : v \in Reviews \union Attempts, m \in Attempts}
      BY <2>1 DEF Answers
    <3> QED
      BY <3>1
  <2>2. CASE system = "control_plane"
    BY <2>2 DEF Answers
  <2>3. CASE system \notin {"storage", "control_plane"}
    BY <2>3 DEF Answers
  <2> QED
    BY <2>1, <2>2, <2>3
<1> QED
  BY <1>1, <1>3, <1>4, <1>5, Zenon

\* What Record leaves of the loop over the operations.
LEMMA RecordType ==
  ASSUME TypeOK, NEW finding \in Finding, Record(finding),
         pc \in {"operations", "allowed"}, op <= Resources[res]
  PROVE  TypeOK'
<1>1. /\ sub \in 1 .. Len(Sequence) /\ res \in 1 .. Len(Resources) /\ Resources[res] # 0
      /\ op \in 1 .. Resources[res] + 1
      /\ DOMAIN ops = 1 .. op - 1 /\ ops \in [1 .. op - 1 -> Finding]
  BY DEF TypeOK
<1>2. Resources[res] \in Nat /\ op \in Nat \ {0}
  BY <1>1, SystemFacts
<1>3. Resources' = Resources
  BY DEF Record, Resources, System
<1>4. DOMAIN ops' = 1 .. op' - 1 /\ ops' \in [1 .. op' - 1 -> Finding]
  <2>1. ops' = Put(ops, op, finding) /\ op' = op + 1
    BY DEF Record
  <2>2. (1 .. op - 1) \union {op} = 1 .. op' - 1
    BY <1>2, <2>1
  <2>3. ops' = [x \in 1 .. op' - 1 |-> IF x = op THEN finding ELSE ops[x]]
    BY <1>1, <2>1, <2>2 DEF Put
  <2> QED
    BY <1>1, <1>2, <2>1, <2>3
<1>5. op' \in 1 .. Resources'[res'] + 1
  BY <1>2, <1>3 DEF Record
<1> QED
  BY <1>1, <1>3, <1>4, <1>5 DEF TypeOK, Record

LEMMA TypeStep ==
  ASSUME TypeOK, [Next]_vars
  PROVE  TypeOK'
<1>1. CASE SkipSystem
  BY <1>1, SequenceFacts DEF SkipSystem, TypeOK
<1>2. CASE BeginSystem
  <2>1. sub \in 1 .. Len(Sequence)
    BY <1>2, SequenceFacts DEF BeginSystem, TypeOK
  <2>2. Resources' = Resources /\ Len(Resources) \in Nat
    BY <1>2, <2>1, SystemFacts DEF BeginSystem, Resources, System
  <2> QED
    BY <1>2, <2>1, <2>2 DEF BeginSystem, TypeOK
<1>3. CASE SkipResource
  <2>1. sub \in 1 .. Len(Sequence)
    BY <1>3 DEF SkipResource, TypeOK
  <2>2. Resources' = Resources /\ Len(Resources) \in Nat
    BY <1>3, <2>1, SystemFacts DEF SkipResource, Resources, System
  <2> QED
    BY <1>3, <2>1, <2>2 DEF SkipResource, TypeOK
<1>4. CASE BeginResource
  <2>1. sub \in 1 .. Len(Sequence) /\ res \in 1 .. Len(Resources)
    <3>1. sub \in 1 .. Len(Sequence) /\ res \in 1 .. Len(Resources) + 1 /\ res <= Len(Resources)
      BY <1>4 DEF BeginResource, TypeOK
    <3> QED
      BY <3>1, SystemFacts
  <2>2. Resources' = Resources /\ Resources[res] \in Nat
    BY <1>4, <2>1, SystemFacts DEF BeginResource, Resources, System
  <2>3. DOMAIN ops' = 1 .. op' - 1 /\ ops' \in [1 .. op' - 1 -> Finding]
    BY <1>4 DEF BeginResource, Empty
  <2> QED
    BY <1>4, <2>1, <2>2, <2>3 DEF BeginResource, TypeOK
<1>5. CASE Authorize
  <2>2. PICK answer \in Answers(System) :
          IF answer.authorized = "allowed"
            THEN /\ pc' = "allowed" /\ granted' = answer.granted
                 /\ UNCHANGED <<config, sub, res, op, ops, assessed, reports>>
            ELSE Record(Untried(answer.authorized))
    BY <1>5 DEF Authorize
  <2>3. CASE answer.authorized = "allowed"
    <3>1. granted' \in BOOLEAN
      BY <2>2, <2>3, GrantType
    <3>2. Resources' = Resources
      BY <2>2, <2>3 DEF Resources, System
    <3> QED
      BY <1>5, <2>2, <2>3, <3>1, <3>2 DEF Authorize, TypeOK
  <2>4. CASE answer.authorized # "allowed"
    BY <1>5, <2>2, <2>4, UntriedType, RecordType DEF Authorize
  <2> QED
    BY <2>3, <2>4
<1>6. CASE Check
  <2>2. PICK finding \in Finding : Record(finding)
    BY <1>6 DEF Check
  <2>3. pc = "allowed" /\ op <= Resources[res]
    BY <1>6 DEF Check, TypeOK
  <2> QED
    BY <2>2, <2>3, RecordType
<1>7. CASE Fails
  BY <1>7 DEF Fails, TypeOK
<1>8. CASE CloseResource
  <2>1. sub \in 1 .. Len(Sequence) /\ res \in 1 .. Len(Resources)
    BY <1>8 DEF CloseResource, TypeOK
  <2>2. Resources' = Resources /\ Len(Resources) \in Nat
    BY <1>8, <2>1, SystemFacts DEF CloseResource, Resources, System
  <2> QED
    BY <1>8, <2>1, <2>2 DEF CloseResource, TypeOK
<1>9. CASE CloseSystem
  BY <1>9, SequenceFacts DEF CloseSystem, TypeOK
<1>10. CASE Report
  BY <1>10 DEF Report, TypeOK
<1>11. CASE Ended \/ UNCHANGED vars
  BY <1>11 DEF Ended, vars, TypeOK, Resources, System
<1> QED
  BY <1>1, <1>2, <1>3, <1>4, <1>5, <1>6, <1>7, <1>8, <1>9, <1>10, <1>11 DEF Next

-----------------------------------------------------------------------------
(***************************************************************************)
(* The inductive invariant.                                                *)
(***************************************************************************)
LEMMA BehindOneMore ==
  ASSUME NEW n \in 1 .. 4
  PROVE  /\ {Sequence[i] : i \in 1 .. n} = {Sequence[i] : i \in 1 .. n - 1} \union {Sequence[n]}
         /\ Sequence[n] \notin {Sequence[i] : i \in 1 .. n - 1}
<1>1. 1 .. n = (1 .. n - 1) \union {n}
  OBVIOUS
<1>2. \A i \in 1 .. n - 1 : i \in 1 .. 4 /\ i # n
  OBVIOUS
<1>3. \A i \in 1 .. n - 1 : Sequence[i] # Sequence[n]
  BY <1>2, SequenceFacts
<1> QED
  BY <1>1, <1>3

LEMMA InitIInv == Init => IInv
<1> SUFFICES ASSUME Init PROVE IInv
  OBVIOUS
<1>1. config \in SUBSET Subsystems
  BY DEF Init, FromFlags
<1>2. TypeOK
  <2>1. sub \in 1 .. Len(Sequence) + 1
    BY SequenceFacts DEF Init
  <2>2. pc = "systems" /\ granted \in BOOLEAN
    BY Zenon DEF Init
  <2> QED
    BY <1>1, <2>1, <2>2 DEF TypeOK
<1>3. Behind = {} /\ DOMAIN reports = {}
  BY EmptyFacts DEF Init, Behind
<1> QED
  BY <1>2, <1>3 DEF Init, IInv, AssessedSoFar, Looping, ReportedSoFar, LateEnough

LEMMA AssessedStep ==
  ASSUME IInv, [Next]_vars
  PROVE  AssessedSoFar'
<1> USE DEF IInv, AssessedSoFar, Looping
<1>1. CASE SkipSystem \/ Fails \/ CloseSystem \/ Report
  BY <1>1 DEF SkipSystem, Fails, CloseSystem, Report
<1>2. CASE BeginSystem
  BY <1>2, EmptyFacts DEF BeginSystem, Covers, System
<1>3. CASE SkipResource
  <2>1. /\ sub \in 1 .. Len(Sequence) /\ res \in 1 .. Len(Resources) + 1
        /\ res <= Len(Resources) /\ Resources[res] = 0
    BY <1>3 DEF SkipResource, TypeOK
  <2>2. System \in Subsystems /\ res \in 1 .. Len(Resources) /\ res' - 1 = res
    BY <1>3, <2>1, SystemFacts DEF SkipResource
  <2>3. Covers(assessed, System, res)
    BY <1>3, <2>1, <2>2, CoversSkip DEF SkipResource, Resources
  <2> QED
    BY <1>3, <2>2, <2>3 DEF SkipResource, System
<1>4. CASE BeginResource
  BY <1>4 DEF BeginResource, System
<1>5. CASE Authorize \/ Check
  BY <1>5 DEF Authorize, Check, Record, System
<1>6. CASE CloseResource
  <2>1. /\ sub \in 1 .. Len(Sequence) /\ res \in 1 .. Len(Resources) /\ Resources[res] # 0
        /\ op \in 1 .. Resources[res] + 1 /\ op > Resources[res]
        /\ DOMAIN ops = 1 .. op - 1 /\ ops \in [1 .. op - 1 -> Finding]
    BY <1>6 DEF CloseResource, TypeOK
  <2>2. System \in Subsystems /\ Resources[res] \in Nat /\ Len(Resources) \in Nat
    BY <2>1, SystemFacts
  <2>3. DOMAIN ops = 1 .. Resources[res]
    BY <2>1, <2>2
  <2>4. Levels(ops) \subseteq Level
    BY <2>1 DEF Levels, Finding
  <2>5. Covers(Put(assessed, res, ResourceReport(ops)), System, res)
    BY <1>6, <2>1, <2>2, <2>3, <2>4, CoversOneMore DEF CloseResource, Resources
  <2>6. res' - 1 = res
    BY <1>6, <2>1, <2>2 DEF CloseResource
  <2> QED
    BY <1>6, <2>5, <2>6 DEF CloseResource, System
<1>7. CASE Ended \/ UNCHANGED vars
  BY <1>7 DEF Ended, vars, System
<1> QED
  BY <1>1, <1>2, <1>3, <1>4, <1>5, <1>6, <1>7 DEF Next

LEMMA ReportedStep ==
  ASSUME IInv, [Next]_vars
  PROVE  ReportedSoFar'
<1>1. CASE UNCHANGED <<config, sub, reports>>
  BY <1>1 DEF IInv, ReportedSoFar, Behind
<1>2. CASE SkipSystem
  <2>1. sub \in 1 .. 4 /\ sub' = sub + 1 /\ sub' - 1 = sub
    BY <1>2, SequenceFacts DEF SkipSystem, IInv, TypeOK
  <2>2. Behind' = Behind \union {System}
    BY <2>1, BehindOneMore DEF Behind, System
  <2>3. config \intersect Behind' = config \intersect Behind
    BY <1>2, <2>2 DEF SkipSystem
  <2> QED
    BY <1>2, <2>3 DEF SkipSystem, IInv, ReportedSoFar
<1>3. CASE CloseSystem
  <2>1. sub \in 1 .. 4 /\ sub' = sub + 1 /\ sub' - 1 = sub
    BY <1>3, SequenceFacts DEF CloseSystem, IInv, TypeOK
  <2>2. Behind' = Behind \union {System} /\ System \notin Behind
    BY <2>1, BehindOneMore DEF Behind, System
  <2>3. System \in config /\ Covers(assessed, System, Len(Resources))
    <3>1. System \in config /\ Covers(assessed, System, res - 1)
      BY <1>3 DEF CloseSystem, IInv, AssessedSoFar, Looping
    <3>2. res - 1 = Len(Resources)
      BY <1>3, <2>1, SystemFacts, SequenceFacts DEF CloseSystem, IInv, TypeOK
    <3> QED
      BY <3>1, <3>2
  <2>4. /\ DOMAIN reports' = DOMAIN reports \union {System}
        /\ reports'[System] = SubsystemReport(assessed)
        /\ \A s \in DOMAIN reports : s # System => reports'[s] = reports[s]
    BY <1>3 DEF CloseSystem, Put
  <2>5. DOMAIN reports' = (config \intersect Behind)'
    BY <1>3, <2>2, <2>3, <2>4 DEF CloseSystem, IInv, ReportedSoFar
  <2>6. SubsystemReport(assessed).assessments = assessed
    BY DEF SubsystemReport
  <2>7. \A s \in DOMAIN reports :
          /\ reports'[s] = reports[s]
          /\ Covers(reports[s].assessments, s, Len(Catalogue[s]))
          /\ reports[s] = SubsystemReport(reports[s].assessments)
    BY <2>2, <2>4 DEF IInv, ReportedSoFar
  <2>8. ASSUME NEW s \in DOMAIN reports'
        PROVE  /\ Covers(reports'[s].assessments, s, Len(Catalogue[s]))
               /\ reports'[s] = SubsystemReport(reports'[s].assessments)
    <3>1. CASE s = System
      BY <3>1, <2>3, <2>4, <2>6 DEF Resources
    <3>2. CASE s # System
      BY <3>2, <2>4, <2>7
    <3> QED
      BY <3>1, <3>2
  <2> QED
    BY <2>5, <2>8 DEF ReportedSoFar
<1> QED
  BY <1>1, <1>2, <1>3 DEF Next, BeginSystem, SkipResource, BeginResource, Authorize, Check,
     Record, Fails, CloseResource, Report, Ended, vars

LEMMA LateStep ==
  ASSUME IInv, [Next]_vars
  PROVE  LateEnough'
<1>1. CASE UNCHANGED sub /\ pc' # "reported"
  BY <1>1 DEF LateEnough
<1>2. CASE SkipSystem \/ CloseSystem
  BY <1>2, SequenceFacts DEF SkipSystem, CloseSystem, IInv, TypeOK, LateEnough
<1>3. CASE Report
  BY <1>3, SequenceFacts DEF Report, IInv, TypeOK, LateEnough
<1>4. CASE Authorize \/ Check \/ Fails
  BY <1>1, <1>4 DEF Authorize, Check, Fails, Record
<1>5. CASE Ended \/ UNCHANGED vars
  BY <1>5 DEF Ended, vars, IInv, LateEnough
<1>6. CASE BeginSystem \/ SkipResource \/ BeginResource \/ CloseResource
  BY <1>1, <1>6 DEF BeginSystem, SkipResource, BeginResource, CloseResource
<1> QED
  BY <1>2, <1>3, <1>4, <1>5, <1>6 DEF Next

\* The assessment keeps its inductive invariant: the loop has covered every resource it has
\* passed, and every report sums up the assessments it holds.
THEOREM Invariant == Spec => []IInv
<1>1. IInv /\ [Next]_vars => IInv'
  BY TypeStep, AssessedStep, ReportedStep, LateStep DEF IInv
<1> QED
  BY InitIInv, <1>1, PTL DEF Spec

\* run_assessment and assess_multitenancy never leave their lists: every position they read
\* is one of the catalogue, and each finding has a level and an autonomy.
THEOREM TypeCorrect == Spec => []TypeOK
<1>1. IInv => TypeOK
  BY DEF IInv
<1> QED
  BY <1>1, Invariant, PTL

-----------------------------------------------------------------------------
(***************************************************************************)
(* Completeness: nothing asked for is missing from a report.               *)
(***************************************************************************)
LEMMA CoversListed ==
  ASSUME NEW s \in Subsystems, NEW a, Covers(a, s, Len(Catalogue[s]))
  PROVE  Operations(a) = Listed(s)
<1> DEFINE n == Len(Catalogue[s])
<1>1. \A r \in 1 .. n : Catalogue[s][r] = 0 => 1 .. Catalogue[s][r] = {}
  OBVIOUS
<1>2. ASSUME NEW x
      PROVE  x \in Operations(a) <=> \E r \in DOMAIN a : \E o \in DOMAIN a[r].ops : x = <<r, o>>
  BY DEF Operations
<1>3. ASSUME NEW x
      PROVE  x \in Listed(s) <=> \E r \in 1 .. n : \E o \in 1 .. Catalogue[s][r] : x = <<r, o>>
  BY DEF Listed
<1>4. /\ DOMAIN a = {r \in 1 .. n : Catalogue[s][r] # 0}
      /\ \A r \in DOMAIN a : DOMAIN a[r].ops = 1 .. Catalogue[s][r]
  BY DEF Covers
<1>5. ASSUME NEW x PROVE x \in Operations(a) <=> x \in Listed(s)
  BY <1>1, <1>2, <1>3, <1>4
<1> QED
  BY <1>5

\* What is said of one subsystem that is done.
LEMMA ReportFacts ==
  ASSUME IInv, NEW s \in DOMAIN reports
  PROVE  /\ s \in Subsystems /\ s \in config
         /\ Covers(reports[s].assessments, s, Len(Catalogue[s]))
         /\ reports[s] = SubsystemReport(reports[s].assessments)
         /\ Found(s) = Listed(s)
<1>1. /\ s \in Subsystems /\ s \in config
      /\ Covers(reports[s].assessments, s, Len(Catalogue[s]))
      /\ reports[s] = SubsystemReport(reports[s].assessments)
  BY DEF IInv, TypeOK, ReportedSoFar
<1> QED
  BY <1>1, CoversListed DEF Found

LEMMA DoneBehind ==
  ASSUME IInv, sub = Len(Sequence) + 1
  PROVE  DOMAIN reports = config
<1>1. Behind = Subsystems
  BY SequenceFacts DEF Behind, Subsystems
<1> QED
  BY <1>1 DEF IInv, TypeOK, ReportedSoFar

\* A report that is printed covers the inventory, whatever the catalogue: there is no
\* operation of a subsystem asked for that run_assessment passes over.
THEOREM ReportsAreComplete == Spec => []ReportIsComplete
<1>1. IInv => ReportIsComplete
  <2> SUFFICES ASSUME IInv, pc = "reported"
               PROVE  /\ DOMAIN reports = config
                      /\ \A s \in config :
                           /\ Found(s) = Listed(s)
                           /\ reports[s].ratio.total = Cardinality(Listed(s))
    BY DEF ReportIsComplete
  <2>1. DOMAIN reports = config
    BY DoneBehind, SequenceFacts DEF IInv, LateEnough
  <2>2. ASSUME NEW s \in config
        PROVE  /\ Found(s) = Listed(s)
               /\ reports[s].ratio.total = Cardinality(Listed(s))
    <3>1. /\ Found(s) = Listed(s)
          /\ reports[s] = SubsystemReport(reports[s].assessments)
      BY <2>1, ReportFacts
    <3>2. \A a : SubsystemReport(a).ratio.total = Cardinality(Operations(a))
      BY DEF SubsystemReport, AutonomyRatio
    <3>3. reports[s].ratio.total = Cardinality(Found(s))
      BY <3>1, <3>2 DEF Found
    <3> QED
      BY <3>1, <3>3
  <2> QED
    BY <2>1, <2>2
<1> QED
  BY <1>1, Invariant, PTL

-----------------------------------------------------------------------------
(***************************************************************************)
(* What the three foldings keep of the operations' levels.                 *)
(***************************************************************************)
\* A resource that was assessed has an operation, and its level is the worst of them.
LEMMA ResourceFacts ==
  ASSUME IInv, NEW s \in DOMAIN reports, NEW r \in DOMAIN reports[s].assessments
  PROVE  LET levels == Levels(reports[s].assessments[r].ops)
             overall == reports[s].assessments[r].overall
         IN  /\ levels \in SUBSET Level
             /\ overall \in levels
             /\ \A m \in levels : Rank(overall) <= Rank(m)
<1> DEFINE a == reports[s].assessments[r]
           levels == Levels(a.ops)
<1>1. /\ s \in Subsystems
      /\ r \in 1 .. Len(Catalogue[s]) /\ Catalogue[s][r] # 0
      /\ DOMAIN a.ops = 1 .. Catalogue[s][r]
      /\ levels \subseteq Level
      /\ a.overall = OverallLevel(levels)
  BY ReportFacts DEF Covers
<1>2. 1 \in DOMAIN a.ops
  BY <1>1, CatalogueFacts
<1>3. levels # {}
  BY <1>2 DEF Levels
<1> HIDE DEF levels
<1>4. a.overall \in levels /\ \A m \in levels : Rank(a.overall) <= Rank(m)
  BY <1>1, <1>3, OverallIsWorst
<1> QED
  BY <1>1, <1>4 DEF levels

\* The levels found are those of the operations of the resources assessed.
LEMMA FoundLevels ==
  ASSUME NEW l
  PROVE  l \in IsolationsFound <=>
           \E s \in DOMAIN reports : \E r \in DOMAIN reports[s].assessments :
             l \in Levels(reports[s].assessments[r].ops)
<1>1. l \in IsolationsFound <=>
        \E s \in DOMAIN reports : \E ro \in Found(s) :
          l = reports[s].assessments[ro[1]].ops[ro[2]].isolation
  BY DEF IsolationsFound
<1>2. ASSUME NEW s, NEW ro
      PROVE  ro \in Found(s) <=>
               \E r \in DOMAIN reports[s].assessments :
                 \E o \in DOMAIN reports[s].assessments[r].ops : ro = <<r, o>>
  BY DEF Found, Operations
<1>3. ASSUME NEW f
      PROVE  l \in Levels(f) <=> \E o \in DOMAIN f : l = f[o].isolation
  BY Zenon DEF Levels
<1>4. ASSUME NEW s \in DOMAIN reports
      PROVE  (\E ro \in Found(s) : l = reports[s].assessments[ro[1]].ops[ro[2]].isolation)
             <=> \E r \in DOMAIN reports[s].assessments :
                   \E o \in DOMAIN reports[s].assessments[r].ops :
                     l = reports[s].assessments[r].ops[o].isolation
  <2> DEFINE a == reports[s].assessments
  <2>1. ASSUME NEW ro \in Found(s), l = a[ro[1]].ops[ro[2]].isolation
        PROVE  \E r \in DOMAIN a : \E o \in DOMAIN a[r].ops : l = a[r].ops[o].isolation
    <3>1. PICK r \in DOMAIN a : \E o \in DOMAIN a[r].ops : ro = <<r, o>>
      BY <1>2
    <3>2. PICK o \in DOMAIN a[r].ops : ro = <<r, o>>
      BY <3>1
    <3>3. ro[1] = r /\ ro[2] = o
      BY <3>2
    <3> QED
      BY <2>1, <3>3
  <2>2. ASSUME NEW r \in DOMAIN a, NEW o \in DOMAIN a[r].ops, l = a[r].ops[o].isolation
        PROVE  \E ro \in Found(s) : l = a[ro[1]].ops[ro[2]].isolation
    <3>1. <<r, o>> \in Found(s)
      BY <1>2
    <3>2. <<r, o>>[1] = r /\ <<r, o>>[2] = o
      OBVIOUS
    <3> QED
      BY <2>2, <3>1, <3>2
  <2> QED
    BY <2>1, <2>2
<1> QED
  BY <1>1, <1>3, <1>4

LEMMA FoundAreLevels ==
  ASSUME IInv
  PROVE  IsolationsFound \in SUBSET Level
BY FoundLevels, ResourceFacts

\* DoubtIsFlagged, for every catalogue: SubsystemReport's warnings pass over no operation
\* that lacks isolation or was not measured.
THEOREM DoubtsAreFlagged == Spec => []DoubtIsFlagged
<1>1. IInv => DoubtIsFlagged
  <2> SUFFICES ASSUME IInv, NEW s \in DOMAIN reports, NEW r \in DOMAIN reports[s].assessments
               PROVE  LET warning == reports[s].warnings[r]
                          levels == Levels(reports[s].assessments[r].ops)
                      IN /\ warning = "unsafe" <=> "None" \in levels
                         /\ warning = "unknown" <=> "Unknown" \in levels /\ "None" \notin levels
                         /\ warning = "quiet" <=> levels \subseteq {"Soft", "Hard"}
    BY DEF DoubtIsFlagged
  <2> DEFINE a == reports[s].assessments[r]
             levels == Levels(a.ops)
  <2>1. reports[s].warnings[r] = Warning(a)
    <3>1. \A as : SubsystemReport(as).warnings = [x \in DOMAIN as |-> Warning(as[x])]
      BY DEF SubsystemReport
    <3>2. reports[s].warnings = [x \in DOMAIN reports[s].assessments |-> Warning(reports[s].assessments[x])]
      BY <3>1, ReportFacts
    <3> QED
      BY <3>2
  <2>2. /\ levels \in SUBSET Level /\ a.overall \in levels
        /\ \A m \in levels : Rank(a.overall) <= Rank(m)
    BY ResourceFacts
  <2>3. a.overall = "None" <=> "None" \in levels
    BY <2>2 DEF Rank, Level
  <2>4. levels \subseteq {"Soft", "Hard"} <=> "None" \notin levels /\ "Unknown" \notin levels
    BY <2>2 DEF Level
  <2> QED
    BY <2>1, <2>3, <2>4 DEF Warning
<1> QED
  BY <1>1, Invariant, PTL

-----------------------------------------------------------------------------
(***************************************************************************)
(* The level of the report, and the bound beside it.                       *)
(***************************************************************************)
\* The level of a subsystem is that of a resource of it, unless it has none.
LEMMA SubsystemFacts ==
  ASSUME IInv, NEW s \in DOMAIN reports
  PROVE  LET a == reports[s].assessments IN
         /\ reports[s].level \in Level
         /\ DOMAIN a = {} => reports[s].level = "Hard"
         /\ DOMAIN a # {} => \E r \in DOMAIN a : reports[s].level = a[r].overall
         /\ \A r \in DOMAIN a : Rank(reports[s].level) <= Rank(a[r].overall)
<1> DEFINE a == reports[s].assessments
           overalls == {a[r].overall : r \in DOMAIN a}
<1>1. \A as : SubsystemReport(as).level = OverallLevel({as[r].overall : r \in DOMAIN as})
  BY DEF SubsystemReport
<1>2. reports[s].level = OverallLevel(overalls)
  BY <1>1, ReportFacts
<1>3. overalls \in SUBSET Level
  BY ResourceFacts
<1>4. /\ OverallLevel(overalls) \in Level
      /\ overalls = {} => OverallLevel(overalls) = "Hard"
      /\ overalls # {} => OverallLevel(overalls) \in overalls
      /\ \A m \in overalls : Rank(OverallLevel(overalls)) <= Rank(m)
  <2> HIDE DEF overalls
  <2> QED
    BY <1>3, OverallIsWorst
<1> QED
  BY <1>2, <1>4

LEMMA OverallFacts ==
  ASSUME IInv, reports # Empty
  PROVE  /\ \E s \in DOMAIN reports : OverallIsolation = reports[s].level
         /\ \A s \in DOMAIN reports : Rank(OverallIsolation) <= Rank(reports[s].level)
         /\ OverallIsolation \in Level
<1> DEFINE levels == {reports[s].level : s \in DOMAIN reports}
<1>1. levels \in SUBSET Level
  BY SubsystemFacts
<1>2. OverallIsolation = OverallLevel(levels)
  BY DEF OverallIsolation
<1>3. DOMAIN reports # {}
  BY DEF Empty
<1>4. levels # {}
  BY <1>3
<1>5. /\ OverallLevel(levels) \in levels
      /\ \A m \in levels : Rank(OverallLevel(levels)) <= Rank(m)
  <2> HIDE DEF levels
  <2> QED
    BY <1>1, <1>4, OverallIsWorst
<1> QED
  BY <1>1, <1>2, <1>5

\* WorstCase, for every catalogue: the level that is printed is the level of the worst of
\* all operations assessed, an unmeasured one ranking between unsafe and soft.
THEOREM WorstIsReported == Spec => []WorstCase
<1>1. IInv => WorstCase
  <2> SUFFICES ASSUME IInv PROVE WorstCase
    OBVIOUS
  <2>1. CASE IsolationsFound = {}
    <3> SUFFICES ASSUME reports # Empty PROVE OverallIsolation = "Hard"
      BY <2>1 DEF WorstCase
    <3>1. PICK s \in DOMAIN reports : OverallIsolation = reports[s].level
      BY OverallFacts
    <3>2. DOMAIN reports[s].assessments = {}
      BY <2>1, FoundLevels, ResourceFacts
    <3> QED
      BY <3>1, <3>2, SubsystemFacts
  <2>2. CASE IsolationsFound # {}
    <3>1. PICK s \in DOMAIN reports : DOMAIN reports[s].assessments # {}
      BY <2>2, FoundLevels
    <3>2. reports # Empty
      BY <3>1, EmptyFacts
    <3>3. ASSUME NEW l \in IsolationsFound
          PROVE  Rank(OverallIsolation) <= Rank(l)
      <4>1. PICK t \in DOMAIN reports : \E q \in DOMAIN reports[t].assessments :
              l \in Levels(reports[t].assessments[q].ops)
        BY FoundLevels
      <4>2. PICK q \in DOMAIN reports[t].assessments :
              l \in Levels(reports[t].assessments[q].ops)
        BY <4>1
      <4>3. /\ reports[t].assessments[q].overall \in Level /\ l \in Level
            /\ Rank(reports[t].assessments[q].overall) <= Rank(l)
        BY <4>2, ResourceFacts
      <4>4. /\ reports[t].level \in Level
            /\ Rank(reports[t].level) <= Rank(reports[t].assessments[q].overall)
        BY SubsystemFacts
      <4>5. Rank(OverallIsolation) <= Rank(reports[t].level) /\ OverallIsolation \in Level
        BY <3>2, OverallFacts
      <4> QED
        BY <4>3, <4>4, <4>5, RankFacts
    <3>4. OverallIsolation \in IsolationsFound
      <4>1. PICK t \in DOMAIN reports : OverallIsolation = reports[t].level
        BY <3>2, OverallFacts
      <4>2. CASE DOMAIN reports[t].assessments # {}
        BY <4>1, <4>2, SubsystemFacts, ResourceFacts, FoundLevels
      <4>3. CASE DOMAIN reports[t].assessments = {}
        <5>1. OverallIsolation = "Hard"
          BY <4>1, <4>3, SubsystemFacts
        <5>2. PICK l \in IsolationsFound : TRUE
          BY <2>2
        <5>3. l \in Level /\ 3 <= Rank(l)
          BY <5>1, <3>3, RankFacts, FoundAreLevels
        <5>4. l = "Hard"
          BY <5>3, RankFacts
        <5> QED
          BY <5>1, <5>4
      <4> QED
        BY <4>2, <4>3
    <3> QED
      BY <2>2, <3>3, <3>4 DEF WorstCase
  <2> QED
    BY <2>1, <2>2
<1> QED
  BY <1>1, Invariant, PTL

LEMMA MinKnownOfFacts ==
  ASSUME IInv, NEW s \in DOMAIN reports
  PROVE  LET a == reports[s].assessments IN
         /\ MinKnownOf(reports[s]) # "none" =>
              \E r \in DOMAIN a : a[r].overall = MinKnownOf(reports[s]) /\ a[r].overall # "Unknown"
         /\ (\E r \in DOMAIN a : a[r].overall = "None") => MinKnownOf(reports[s]) = "None"
<1> DEFINE a == reports[s].assessments
           overalls == {a[r].overall : r \in DOMAIN a}
<1>1. MinKnownOf(reports[s]) = MinKnownLevel(overalls)
  BY DEF MinKnownOf
<1>2. overalls \in SUBSET Level
  BY ResourceFacts
<1>3. /\ MinKnownLevel(overalls) # "none" => MinKnownLevel(overalls) \in overalls \ {"Unknown"}
      /\ "None" \in overalls => MinKnownLevel(overalls) = "None"
  <2> HIDE DEF overalls
  <2> QED
    BY <1>2, MinKnownIsKnown
<1> QED
  BY <1>1, <1>3

\* BoundIsMeasured, for every catalogue: the bound that is printed beside an unknown level
\* is the level of an operation that was measured.
THEOREM BoundsAreMeasured == Spec => []BoundIsMeasured
<1>1. IInv => BoundIsMeasured
  <2> SUFFICES ASSUME IInv PROVE BoundIsMeasured
    OBVIOUS
  <2> DEFINE known == {MinKnownOf(reports[s]) : s \in DOMAIN reports} \ {"none"}
  <2>1. MinKnownIsolation = IF known = {} THEN "none" ELSE Least(known)
    BY DEF MinKnownIsolation
  <2>2. known \subseteq IsolationsFound \ {"Unknown"}
    BY MinKnownOfFacts, ResourceFacts, FoundLevels
  <2>3. known \in SUBSET Level
    BY <2>2, FoundAreLevels
  <2>4. "None" \in IsolationsFound => "None" \in known
    <3> SUFFICES ASSUME "None" \in IsolationsFound PROVE "None" \in known
      OBVIOUS
    <3>1. PICK s \in DOMAIN reports : \E q \in DOMAIN reports[s].assessments :
            "None" \in Levels(reports[s].assessments[q].ops)
      BY FoundLevels
    <3>2. PICK r \in DOMAIN reports[s].assessments :
            "None" \in Levels(reports[s].assessments[r].ops)
      BY <3>1
    <3>3. reports[s].assessments[r].overall = "None"
      BY <3>2, ResourceFacts DEF Rank, Level
    <3> QED
      BY <3>3, MinKnownOfFacts
  <2> HIDE DEF known
  <2>5. known # {} => /\ Least(known) \in known
                     /\ \A m \in known : Rank(Least(known)) <= Rank(m)
    BY <2>3, LeastIsLeast
  <2>6. MinKnownIsolation # "none" => MinKnownIsolation \in IsolationsFound \ {"Unknown"}
    BY <2>1, <2>2, <2>5
  <2>7. "None" \in known => MinKnownIsolation = "None"
    BY <2>1, <2>3, <2>5 DEF Rank, Level
  <2> QED
    BY <2>4, <2>6, <2>7 DEF BoundIsMeasured
<1> QED
  BY <1>1, Invariant, PTL

=============================================================================
