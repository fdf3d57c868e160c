----------------------------- MODULE Assessment -----------------------------
(***************************************************************************)
(* The isolation assessment of src/src/assessment/mod.rs: the subsystems   *)
(* that are enabled are assessed one after the other, each resource by     *)
(* resource and operation by operation, and what the probes found is       *)
(* folded into the report that is printed and written as JSON.             *)
(*                                                                         *)
(* The probes themselves are left to other modules: here each answers what *)
(* it may answer, or fails.  An error or a panic of any of them ends the   *)
(* assessment.                                                             *)
(***************************************************************************)
EXTENDS Naturals, Sequences, FiniteSets

\* assess_multitenancy: the subsystems, in the order they are assessed.
Sequence == <<"control_plane", "storage", "network", "workload">>

Subsystems == {Sequence[i] : i \in 1 .. 4}

CONSTANT
  Catalogue   \* for each subsystem, how many operations apply to each of its resources

ASSUME CatalogueAssumption == Catalogue \in [Subsystems -> Seq(Nat)]

VARIABLES
  config,    \* the subsystems to assess
  pc,        \* where assess_multitenancy and run_assessment are
  sub,       \* the position in Sequence of the subsystem at hand
  res,       \* its resource at hand
  op,        \* the operation on it at hand
  ops,       \* ops_map: what was found of the resource at hand so far
  assessed,  \* assessments: the resources of the subsystem at hand that are done
  reports,   \* the subsystems that are done
  granted    \* history: whether the operation at hand, if taken as allowed, was granted

vars == <<config, pc, sub, res, op, ops, assessed, reports, granted>>

Empty == [x \in {} |-> x]
Put(f, key, value) ==
  [x \in DOMAIN f \union {key} |-> IF x = key THEN value ELSE f[x]]

-----------------------------------------------------------------------------
(***************************************************************************)
(* Isolation levels, worst first, and how a list of them is summed up.     *)
(***************************************************************************)
Level == {"None", "Unknown", "Soft", "Hard"}

Rank(level) ==
  IF level = "None" THEN 0
  ELSE IF level = "Unknown" THEN 1
  ELSE IF level = "Soft" THEN 2
  ELSE 3

Least(levels) == CHOOSE l \in levels : \A m \in levels : Rank(l) <= Rank(m)

\* compute_overall_isolation_level: nothing found wrong is Hard.
\* Mutant: what was not measured is left out.
OfTheMeasured(levels) ==
  IF levels \ {"Unknown"} = {} THEN "Hard" ELSE Least(levels \ {"Unknown"})
OverallLevel(levels) == IF levels = {} THEN "Hard" ELSE Least(levels)

\* compute_min_known_isolation_level; "none" is Option::None.
\* Mutant: an unknown level counts as a bound.
MinOfAll(levels) == IF levels = {} THEN "none" ELSE Least(levels)
MinKnownLevel(levels) ==
  IF levels \ {"Unknown"} = {} THEN "none" ELSE Least(levels \ {"Unknown"})

-----------------------------------------------------------------------------
(***************************************************************************)
(* What a probe may find.                                                  *)
(***************************************************************************)
\* Authorization::from_attempt, with admission_refusal.
FromAttempt(outcome) ==
  IF outcome = "ok" THEN "allowed"
  ELSE IF outcome = "refusal" THEN "forbidden"
  ELSE "undetermined"

\* Authorization::and: of two halves, a refusal, an inert answer and a failed probe
\* prevail in this order.
And(first, second) ==
  LET either == {first, second} IN
  IF "forbidden" \in either THEN "forbidden"
  ELSE IF "ineffective" \in either THEN "ineffective"
  ELSE IF "undetermined" \in either THEN "undetermined"
  ELSE "allowed"

\* What an attempt may come to: it is done, a policy refuses it, or something fails.
Outcomes == {"ok", "refusal", "fault"}

\* What an assessor makes of an answer, and whether the cluster granted what was asked.
Attempts == {[authorized |-> FromAttempt(o), granted |-> o = "ok"] : o \in Outcomes}

\* test_pv_creation_authorization asks for a review, which answers yes or no; whether
\* there was an answer is all that from_attempt looks at.
Reviews == {[authorized |-> FromAttempt(IF o = "fault" THEN o ELSE "ok"), granted |-> o = "ok"] :
              o \in Outcomes}

\* Four of the five operations of the control plane answer with a bool, which is false
\* for a refusal and for a failure alike.
Bools ==
  {[authorized |-> IF o = "ok" THEN "allowed" ELSE "forbidden", granted |-> o = "ok"] :
     o \in Outcomes}

\* Admitted by the control plane, without any effect.
Inert == [authorized |-> "ineffective", granted |-> FALSE]

\* Name resolution is taken to be open to everyone, without asking.
Presumed == [authorized |-> "allowed", granted |-> TRUE]

Both(first, second) ==
  [authorized |-> And(first.authorized, second.authorized),
   granted |-> first.granted /\ second.granted]

\* is_authorized of the four assessors.  Storage asks for a volume, by a review or an
\* attempt, and for a mount.
Answers(system) ==
  IF system = "storage"
    THEN Attempts \union {Both(v, m) : v \in Reviews \union Attempts, m \in Attempts}
  ELSE IF system = "control_plane"
    THEN Bools \union Attempts \union {Inert}
  ELSE IF system = "network" THEN Attempts \union {Presumed}
  ELSE Attempts

\* OperationAssessment.
Finding == [isolation : Level, autonomy : BOOLEAN]

\* What run_assessment makes of an operation it does not try across tenants.
Untried(authorized) ==
  [isolation |-> IF authorized = "forbidden" THEN "Soft"
                 ELSE IF authorized = "ineffective" THEN "Hard"
                 ELSE "Unknown",
   autonomy |-> authorized = "undetermined"]

-----------------------------------------------------------------------------
(***************************************************************************)
(* Reports.                                                                *)
(***************************************************************************)
Levels(findings) == {findings[o].isolation : o \in DOMAIN findings}

\* Every operation of every resource that was assessed.
Operations(assessments) ==
  UNION {{<<r, o>> : o \in DOMAIN assessments[r].ops} : r \in DOMAIN assessments}

\* ResourceAssessment.
ResourceReport(findings) == [ops |-> findings, overall |-> OverallLevel(Levels(findings))]

\* The warning about a resource.  Unsafe masks unknown.
Warning(a) ==
  IF a.overall = "None" THEN "unsafe"
  ELSE IF "Unknown" \in Levels(a.ops) THEN "unknown"
  ELSE "quiet"

\* SubsystemReport::calculate_autonomy_ratio.
AutonomyRatio(assessments) ==
  [allowed |-> Cardinality({ro \in Operations(assessments) :
                              assessments[ro[1]].ops[ro[2]].autonomy}),
   total |-> Cardinality(Operations(assessments))]

\* SubsystemReport.
SubsystemReport(assessments) ==
  [assessments |-> assessments,
   level |-> OverallLevel({assessments[r].overall : r \in DOMAIN assessments}),
   ratio |-> AutonomyRatio(assessments),
   warnings |-> [r \in DOMAIN assessments |-> Warning(assessments[r])]]

\* MultitenancyReport::overall_isolation.
OverallIsolation ==
  IF reports = Empty THEN "Unknown"
  ELSE OverallLevel({reports[s].level : s \in DOMAIN reports})

\* SubsystemReport::min_known_isolation looks at the resources, not the operations.
MinKnownOf(report) ==
  MinKnownLevel({report.assessments[r].overall : r \in DOMAIN report.assessments})

\* MultitenancyReport::min_known_isolation.
MinKnownIsolation ==
  LET known == {MinKnownOf(reports[s]) : s \in DOMAIN reports} \ {"none"} IN
  IF known = {} THEN "none" ELSE Least(known)

-----------------------------------------------------------------------------
(***************************************************************************)
(* The run.                                                                *)
(***************************************************************************)
\* AssessmentConfig::from_flags: no flag at all asks for everything.
FromFlags(flags) == IF flags = {} THEN Subsystems ELSE flags

System == Sequence[sub]
Resources == Catalogue[System]

Init ==
  /\ \E flags \in SUBSET Subsystems : config = FromFlags(flags)
  /\ pc = "systems" /\ sub = 1 /\ res = 1 /\ op = 1
  /\ ops = Empty /\ assessed = Empty /\ reports = Empty
  /\ granted = TRUE

\* The loop of assess_multitenancy.
SkipSystem ==
  /\ pc = "systems" /\ sub <= Len(Sequence) /\ System \notin config
  /\ sub' = sub + 1
  /\ UNCHANGED <<config, pc, res, op, ops, assessed, reports, granted>>

\* Mutant of BeginSystem: its resources are counted on from those of the last one.
CountOn ==
  /\ pc = "systems" /\ sub <= Len(Sequence) /\ System \in config
  /\ pc' = "resources" /\ assessed' = Empty
  /\ UNCHANGED <<config, sub, res, op, ops, reports, granted>>
BeginSystem ==
  /\ pc = "systems" /\ sub <= Len(Sequence) /\ System \in config
  /\ pc' = "resources" /\ res' = 1 /\ assessed' = Empty
  /\ UNCHANGED <<config, sub, op, ops, reports, granted>>

\* The loop of run_assessment over the resources; one without operations is left out.
SkipResource ==
  /\ pc = "resources" /\ res <= Len(Resources) /\ Resources[res] = 0
  /\ res' = res + 1
  /\ UNCHANGED <<config, pc, sub, op, ops, assessed, reports, granted>>

\* Mutant of BeginResource: the findings on the last resource are still there.
KeepOps ==
  /\ pc = "resources" /\ res <= Len(Resources) /\ Resources[res] # 0
  /\ pc' = "operations" /\ op' = 1
  /\ UNCHANGED <<config, sub, res, ops, assessed, reports, granted>>
BeginResource ==
  /\ pc = "resources" /\ res <= Len(Resources) /\ Resources[res] # 0
  /\ pc' = "operations" /\ op' = 1 /\ ops' = Empty
  /\ UNCHANGED <<config, sub, res, assessed, reports, granted>>

Record(finding) ==
  /\ ops' = Put(ops, op, finding) /\ op' = op + 1 /\ pc' = "operations"
  /\ granted' = TRUE
  /\ UNCHANGED <<config, sub, res, assessed, reports>>

\* An operation is attempted within the tenant's own namespace.
Authorize ==
  /\ pc = "operations" /\ op <= Resources[res]
  /\ \E answer \in Answers(System) :
       IF answer.authorized = "allowed"
         THEN /\ pc' = "allowed" /\ granted' = answer.granted
              /\ UNCHANGED <<config, sub, res, op, ops, assessed, reports>>
         ELSE Record(Untried(answer.authorized))

\* One that is allowed is then attempted across tenants.
Check == pc = "allowed" /\ \E finding \in Finding : Record(finding)

\* Either attempt may return an error, or panic: nothing is reported then, of the subsystems
\* that are done either.
Fails ==
  /\ pc = "allowed" \/ (pc = "operations" /\ op <= Resources[res])
  /\ pc' = "failed"
  /\ UNCHANGED <<config, sub, res, op, ops, assessed, reports, granted>>

CloseResource ==
  /\ pc = "operations" /\ op > Resources[res]
  /\ assessed' = Put(assessed, res, ResourceReport(ops))
  /\ res' = res + 1 /\ pc' = "resources"
  /\ UNCHANGED <<config, sub, op, ops, reports, granted>>

CloseSystem ==
  /\ pc = "resources" /\ res > Len(Resources)
  /\ reports' = Put(reports, System, SubsystemReport(assessed))
  /\ sub' = sub + 1 /\ pc' = "systems"
  /\ UNCHANGED <<config, res, op, ops, assessed, granted>>

\* The report is complete: verify prints it and writes it.
Report ==
  /\ pc = "systems" /\ sub > Len(Sequence)
  /\ pc' = "reported"
  /\ UNCHANGED <<config, sub, res, op, ops, assessed, reports, granted>>

Ended == pc \in {"reported", "failed"} /\ UNCHANGED vars

Next ==
  \/ SkipSystem \/ BeginSystem \/ SkipResource \/ BeginResource
  \/ Authorize \/ Check \/ Fails
  \/ CloseResource \/ CloseSystem \/ Report
  \/ Ended

Spec == Init /\ [][Next]_vars

-----------------------------------------------------------------------------
(***************************************************************************)
(* Properties.                                                             *)
(***************************************************************************)
Ratio == [allowed : Nat, total : Nat]

\* Every variable keeps its type, and the positions stay within the catalogue.
TypeOK ==
  /\ config \in SUBSET Subsystems
  /\ pc \in {"systems", "resources", "operations", "allowed", "reported", "failed"}
  /\ sub \in 1 .. Len(Sequence) + 1
  /\ pc \in {"resources", "operations", "allowed"} => sub \in 1 .. Len(Sequence)
  /\ pc = "resources" => res \in 1 .. Len(Resources) + 1
  /\ pc \in {"operations", "allowed"} =>
       /\ res \in 1 .. Len(Resources) /\ Resources[res] # 0
       /\ op \in 1 .. Resources[res] + 1
       /\ DOMAIN ops = 1 .. op - 1
       /\ ops \in [1 .. op - 1 -> Finding]
  /\ pc = "allowed" => op <= Resources[res]
  /\ granted \in BOOLEAN

\* The operations the report holds findings of, as <<resource, operation>>.
Found(s) == Operations(reports[s].assessments)

IsolationsFound ==
  UNION {{reports[s].assessments[ro[1]].ops[ro[2]].isolation : ro \in Found(s)} : s \in DOMAIN reports}

\* The level of the report is that of the worst of all its operations, three foldings
\* away (operations, resources, subsystems): one operation without isolation is never
\* averaged out, and one that was not measured is never passed over as safe.
WorstCase ==
  IF IsolationsFound = {}
    THEN reports # Empty => OverallIsolation = "Hard"
    ELSE /\ OverallIsolation \in IsolationsFound
         /\ \A l \in IsolationsFound : Rank(OverallIsolation) <= Rank(l)

\* The bound shown beside an unknown level was measured: some operation has that very
\* level, so that isolation is no better whatever the unknown ones would have shown; and
\* an operation without isolation is always the bound.
BoundIsMeasured ==
  /\ MinKnownIsolation # "none" => MinKnownIsolation \in IsolationsFound \ {"Unknown"}
  /\ "None" \in IsolationsFound => MinKnownIsolation = "None"

\* The warnings of a report single out exactly the resources that need a look: a resource
\* without one has only operations that were measured to be isolated.
DoubtIsFlagged ==
  \A s \in DOMAIN reports : \A r \in DOMAIN reports[s].assessments :
    LET warning == reports[s].warnings[r]
        levels == Levels(reports[s].assessments[r].ops)
    IN /\ warning = "unsafe" <=> "None" \in levels
       /\ warning = "unknown" <=> "Unknown" \in levels /\ "None" \notin levels
       /\ warning = "quiet" <=> levels \subseteq {"Soft", "Hard"}

\* properties_of: what the tool says it can assess of a subsystem.
Listed(system) ==
  UNION {{<<r, o>> : o \in 1 .. Catalogue[system][r]} : r \in 1 .. Len(Catalogue[system])}

\* A report that is printed covers the inventory: every listed operation of every
\* subsystem asked for has its finding, no other has one, and the autonomy ratio counts
\* each once.  What failed on the way has produced no report at all.
ReportIsComplete ==
  pc = "reported" =>
    /\ DOMAIN reports = config
    /\ \A s \in config :
         /\ Found(s) = Listed(s)
         /\ reports[s].ratio.total = Cardinality(Listed(s))

\* Authorization::Allowed: the tenant may perform the operation in its own namespace.
AllowedIsGranted == pc = "allowed" => granted

-----------------------------------------------------------------------------
(***************************************************************************)
(* Why the safety properties hold: what the lists of assessments and of    *)
(* reports hold at each point of the two loops.                            *)
(***************************************************************************)
\* The assessments of the first n resources of a system, each with all its operations.
Covers(assessments, system, n) ==
  /\ DOMAIN assessments = {r \in 1 .. n : Catalogue[system][r] # 0}
  /\ \A r \in DOMAIN assessments :
       /\ DOMAIN assessments[r].ops = 1 .. Catalogue[system][r]
       /\ Levels(assessments[r].ops) \subseteq Level
       /\ assessments[r].overall = OverallLevel(Levels(assessments[r].ops))

Looping == pc \in {"resources", "operations", "allowed"}

AssessedSoFar == Looping => System \in config /\ Covers(assessed, System, res - 1)

\* The subsystems the loop has left behind.
Behind == {Sequence[i] : i \in 1 .. sub - 1}

ReportedSoFar ==
  /\ DOMAIN reports = config \intersect Behind
  /\ \A s \in DOMAIN reports :
       /\ Covers(reports[s].assessments, s, Len(Catalogue[s]))
       /\ reports[s] = SubsystemReport(reports[s].assessments)

\* A report comes last.
LateEnough == pc = "reported" => sub = Len(Sequence) + 1

\* The inductive invariant.
IInv == TypeOK /\ AssessedSoFar /\ ReportedSoFar /\ LateEnough
=============================================================================
