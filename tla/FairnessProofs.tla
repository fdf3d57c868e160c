--------------------------- MODULE FairnessProofs ---------------------------
(***************************************************************************)
(* Theorems about Fairness, for any number of pods of either tenant, any   *)
(* options, any campaign and any number of mishaps.                        *)
(***************************************************************************)
EXTENDS Fairness, FiniteSetTheorems, TLAPS

-----------------------------------------------------------------------------
(***************************************************************************)
(* The objects of a phase.                                                 *)
(***************************************************************************)
LEMMA SizeFacts ==
  ASSUME options \in Options
  PROVE  \A t \in Tenants, p \in Phases :
           Multiplied(t, p) \in 0 .. Top /\ Measuring(t, p) \in 0 .. Top
BY PodsAssumption DEF Multiplied, Measuring, Top

LEMMA RowFacts ==
  ASSUME NEW part \in Parts, NEW t \in Tenants, NEW n \in 0 .. Top
  PROVE  Row(part, t, n) \in Seq(Name) /\ Members(Row(part, t, n)) \subseteq Name
<1>1. Top \in Nat
  BY PodsAssumption DEF Top
<1>2. \A i \in 1 .. n : [part |-> part, tenant |-> t, index |-> i] \in Name
  BY <1>1 DEF Name
<1>3. Row(part, t, n) \in [1 .. n -> Name]
  BY <1>2 DEF Row
<1>4. Row(part, t, n) \in Seq(Name)
  BY <1>1, <1>3
<1> QED
  BY <1>3, <1>4 DEF Members

LEMMA PartFacts ==
  /\ <<"network", "server">> \in Parts /\ <<"network", "probe">> \in Parts
  /\ <<"storage", "claim">> \in Parts /\ <<"storage", "probe">> \in Parts
  /\ <<"workload", "probe">> \in Parts /\ <<"workload", "noise">> \in Parts
BY DEF Parts

LEMMA RowsFacts ==
  ASSUME options \in Options, NEW t \in Tenants, NEW p \in Phases
  PROVE  /\ {Servers(t, p), Pings(t, p), Claims(t, p), Fios(t, p), Sysbenches(t, p), Noises(t, p)}
              \subseteq Seq(Name)
         /\ \A seq \in Seq(Name) : Members(seq) \subseteq Name
<1>1. Multiplied(t, p) \in 0 .. Top /\ Measuring(t, p) \in 0 .. Top /\ 0 \in 0 .. Top
  BY SizeFacts, PodsAssumption DEF Top
<1>2. Servers(t, p) \in Seq(Name) /\ Pings(t, p) \in Seq(Name) /\ Fios(t, p) \in Seq(Name)
  BY <1>1, PartFacts, RowFacts DEF Servers, Pings, Fios
<1>3. Claims(t, p) \in Seq(Name)
  BY <1>1, PartFacts, RowFacts DEF Claims
<1>4. Sysbenches(t, p) \in Seq(Name) /\ Noises(t, p) \in Seq(Name)
  BY <1>1, PartFacts, RowFacts DEF Sysbenches, Noises
<1>5. \A seq \in Seq(Name) : Members(seq) \subseteq Name
  BY DEF Members
<1> QED
  BY <1>2, <1>3, <1>4, <1>5

LEMMA CreationFacts ==
  ASSUME options \in Options, NEW s \in Subsystems, NEW t \in Tenants, NEW p \in Phases
  PROVE  /\ FirstOf(s, t, p) \in Seq(Name) /\ SecondOf(s, t, p) \in Seq(Name)
         /\ ProbesOf(s, t, p) \subseteq Name
         /\ ProbesOf(s, t, p) \subseteq Members(FirstOf(s, t, p)) \union Members(SecondOf(s, t, p))
<1>1. CASE s = "control"
  <2>1. FirstOf(s, t, p) = <<>> /\ SecondOf(s, t, p) = <<>> /\ ProbesOf(s, t, p) = Members(<<>>)
    BY <1>1 DEF FirstOf, SecondOf, ProbesOf
  <2> QED
    BY <2>1 DEF Members
<1>2. CASE s = "network"
  <2>1. FirstOf(s, t, p) = Servers(t, p) /\ SecondOf(s, t, p) = Pings(t, p)
        /\ ProbesOf(s, t, p) = Members(Pings(t, p))
    BY <1>2 DEF FirstOf, SecondOf, ProbesOf
  <2> QED
    BY <2>1, RowsFacts
<1>3. CASE s = "storage"
  <2>1. FirstOf(s, t, p) = Claims(t, p) \o Fios(t, p) /\ SecondOf(s, t, p) = <<>>
        /\ ProbesOf(s, t, p) = Members(Fios(t, p))
    BY <1>3 DEF FirstOf, SecondOf, ProbesOf
  <2>2. Claims(t, p) \in Seq(Name) /\ Fios(t, p) \in Seq(Name)
    BY RowsFacts
  <2> DEFINE c == Claims(t, p)  f == Fios(t, p)
  <2> HIDE DEF c, f
  <2>3. c \in Seq(Name) /\ f \in Seq(Name) => c \o f \in Seq(Name) /\ Members(f) \subseteq Members(c \o f)
    <3>1. SUFFICES ASSUME c \in Seq(Name), f \in Seq(Name)
                   PROVE  c \o f \in Seq(Name) /\ Members(f) \subseteq Members(c \o f)
      OBVIOUS
    <3>2. c \o f \in Seq(Name) /\ Len(c \o f) = Len(c) + Len(f)
      BY <3>1
    <3>3. \A i \in 1 .. Len(f) : f[i] = (c \o f)[Len(c) + i] /\ Len(c) + i \in 1 .. Len(c) + Len(f)
      BY <3>1
    <3>4. DOMAIN f = 1 .. Len(f) /\ DOMAIN (c \o f) = 1 .. Len(c) + Len(f)
      BY <3>1, <3>2
    <3>5. \A i \in DOMAIN f : \E k \in DOMAIN (c \o f) : f[i] = (c \o f)[k]
      BY <3>3, <3>4
    <3> QED
      BY <3>2, <3>5 DEF Members
  <2> QED
    BY <2>1, <2>2, <2>3, RowsFacts DEF c, f
<1>4. CASE s = "workload"
  <2>1. FirstOf(s, t, p) = Sysbenches(t, p) /\ SecondOf(s, t, p) = Noises(t, p)
        /\ ProbesOf(s, t, p) = Members(Sysbenches(t, p))
    BY <1>4 DEF FirstOf, SecondOf, ProbesOf
  <2> QED
    BY <2>1, RowsFacts
<1> QED
  BY <1>1, <1>2, <1>3, <1>4 DEF Subsystems

LEMMA RemovalFacts ==
  ASSUME options \in Options, NEW s \in Subsystems, NEW p \in Phases
  PROVE  Removals(s, p) \in Seq(SUBSET Name)
<1>1. \A t \in Tenants :
        {Members(Servers(t, p)), Members(Pings(t, p)), Members(Claims(t, p)), Members(Fios(t, p)),
         Members(Sysbenches(t, p)), Members(Noises(t, p))} \subseteq SUBSET Name
  BY RowsFacts
<1>2. "owner" \in Tenants /\ "intruder" \in Tenants
  BY DEF Tenants
<1>3. UNION {Members(Servers(t, p)) \union Members(Pings(t, p)) : t \in Tenants} \subseteq Name
  BY <1>1
<1>4. NetworkRemovals(p) \in Seq(SUBSET Name)
  BY <1>3 DEF NetworkRemovals
<1>5. StorageRemovals(p) \in Seq(SUBSET Name)
  BY <1>1, <1>2 DEF StorageRemovals
<1>6. WorkloadRemovals(p) \in Seq(SUBSET Name)
  BY <1>1, <1>2 DEF WorkloadRemovals
<1>7. /\ s = "network" => Removals(s, p) = NetworkRemovals(p)
      /\ s = "storage" => Removals(s, p) = StorageRemovals(p)
      /\ s = "workload" => Removals(s, p) = WorkloadRemovals(p)
      /\ s = "control" => Removals(s, p) = <<>>
  BY DEF Removals
<1>8. <<>> \in Seq(SUBSET Name)
  OBVIOUS
<1>9. s = "network" \/ s = "storage" \/ s = "workload" \/ s = "control"
  BY DEF Subsystems
<1> QED
  BY <1>4, <1>5, <1>6, <1>7, <1>8, <1>9

\* Only the intruder makes noise, and so nobody else creates anything with it.
LEMMA MakersFacts ==
  ASSUME NEW p \in Phases
  PROVE  SecondOf("workload", "owner", p) = <<>>
<1>1. SecondOf("workload", "owner", p) = Noises("owner", p)
  BY DEF SecondOf
<1>2. Noises("owner", p) = <<>>
  BY DEF Noises, Makes, Row
<1> QED
  BY <1>1, <1>2

LEMMA NameFinite == IsFiniteSet(Name)
<1> DEFINE Triples == (Parts \X Tenants) \X (1 .. Top)
           f == [x \in Triples |-> [part |-> x[1][1], tenant |-> x[1][2], index |-> x[2]]]
<1>1. IsFiniteSet(Parts) /\ IsFiniteSet(Tenants)
  <2>1. \A x, y : IsFiniteSet({x, y})
    <3>1. SUFFICES ASSUME NEW x, NEW y PROVE IsFiniteSet({x, y})
      OBVIOUS
    <3>2. IsFiniteSet({x}) /\ IsFiniteSet({y})
      BY FS_Singleton
    <3>3. {x, y} = {x} \union {y}
      OBVIOUS
    <3> QED
      BY <3>2, <3>3, FS_Union
  <2>2. Parts = {<<"network", "server">>, <<"network", "probe">>}
                  \union ({<<"storage", "claim">>, <<"storage", "probe">>}
                           \union {<<"workload", "probe">>, <<"workload", "noise">>})
    BY DEF Parts
  <2>3. IsFiniteSet({<<"storage", "claim">>, <<"storage", "probe">>}
                    \union {<<"workload", "probe">>, <<"workload", "noise">>})
    BY <2>1, FS_Union
  <2> QED
    BY <2>1, <2>2, <2>3, FS_Union DEF Tenants
<1>2. IsFiniteSet(1 .. Top)
  BY PodsAssumption, FS_Interval DEF Top
<1>3. IsFiniteSet(Triples)
  BY <1>1, <1>2, FS_Product
<1>4. f \in Surjection(Triples, Name)
  <2>1. f \in [Triples -> Name]
    BY DEF Name
  <2>2. \A n \in Name : n.part \in Parts /\ n.tenant \in Tenants /\ n.index \in 1 .. Top
                        /\ n = [part |-> n.part, tenant |-> n.tenant, index |-> n.index]
    BY DEF Name
  <2>3. \A n \in Name : \E x \in Triples : f[x] = n
    <3>1. TAKE n \in Name
    <3> DEFINE x == <<<<n.part, n.tenant>>, n.index>>
    <3>2. x \in Triples
      BY <2>2
    <3>3. f[x] = [part |-> n.part, tenant |-> n.tenant, index |-> n.index]
      BY <3>2
    <3>4. f[x] = n
      BY <3>3, <2>2
    <3> QED
      BY <3>2, <3>4
  <2> HIDE DEF f, Triples
  <2> QED
    BY <2>1, <2>3 DEF Surjection
<1> HIDE DEF Triples, f
<1> QED
  BY <1>3, <1>4, FS_Surjection

LEMMA FirstFacts ==
  ASSUME todo \subseteq Subsystems, todo # {}
  PROVE  First(todo) \in todo
<1> DEFINE Is(i) == Order[i] \in todo /\ \A j \in 1 .. i - 1 : Order[j] \notin todo
<1>1. /\ Order[1] = "control" /\ Order[2] = "network" /\ Order[3] = "storage"
      /\ Order[4] = "workload"
  BY DEF Order
<1>2. \E i \in 1 .. 4 : Is(i)
  <2>1. CASE "control" \in todo
    <3>1. Is(1)
      BY <1>1, <2>1
    <3> QED
      BY <3>1
  <2>2. CASE "control" \notin todo /\ "network" \in todo
    <3>1. \A j \in 1 .. 2 - 1 : j = 1
      OBVIOUS
    <3>2. Is(2)
      BY <1>1, <2>2, <3>1
    <3> QED
      BY <3>2
  <2>3. CASE "control" \notin todo /\ "network" \notin todo /\ "storage" \in todo
    <3>1. \A j \in 1 .. 3 - 1 : j = 1 \/ j = 2
      OBVIOUS
    <3>2. Is(3)
      BY <1>1, <2>3, <3>1
    <3> QED
      BY <3>2
  <2>4. CASE "control" \notin todo /\ "network" \notin todo /\ "storage" \notin todo
    <3>1. \A j \in 1 .. 4 - 1 : j = 1 \/ j = 2 \/ j = 3
      OBVIOUS
    <3>2. "workload" \in todo
      BY <2>4 DEF Subsystems
    <3>3. Is(4)
      BY <1>1, <2>4, <3>1, <3>2
    <3> QED
      BY <3>3
  <2> QED
    BY <2>1, <2>2, <2>3, <2>4
<1>3. Is(CHOOSE i \in 1 .. 4 : Is(i))
  <2> HIDE DEF Is
  <2> QED
    BY <1>2
<1> QED
  BY <1>3 DEF First

-----------------------------------------------------------------------------
(***************************************************************************)
(* The options never change, and so the objects of a phase are the same    *)
(* before and after a step.                                                *)
(***************************************************************************)
LEMMA SameRows ==
  ASSUME options' = options, NEW s, NEW t, NEW p
  PROVE  /\ ProbesOf(s, t, p)' = ProbesOf(s, t, p)
         /\ FirstOf(s, t, p)' = FirstOf(s, t, p)
         /\ SecondOf(s, t, p)' = SecondOf(s, t, p)
<1>1. ProbesOf(s, t, p)' = ProbesOf(s, t, p)
  BY DEF ProbesOf, Pings, Fios, Sysbenches, Measuring, Makes
<1>2. FirstOf(s, t, p)' = FirstOf(s, t, p)
  BY DEF FirstOf, Servers, Claims, Fios, Sysbenches, Measuring, Makes
<1>3. SecondOf(s, t, p)' = SecondOf(s, t, p)
  BY DEF SecondOf, Pings, Noises, Makes
<1> QED
  BY <1>1, <1>2, <1>3

LEMMA SameProbes ==
  ASSUME options' = options, NEW s, NEW p, sub' = s, phase' = p
  PROVE  SamplesAreFresh' <=>
           (pc' \in {"wait", "collect"} =>
              \A t \in Tenants : \A n \in ProbesOf(s, t, p) : pods'[n] = "present" /\ n \in fresh')
<1>1. \A t \in Tenants : ProbesOf(s, t, p)' = ProbesOf(s, t, p)
  BY SameRows
<1> QED
  BY <1>1 DEF SamplesAreFresh, Probes

LEMMA SameObjects ==
  ASSUME options' = options, NEW s, NEW p, sub' = s, phase' = p
  PROVE  ProbesSoFar' <=>
           /\ pc' \in {"preclean", "create", "second"} => s # "control"
           /\ pc' = "preclean" => /\ open' = Tenants
                                  /\ pending' = [t \in Tenants |-> FirstOf(s, t, p)]
           /\ pc' \in {"create", "second"} => \A t \in Tenants :
                /\ t \notin open' => pending'[t] = <<>>
                /\ \A n \in ProbesOf(s, t, p) :
                     \/ pods'[n] = "present" /\ n \in fresh'
                     \/ n \in Members(pending'[t])
                     \/ pc' = "create" /\ n \in Members(SecondOf(s, t, p))
<1>1. \A t \in Tenants : ProbesOf(s, t, p)' = ProbesOf(s, t, p)
  BY SameRows
<1>2. \A t \in Tenants : FirstOf(s, t, p)' = FirstOf(s, t, p)
  BY SameRows
<1>3. \A t \in Tenants : SecondOf(s, t, p)' = SecondOf(s, t, p)
  BY SameRows
<1> QED
  BY <1>1, <1>2, <1>3 DEF ProbesSoFar, Creating, Standing, ToCome

LEMMA NowProbes ==
  /\ SamplesAreFresh <=>
       (pc \in {"wait", "collect"} =>
          \A t \in Tenants : \A n \in ProbesOf(sub, t, phase) : pods[n] = "present" /\ n \in fresh)
  /\ ProbesSoFar <=>
       /\ pc \in {"preclean", "create", "second"} => sub # "control"
       /\ pc = "preclean" => /\ open = Tenants
                             /\ pending = [t \in Tenants |-> FirstOf(sub, t, phase)]
       /\ pc \in {"create", "second"} => \A t \in Tenants :
            /\ t \notin open => pending[t] = <<>>
            /\ \A n \in ProbesOf(sub, t, phase) :
                 \/ pods[n] = "present" /\ n \in fresh
                 \/ n \in Members(pending[t])
                 \/ pc = "create" /\ n \in Members(SecondOf(sub, t, phase))
BY DEF SamplesAreFresh, Probes, ProbesSoFar, Creating, Standing, ToCome

-----------------------------------------------------------------------------
(***************************************************************************)
(* The beginning, and the command.                                         *)
(***************************************************************************)
LEMMA InitInvariant == Init => IInv
<1> SUFFICES ASSUME Init PROVE IInv
  OBVIOUS
<1> USE DEF Init
<1>1. campaign \in Seq(SUBSET Subsystems)
  BY CampaignAssumption
<1>2. TypeOK
  <2>1. <<>> \in Seq(Name) /\ <<>> \in Seq(SUBSET Name)
    OBVIOUS
  <2>2. pods \in [Name -> Status] /\ samples \in [Phases -> [Tenants -> Amounts]]
        /\ pending \in [Tenants -> Seq(Name)]
    BY <2>1 DEF Status, Unmeasured, Amounts, Idle
  <2> QED
    BY <1>1, <2>1, <2>2, PodsAssumption DEF TypeOK, Subsystems, Phases, Labels
<1>3. Accounted /\ Exported /\ CompleteSoFar /\ ProbesSoFar /\ SamplesAreFresh
  BY DEF Accounted, InCommand, InSubsystem, Exported, CompleteSoFar, ProbesSoFar, Creating,
         SamplesAreFresh
<1> QED
  BY <1>2, <1>3 DEF IInv

LEMMA StartStep == IInv /\ StartCommand => IInv'
<1> SUFFICES ASSUME IInv, StartCommand PROVE IInv'
  OBVIOUS
<1>1. /\ pc = "start" /\ pc' = "next" /\ campaign # <<>> /\ todo' = Head(campaign)
      /\ results' = {} /\ failed' = {} /\ files' = {}
      /\ UNCHANGED <<options, campaign, sub, phase, pods, fresh, pending, open, jobs, samples, undeleted, abandoned, mishaps>>
  BY DEF StartCommand, Goto, World, History
<1>2. Head(campaign) \subseteq Subsystems
  BY <1>1 DEF IInv, TypeOK
<1>3. TypeOK'
  BY <1>1, <1>2 DEF IInv, TypeOK, Labels
<1>4. ReportedSubs' = {}
  BY <1>1 DEF ReportedSubs
<1>5. Accounted' /\ Exported'
  BY <1>1, <1>4 DEF Accounted, InCommand, InSubsystem, Exported
<1>6. CompleteSoFar' /\ ProbesSoFar' /\ SamplesAreFresh'
  BY <1>1 DEF CompleteSoFar, InSubsystem, ProbesSoFar, Creating, SamplesAreFresh
<1> QED
  BY <1>3, <1>5, <1>6 DEF IInv

LEMMA StartFailsStep == IInv /\ StartFails => IInv'
<1> SUFFICES ASSUME IInv, StartFails PROVE IInv'
  OBVIOUS
<1>1. /\ pc = "start" /\ campaign # <<>> /\ campaign' = Tail(campaign)
      /\ mishaps + 1 <= Mishaps /\ mishaps' = mishaps + 1
      /\ UNCHANGED <<options, todo, sub, phase, pc, pods, fresh, pending, open, jobs, samples,
                    results, failed, files, undeleted, abandoned>>
  BY DEF StartFails, GoesWrong, World, Measured, History
<1>2. TypeOK'
  BY <1>1, PodsAssumption DEF IInv, TypeOK
<1>3. ReportedSubs' = ReportedSubs
  BY <1>1 DEF ReportedSubs
<1>4. Accounted' /\ Exported'
  BY <1>1, <1>3 DEF IInv, Accounted, InCommand, InSubsystem, Exported
<1>5. CompleteSoFar' /\ ProbesSoFar' /\ SamplesAreFresh'
  BY <1>1 DEF CompleteSoFar, InSubsystem, InCommand, ProbesSoFar, Creating, SamplesAreFresh
<1> QED
  BY <1>2, <1>4, <1>5 DEF IInv

\* However a phase begins: all that it is to make is still to come.
LEMMA BeginFacts ==
  ASSUME IInv, NEW s \in Subsystems, NEW p \in Phases, BeginPhase(s, p), options' = options
  PROVE  /\ sub' = s /\ phase' = p /\ fresh' = {} /\ pc' \in {"load", "preclean", "create"}
         /\ pending' \in [Tenants -> Seq(Name)] /\ open' \subseteq Tenants
         /\ jobs' \in Seq(SUBSET Name) /\ undeleted' \subseteq Name /\ abandoned' \subseteq Name
         /\ ProbesSoFar' /\ SamplesAreFresh'
<1>1. /\ sub' = s /\ phase' = p /\ pc' = Entry(s) /\ fresh' = {}
      /\ jobs' = (IF Entry(s) = "preclean" THEN Removals(s, p) ELSE <<>>)
      /\ pending' = [t \in Tenants |-> FirstOf(s, t, p)]
      /\ open' = (IF s = "control" THEN {} ELSE Tenants)
      /\ UNCHANGED <<undeleted, abandoned>>
  BY DEF BeginPhase, Goto, History
<1>2. options \in Options /\ undeleted \subseteq Name /\ abandoned \subseteq Name
  BY DEF IInv, TypeOK
<1>3. Removals(s, p) \in Seq(SUBSET Name) /\ <<>> \in Seq(SUBSET Name)
  BY <1>2, RemovalFacts
<1>4. \A t \in Tenants : FirstOf(s, t, p) \in Seq(Name)
  BY <1>2, CreationFacts
<1>5. pending' \in [Tenants -> Seq(Name)]
  BY <1>1, <1>4
<1>6. \A t \in Tenants : ProbesOf(s, t, p) \subseteq Members(FirstOf(s, t, p)) \union Members(SecondOf(s, t, p))
  BY <1>2, CreationFacts
<1>7. /\ pc' \in {"load", "preclean", "create"}
      /\ pc' \in {"preclean", "create", "second"} => s # "control"
  BY <1>1 DEF Entry
<1>8. ProbesSoFar'
  <2>1. \A t \in Tenants : pending'[t] = FirstOf(s, t, p)
    BY <1>1
  <2> QED
    BY <1>1, <1>6, <1>7, <2>1, SameObjects
<1>9. SamplesAreFresh'
  BY <1>7 DEF SamplesAreFresh
<1> QED
  BY <1>1, <1>2, <1>3, <1>5, <1>7, <1>8, <1>9

LEMMA NextSubsystemStep == IInv /\ NextSubsystem => IInv'
<1> SUFFICES ASSUME IInv, NextSubsystem PROVE IInv'
  OBVIOUS
<1> DEFINE s == First(todo)
<1>1. /\ pc = "next" /\ todo # {} /\ BeginPhase(s, "baseline") /\ todo' = todo \ {s}
      /\ UNCHANGED <<options, campaign, pods, failed, mishaps, samples, results, files>>
  BY DEF NextSubsystem, Measured
<1>2. s \in todo /\ s \in Subsystems
  BY <1>1, FirstFacts DEF IInv, TypeOK
<1> HIDE DEF s
<1>3. /\ sub' = s /\ phase' = "baseline" /\ fresh' = {} /\ pc' \in {"load", "preclean", "create"}
      /\ pending' \in [Tenants -> Seq(Name)] /\ open' \subseteq Tenants
      /\ jobs' \in Seq(SUBSET Name) /\ undeleted' \subseteq Name /\ abandoned' \subseteq Name
      /\ ProbesSoFar' /\ SamplesAreFresh'
  BY <1>1, <1>2, BeginFacts DEF Phases
<1>4. TypeOK'
  BY <1>1, <1>2, <1>3 DEF IInv, TypeOK, Labels, Phases
<1>5. ReportedSubs' = ReportedSubs
  BY <1>1 DEF ReportedSubs
<1>6. Accounted'
  BY <1>1, <1>2, <1>3, <1>5 DEF IInv, Accounted, InCommand, InSubsystem
<1>7. Exported'
  BY <1>1, <1>3, <1>5 DEF IInv, Exported
<1>8. CompleteSoFar'
  BY <1>3 DEF CompleteSoFar
<1> QED
  BY <1>3, <1>4, <1>6, <1>7, <1>8 DEF IInv

\* Between the subsystems nothing is under way.
LEMMA CommandStep == IInv /\ (Summarise \/ EndCommand \/ NextCommand) => IInv'
<1> SUFFICES ASSUME IInv, Summarise \/ EndCommand \/ NextCommand PROVE IInv'
  OBVIOUS
<1>1. /\ UNCHANGED <<options, todo, sub, phase, pods, fresh, pending, open, jobs, samples,
                    results, failed, files, undeleted, abandoned, mishaps>>
      /\ \/ pc = "next" /\ todo = {} /\ pc' = "summary" /\ campaign' = campaign
         \/ pc = "summary" /\ pc' \in {"over", "panicked"} /\ campaign' = campaign
         \/ pc' = "start" /\ campaign # <<>> /\ campaign' = Tail(campaign)
  BY DEF Summarise, EndCommand, NextCommand, Goto, Plan, Measured, World, Course, History
<1>2. TypeOK'
  <2>1. campaign \in Seq(SUBSET Subsystems)
    BY DEF IInv, TypeOK
  <2>2. campaign' \in Seq(SUBSET Subsystems)
    BY <1>1, <2>1
  <2>3. pc' \in Labels
    BY <1>1 DEF Labels
  <2> QED
    BY <1>1, <2>2, <2>3 DEF IInv, TypeOK
<1>3. ReportedSubs' = ReportedSubs
  BY <1>1 DEF ReportedSubs
<1>4. Accounted'
  BY <1>1, <1>3 DEF IInv, Accounted, InCommand, InSubsystem
<1>5. Exported'
  BY <1>1, <1>3 DEF IInv, Exported
<1>6. CompleteSoFar' /\ ProbesSoFar' /\ SamplesAreFresh'
  BY <1>1 DEF CompleteSoFar, InSubsystem, InCommand, ProbesSoFar, Creating, SamplesAreFresh
<1> QED
  BY <1>2, <1>4, <1>5, <1>6 DEF IInv

-----------------------------------------------------------------------------
(***************************************************************************)
(* A phase.                                                                *)
(***************************************************************************)
\* What a step leaves behind that gives up on its subsystem.
LEMMA GiveUpFacts ==
  ASSUME IInv, InSubsystem, GiveUp, undeleted' \subseteq Name,
         UNCHANGED <<options, campaign, todo, sub, phase, results>>,
         pods' \in [Name -> Status], fresh' \subseteq Name, mishaps' \in 0 .. Mishaps,
         NEW tables, tables \subseteq {<<sub, p>> : p \in Phases}, files' = files \union tables
  PROVE  IInv'
<1>1. /\ pc' = "next" /\ failed' = failed \union {sub}
      /\ samples' = Unmeasured /\ pending' = Idle /\ open' = {} /\ jobs' = <<>>
      /\ abandoned' = {n \in abandoned \union fresh' : pods'[n] = "present" /\ n \notin undeleted'}
  BY DEF GiveUp, Goto, Abandon
<1>2. TypeOK'
  <2>1. Idle \in [Tenants -> Seq(Name)] /\ Unmeasured \in [Phases -> [Tenants -> Amounts]]
        /\ <<>> \in Seq(SUBSET Name)
    BY DEF Idle, Unmeasured, Amounts
  <2>2. sub \in Subsystems /\ abandoned \subseteq Name /\ failed \subseteq Subsystems
        /\ files \subseteq Subsystems \X {"baseline", "unbalanced", "manifest"}
    BY DEF IInv, TypeOK
  <2>3. abandoned' \subseteq Name
    BY <1>1, <2>2
  <2>4. files' \subseteq Subsystems \X {"baseline", "unbalanced", "manifest"}
    BY <2>2 DEF Phases
  <2>5. pc' \in Labels
    BY <1>1 DEF Labels
  <2> QED
    BY <1>1, <2>1, <2>2, <2>3, <2>4, <2>5 DEF IInv, TypeOK
<1>3. ReportedSubs' = ReportedSubs
  BY DEF ReportedSubs
<1>4. Accounted'
  BY <1>1, <1>3 DEF IInv, Accounted, InCommand, InSubsystem
<1>5. Exported'
  <2>1. \A s \in Subsystems : <<s, "manifest">> \in files' => <<s, "manifest">> \in files
    BY DEF Phases
  <2> QED
    BY <1>1, <1>3, <2>1 DEF IInv, Exported
<1>6. CompleteSoFar' /\ ProbesSoFar' /\ SamplesAreFresh'
  BY <1>1 DEF CompleteSoFar, InSubsystem, InCommand, ProbesSoFar, Creating, SamplesAreFresh
<1> QED
  BY <1>2, <1>4, <1>5, <1>6 DEF IInv

\* A failure on its own.
LEMMA FailFacts ==
  ASSUME IInv, InSubsystem, Fail,
         UNCHANGED <<options, campaign, todo, sub, phase, results>>,
         pods' \in [Name -> Status], fresh' \subseteq Name,
         NEW tables, tables \subseteq {<<sub, p>> : p \in Phases}, files' = files \union tables
  PROVE  IInv'
<1>1. mishaps' \in 0 .. Mishaps /\ GiveUp /\ undeleted' \subseteq Name
  BY PodsAssumption DEF Fail, GoesWrong, IInv, TypeOK
<1> QED
  BY <1>1, GiveUpFacts

\* The next phase, or the verdict: as long as this one has measured what it should.
LEMMA NextPhaseFacts ==
  ASSUME IInv, InSubsystem, NextPhase,
         UNCHANGED <<options, campaign, todo, pods, results, failed, files, mishaps>>,
         samples' \in [Phases -> [Tenants -> Amounts]],
         sub = "storage" => /\ \A t \in Tenants : samples'["baseline"][t] = "all"
                            /\ phase = "unbalanced" =>
                                 \A t \in Tenants : samples'["unbalanced"][t] = "all"
  PROVE  IInv'
<1>1. ReportedSubs' = ReportedSubs
  BY DEF ReportedSubs
<1>2. sub \in Subsystems /\ phase \in Phases
  BY DEF IInv, TypeOK
<1>3. CASE phase = "baseline"
  <2>1. BeginPhase(sub, "unbalanced") /\ "unbalanced" \in Phases
    BY <1>3 DEF NextPhase, Phases
  <2>2. /\ sub' = sub /\ phase' = "unbalanced" /\ fresh' = {}
        /\ pc' \in {"load", "preclean", "create"}
        /\ pending' \in [Tenants -> Seq(Name)] /\ open' \subseteq Tenants
        /\ jobs' \in Seq(SUBSET Name) /\ undeleted' \subseteq Name /\ abandoned' \subseteq Name
        /\ ProbesSoFar' /\ SamplesAreFresh'
    BY <1>2, <2>1, BeginFacts
  <2>3. TypeOK'
    BY <2>2 DEF IInv, TypeOK, Labels, Phases
  <2>4. Accounted'
    BY <1>1, <2>2 DEF IInv, Accounted, InCommand, InSubsystem
  <2>5. Exported'
    BY <1>1, <2>2 DEF IInv, Exported
  <2>6. CompleteSoFar'
    BY <2>2 DEF CompleteSoFar
  <2> QED
    BY <2>2, <2>3, <2>4, <2>5, <2>6 DEF IInv
<1>4. CASE phase = "unbalanced"
  <2>1. pc' = "judge" /\ UNCHANGED <<sub, phase, fresh, jobs, pending, open, undeleted, abandoned>>
    BY <1>4 DEF NextPhase, Goto, History
  <2>2. TypeOK'
    BY <2>1 DEF IInv, TypeOK, Labels
  <2>3. Accounted'
    BY <1>1, <2>1 DEF IInv, Accounted, InCommand, InSubsystem
  <2>4. Exported'
    BY <1>1, <2>1 DEF IInv, Exported
  <2>5. CompleteSoFar'
    BY <1>4, <2>1 DEF CompleteSoFar
  <2>6. ProbesSoFar' /\ SamplesAreFresh'
    BY <2>1 DEF ProbesSoFar, Creating, SamplesAreFresh
  <2> QED
    BY <2>2, <2>3, <2>4, <2>5, <2>6 DEF IInv
<1> QED
  BY <1>2, <1>3, <1>4 DEF Phases

LEMMA LoadStep == IInv /\ Load => IInv'
<1> SUFFICES ASSUME IInv, Load PROVE IInv'
  OBVIOUS
<1>1. /\ pc = "load" /\ NextPhase
      /\ samples' = [samples EXCEPT ![phase] = [t \in Tenants |-> "all"]]
      /\ UNCHANGED <<options, campaign, todo, pods, results, failed, files, mishaps>>
  BY DEF Load
<1>2. InSubsystem
  BY <1>1 DEF InSubsystem, InCommand
<1>3. samples \in [Phases -> [Tenants -> Amounts]] /\ phase \in Phases
  BY DEF IInv, TypeOK
<1>4. samples' \in [Phases -> [Tenants -> Amounts]]
  BY <1>1, <1>3 DEF Amounts
<1>5. \A t \in Tenants : samples'[phase][t] = "all"
  BY <1>1, <1>3
<1>6. phase = "unbalanced" => samples'["baseline"] = samples["baseline"]
  BY <1>1, <1>3 DEF Phases
<1>7. sub = "storage" /\ phase = "unbalanced" => \A t \in Tenants : samples["baseline"][t] = "all"
  BY <1>2 DEF IInv, CompleteSoFar
<1>8. phase = "baseline" \/ phase = "unbalanced"
  BY <1>3 DEF Phases
<1> QED
  BY <1>1, <1>2, <1>4, <1>5, <1>6, <1>7, <1>8, NextPhaseFacts

LEMMA CleanedStep == IInv /\ Cleaned => IInv'
<1> SUFFICES ASSUME IInv, Cleaned PROVE IInv'
  OBVIOUS
<1>1. /\ pc = "clean" /\ NextPhase /\ samples' = samples
      /\ UNCHANGED <<options, campaign, todo, pods, results, failed, files, mishaps>>
  BY DEF Cleaned
<1>2. InSubsystem
  BY <1>1 DEF InSubsystem, InCommand
<1>3. sub = "storage" => /\ \A t \in Tenants : samples["baseline"][t] = "all"
                         /\ phase = "unbalanced" =>
                              \A t \in Tenants : samples["unbalanced"][t] = "all"
  BY <1>1, <1>2 DEF IInv, CompleteSoFar
<1>4. samples' \in [Phases -> [Tenants -> Amounts]]
  BY <1>1 DEF IInv, TypeOK
<1> QED
  BY <1>1, <1>2, <1>3, <1>4, NextPhaseFacts

\* Making objects disturbs none that is there.
LEMMA MakeFacts ==
  ASSUME TypeOK, NEW made, made \subseteq Name, Make(made)
  PROVE  /\ pods' \in [Name -> Status] /\ fresh' \subseteq Name
         /\ \A n \in Name : n \in made \/ (pods[n] = "present" /\ n \in fresh) =>
                              pods'[n] = "present" /\ n \in fresh'
<1>1. /\ pods' = [n \in Name |-> IF n \in made THEN "present" ELSE pods[n]]
      /\ fresh' = fresh \union made /\ pods \in [Name -> Status] /\ fresh \subseteq Name
  BY DEF Make, TypeOK
<1>2. pods' \in [Name -> Status]
  BY <1>1 DEF Status
<1> QED
  BY <1>1, <1>2

LEMMA DroppedStep ==
  ASSUME IInv, Creating, NEW t \in Tenants, NEW tried, tried \subseteq Name, Dropped(t, tried),
         UNCHANGED <<options, campaign, todo, sub, phase, results, files>>
  PROVE  IInv'
<1>1. PICK late \in SUBSET (tried \union {Head(pending[u]) :
                                          u \in {v \in open \ {t} : pending[v] # <<>>}}) :
        Make({n \in late : pods[n] = "absent"})
  BY DEF Dropped
<1>2. TypeOK
  BY DEF IInv
<1>3. \A u \in open : pending[u] # <<>> => Head(pending[u]) \in Name
  BY <1>2 DEF TypeOK
<1>4. {n \in late : pods[n] = "absent"} \subseteq Name
  BY <1>1, <1>3
<1>5. pods' \in [Name -> Status] /\ fresh' \subseteq Name
  BY <1>1, <1>2, <1>4, MakeFacts
<1>6. Fail /\ InSubsystem
  BY DEF Dropped, Creating, InSubsystem, InCommand
<1>7. files' = files \union {} /\ {} \subseteq {<<sub, p>> : p \in Phases}
  OBVIOUS
<1> QED
  BY <1>5, <1>6, <1>7, FailFacts

LEMMA CreateStep == ASSUME NEW t \in Tenants PROVE IInv /\ Create(t) => IInv'
<1> SUFFICES ASSUME IInv, Create(t) PROVE IInv'
  OBVIOUS
<1> DEFINE n == Head(pending[t])
<1>1. /\ Creating /\ t \in open /\ pending[t] # <<>>
      /\ UNCHANGED <<options, campaign, todo, sub, phase, results, files>>
  BY DEF Create, Plan
<1>2. /\ TypeOK /\ InSubsystem /\ pending \in [Tenants -> Seq(Name)] /\ pending[t] \in Seq(Name)
      /\ sub \in Subsystems /\ phase \in Phases /\ options \in Options
  BY <1>1 DEF IInv, TypeOK, Creating, InSubsystem, InCommand
<1>3. /\ n \in Name /\ Tail(pending[t]) \in Seq(Name)
      /\ \A m \in Members(pending[t]) : m = n \/ m \in Members(Tail(pending[t]))
  <2> DEFINE q == pending[t]
  <2>1. q \in Seq(Name) /\ q # <<>>
    BY <1>1, <1>2
  <2> HIDE DEF q
  <2>2. Head(q) \in Name /\ Tail(q) \in Seq(Name) /\ Len(Tail(q)) = Len(q) - 1 /\ Len(q) \in Nat
    BY <2>1
  <2>3. \A i \in 1 .. Len(q) : i = 1 \/ (i - 1 \in 1 .. Len(q) - 1 /\ q[i] = Tail(q)[i - 1])
    BY <2>1
  <2>4. DOMAIN q = 1 .. Len(q) /\ DOMAIN Tail(q) = 1 .. Len(q) - 1 /\ q[1] = Head(q)
    BY <2>1, <2>2
  <2>5. \A m \in Members(q) : m = Head(q) \/ m \in Members(Tail(q))
    <3>1. SUFFICES ASSUME NEW i \in 1 .. Len(q)
                   PROVE  q[i] = Head(q) \/ q[i] \in {Tail(q)[k] : k \in DOMAIN Tail(q)}
      BY <2>4 DEF Members
    <3>2. i = 1 \/ (i - 1 \in DOMAIN Tail(q) /\ q[i] = Tail(q)[i - 1])
      BY <2>3, <2>4
    <3> QED
      BY <2>4, <3>2
  <2> QED
    BY <2>2, <2>5 DEF q
<1> HIDE DEF n
<1>4. CASE pods[n] # "absent"
  <2>1. GiveUp /\ UNCHANGED <<pods, fresh, undeleted, mishaps>>
    BY <1>4 DEF Create, World, n
  <2>2. /\ pods' \in [Name -> Status] /\ fresh' \subseteq Name /\ mishaps' \in 0 .. Mishaps
        /\ files' = files \union {} /\ {} \subseteq {<<sub, p>> : p \in Phases}
        /\ undeleted' \subseteq Name
    BY <1>1, <1>2, <2>1 DEF TypeOK
  <2> QED
    BY <1>1, <1>2, <2>1, <2>2, GiveUpFacts
<1>5. CASE pods[n] = "absent" /\ Dropped(t, {n})
  BY <1>1, <1>3, <1>5, DroppedStep
<1>6. CASE /\ pods[n] = "absent" /\ Make({n} \ There)
           /\ pending' = [pending EXCEPT ![t] = Tail(@)]
           /\ UNCHANGED <<samples, pc, open, jobs, failed, undeleted, abandoned, mishaps>>
  <2>1. {n} \ There = {n}
    BY <1>6 DEF There
  <2>2. /\ pods' \in [Name -> Status] /\ fresh' \subseteq Name
        /\ \A m \in Name : m = n \/ (pods[m] = "present" /\ m \in fresh) =>
                             pods'[m] = "present" /\ m \in fresh'
    BY <1>2, <1>3, <1>6, <2>1, MakeFacts
  <2>3. /\ pending' \in [Tenants -> Seq(Name)] /\ pending'[t] = Tail(pending[t])
        /\ \A u \in Tenants : u # t => pending'[u] = pending[u]
    BY <1>2, <1>3, <1>6
  <2>4. TypeOK'
    BY <1>1, <1>6, <2>2, <2>3 DEF IInv, TypeOK
  <2>5. ReportedSubs' = ReportedSubs
    BY <1>1 DEF ReportedSubs
  <2>6. Accounted' /\ Exported'
    BY <1>1, <1>6, <2>5 DEF IInv, Accounted, InCommand, InSubsystem, Exported
  <2>7. CompleteSoFar'
    BY <1>1, <1>6 DEF IInv, CompleteSoFar, InSubsystem, InCommand
  <2>8. pc' = pc /\ pc \in {"create", "second"}
    BY <1>1, <1>6 DEF Creating
  <2>9. SamplesAreFresh'
    BY <2>8 DEF SamplesAreFresh
  <2>10. ProbesSoFar'
    <3>1. /\ sub # "control"
          /\ \A u \in Tenants :
               /\ u \notin open => pending[u] = <<>>
               /\ \A m \in ProbesOf(sub, u, phase) :
                    \/ pods[m] = "present" /\ m \in fresh
                    \/ m \in Members(pending[u])
                    \/ pc = "create" /\ m \in Members(SecondOf(sub, u, phase))
      BY <2>8, NowProbes DEF IInv
    <3>2. \A u \in Tenants : u \notin open' => pending'[u] = <<>>
      BY <1>1, <1>6, <2>3, <3>1
    <3>3. \A u \in Tenants : \A m \in ProbesOf(sub, u, phase) :
            \/ pods'[m] = "present" /\ m \in fresh'
            \/ m \in Members(pending'[u])
            \/ pc' = "create" /\ m \in Members(SecondOf(sub, u, phase))
      <4>1. TAKE u \in Tenants
      <4>. TAKE m \in ProbesOf(sub, u, phase)
      <4>2. m \in Name
        BY <1>2, CreationFacts
      <4>3. m \in Members(pending[u]) => m = n \/ m \in Members(pending'[u])
        BY <1>3, <2>3
      <4>4. \/ pods[m] = "present" /\ m \in fresh
            \/ m \in Members(pending[u])
            \/ pc = "create" /\ m \in Members(SecondOf(sub, u, phase))
        BY <3>1
      <4>5. m = n \/ (pods[m] = "present" /\ m \in fresh) => pods'[m] = "present" /\ m \in fresh'
        BY <2>2, <4>2
      <4> QED
        BY <2>8, <4>3, <4>4, <4>5
    <3> QED
      BY <1>1, <2>8, <3>1, <3>2, <3>3, SameObjects
  <2> QED
    BY <2>4, <2>6, <2>7, <2>9, <2>10 DEF IInv
<1> QED
  BY <1>4, <1>5, <1>6 DEF Create, Created, n, History

\* When both tenants are through, nothing of a phase is still to come but what follows.
LEMMA ReadyStep == ASSUME NEW t \in Tenants PROVE IInv /\ Ready(t) => IInv'
<1> SUFFICES ASSUME IInv, Ready(t) PROVE IInv'
  OBVIOUS
<1>1. /\ Creating /\ t \in open /\ pending[t] = <<>>
      /\ UNCHANGED <<options, campaign, todo, sub, phase, results, files>>
  BY DEF Ready, Plan, History
<1>2. CASE Dropped(t, {})
  BY <1>1, <1>2, DroppedStep
<1>3. CASE Advance(open \ {t}) /\ UNCHANGED <<pods, fresh, samples, jobs, failed, undeleted, abandoned, mishaps>>
  <2>1. /\ pending \in [Tenants -> Seq(Name)] /\ open \subseteq Tenants
        /\ sub \in Subsystems /\ phase \in Phases /\ options \in Options
    BY DEF IInv, TypeOK
  <2>2. /\ sub # "control"
        /\ \A u \in Tenants :
             /\ u \notin open => pending[u] = <<>>
             /\ \A m \in ProbesOf(sub, u, phase) :
                  \/ pods[m] = "present" /\ m \in fresh
                  \/ m \in Members(pending[u])
                  \/ pc = "create" /\ m \in Members(SecondOf(sub, u, phase))
    BY <1>1, NowProbes DEF IInv, Creating
  <2>3. Members(<<>>) = {}
    BY DEF Members
  <2>4. ReportedSubs' = ReportedSubs
    BY <1>1 DEF ReportedSubs
  <2>5. pc \in {"create", "second"}
    BY <1>1 DEF Creating
  <2>6. CASE open \ {t} # {}
    <3>1. open' = open \ {t} /\ UNCHANGED <<pc, pending>>
      BY <1>3, <2>6 DEF Advance
    <3>2. TypeOK'
      BY <1>1, <1>3, <3>1 DEF IInv, TypeOK
    <3>3. Accounted' /\ Exported'
      BY <1>1, <1>3, <2>4, <3>1 DEF IInv, Accounted, InCommand, InSubsystem, Exported
    <3>4. CompleteSoFar'
      BY <1>1, <1>3, <3>1 DEF IInv, CompleteSoFar, InSubsystem, InCommand
    <3>5. SamplesAreFresh'
      BY <2>5, <3>1 DEF SamplesAreFresh
    <3>6. \A u \in Tenants : u \notin open' => pending'[u] = <<>>
      BY <1>1, <2>2, <3>1
    <3>7. ProbesSoFar'
      BY <1>1, <1>3, <2>2, <2>5, <3>1, <3>6, SameObjects
    <3> QED
      BY <3>2, <3>3, <3>4, <3>5, <3>7 DEF IInv
  <2>7. CASE open \ {t} = {}
    <3>1. \A u \in Tenants : pending[u] = <<>>
      BY <1>1, <2>2, <2>7
    <3>2. \A u \in Tenants : \A m \in ProbesOf(sub, u, phase) :
            \/ pods[m] = "present" /\ m \in fresh
            \/ pc = "create" /\ m \in Members(SecondOf(sub, u, phase))
      BY <2>2, <2>3, <3>1
    <3>3. CASE pc = "create" /\ \E u \in Tenants : Second[u] # <<>>
      <4>1. pc' = "second" /\ pending' = Second /\ open' = Makers
        BY <1>3, <2>7, <3>3 DEF Advance, Goto
      <4>2. \A u \in Tenants : SecondOf(sub, u, phase) \in Seq(Name)
        BY <2>1, CreationFacts
      <4>3. /\ pending' = [u \in Tenants |-> SecondOf(sub, u, phase)]
            /\ \A u \in Tenants : pending'[u] = SecondOf(sub, u, phase)
        BY <4>1 DEF Second
      <4>4. pending' \in [Tenants -> Seq(Name)]
        BY <4>2, <4>3
      <4>5. open' \subseteq Tenants
        BY <4>1 DEF Makers, Tenants
      <4>6. TypeOK'
        BY <1>1, <1>3, <4>1, <4>4, <4>5 DEF IInv, TypeOK, Labels
      <4>7. Accounted' /\ Exported'
        BY <1>1, <1>3, <2>4, <2>5, <4>1 DEF IInv, Accounted, InCommand, InSubsystem, Exported
      <4>8. CompleteSoFar'
        BY <1>1, <1>3, <2>5, <4>1 DEF IInv, CompleteSoFar, InSubsystem, InCommand
      <4>9. SamplesAreFresh'
        BY <4>1 DEF SamplesAreFresh
      <4>10. \A u \in Tenants : u \notin open' => pending'[u] = <<>>
        BY <2>1, <4>1, <4>3, MakersFacts DEF Makers, Tenants
      <4>11. ProbesSoFar'
        BY <1>1, <1>3, <2>2, <3>2, <4>1, <4>3, <4>10, SameObjects
      <4> QED
        BY <4>6, <4>7, <4>8, <4>9, <4>11 DEF IInv
    <3>4. CASE ~(pc = "create" /\ \E u \in Tenants : Second[u] # <<>>)
      <4>1. pc' = "wait" /\ open' = {} /\ pending' = Idle
        BY <1>3, <2>7, <3>4 DEF Advance, Goto
      <4>2. \A u \in Tenants : \A m \in ProbesOf(sub, u, phase) : pods[m] = "present" /\ m \in fresh
        <5>1. pc = "create" => \A u \in Tenants : SecondOf(sub, u, phase) = <<>>
          BY <3>4 DEF Second
        <5> QED
          BY <2>3, <3>2, <5>1
      <4>3. Idle \in [Tenants -> Seq(Name)]
        BY DEF Idle
      <4>4. TypeOK'
        BY <1>1, <1>3, <4>1, <4>3 DEF IInv, TypeOK, Labels
      <4>5. Accounted' /\ Exported'
        BY <1>1, <1>3, <2>4, <2>5, <4>1 DEF IInv, Accounted, InCommand, InSubsystem, Exported
      <4>6. CompleteSoFar'
        BY <1>1, <1>3, <2>5, <4>1 DEF IInv, CompleteSoFar, InSubsystem, InCommand
      <4>7. SamplesAreFresh'
        BY <1>1, <1>3, <4>1, <4>2, SameProbes
      <4>8. ProbesSoFar'
        BY <4>1 DEF ProbesSoFar, Creating
      <4> QED
        BY <4>4, <4>5, <4>6, <4>7, <4>8 DEF IInv
    <3> QED
      BY <3>3, <3>4
  <2> QED
    BY <2>6, <2>7
<1> QED
  BY <1>2, <1>3 DEF Ready, World, History

LEMMA WaitStep == IInv /\ Wait => IInv'
<1> SUFFICES ASSUME IInv, Wait PROVE IInv'
  OBVIOUS
<1>1. pc = "wait" /\ UNCHANGED <<options, campaign, todo, sub, phase, pods, fresh, results, files>>
  BY DEF Wait, Plan, World
<1>2. /\ InSubsystem /\ pods' \in [Name -> Status] /\ fresh' \subseteq Name
      /\ files' = files \union {} /\ {} \subseteq {<<sub, p>> : p \in Phases}
  BY <1>1 DEF IInv, TypeOK, InSubsystem, InCommand
<1>3. CASE Fail
  BY <1>1, <1>2, <1>3, FailFacts
<1>4. CASE Goto("collect") /\ Course /\ UNCHANGED samples
  <2>1. pc' = "collect" /\ UNCHANGED <<pending, open, jobs, failed, undeleted, abandoned, mishaps, samples>>
    BY <1>4 DEF Goto, Course, History
  <2>2. ReportedSubs' = ReportedSubs
    BY <1>1 DEF ReportedSubs
  <2>3. TypeOK'
    BY <1>1, <2>1 DEF IInv, TypeOK, Labels
  <2>4. Accounted' /\ Exported'
    BY <1>1, <2>1, <2>2 DEF IInv, Accounted, InCommand, InSubsystem, Exported
  <2>5. CompleteSoFar'
    BY <1>1, <2>1 DEF IInv, CompleteSoFar, InSubsystem, InCommand
  <2>6. SamplesAreFresh'
    BY <1>1, <2>1, NowProbes, SameProbes DEF IInv
  <2>7. ProbesSoFar'
    BY <2>1 DEF ProbesSoFar, Creating
  <2> QED
    BY <2>3, <2>4, <2>5, <2>6, <2>7 DEF IInv
<1> QED
  BY <1>3, <1>4 DEF Wait

LEMMA CollectStep == IInv /\ Collect => IInv'
<1> SUFFICES ASSUME IInv, Collect PROVE IInv'
  OBVIOUS
<1>1. pc = "collect" /\ UNCHANGED <<options, campaign, todo, sub, phase, pods, fresh, results, files>>
  BY DEF Collect, Plan, World
<1>2. /\ InSubsystem /\ pods' \in [Name -> Status] /\ fresh' \subseteq Name
      /\ files' = files \union {} /\ {} \subseteq {<<sub, p>> : p \in Phases}
      /\ sub \in Subsystems /\ phase \in Phases /\ options \in Options
      /\ samples \in [Phases -> [Tenants -> Amounts]]
  BY <1>1 DEF IInv, TypeOK, InSubsystem, InCommand
<1>3. CASE Fail
  BY <1>1, <1>2, <1>3, FailFacts
<1>4. ASSUME NEW seen \in [Tenants -> Amounts], UNCHANGED <<undeleted, mishaps>>,
             IF Refuses(seen) THEN GiveUp
             ELSE /\ samples' = [samples EXCEPT ![phase] = seen]
                  /\ Goto("clean") /\ jobs' = Removals(sub, phase)
                  /\ UNCHANGED <<pending, open, failed, abandoned>>
      PROVE  IInv'
  <2>1. CASE Refuses(seen)
    <3>1. GiveUp /\ undeleted' \subseteq Name
      BY <1>4, <2>1 DEF IInv, TypeOK
    <3>2. mishaps' \in 0 .. Mishaps
      BY <1>4 DEF IInv, TypeOK
    <3> QED
      BY <1>1, <1>2, <3>1, <3>2, GiveUpFacts
  <2>2. CASE ~Refuses(seen)
    <3>1. /\ samples' = [samples EXCEPT ![phase] = seen]
          /\ pc' = "clean" /\ jobs' = Removals(sub, phase)
          /\ UNCHANGED <<pending, open, failed, undeleted, abandoned, mishaps>>
      BY <1>4, <2>2 DEF Goto
    <3>2. jobs' \in Seq(SUBSET Name)
      BY <1>2, <3>1, RemovalFacts
    <3>3. samples' \in [Phases -> [Tenants -> Amounts]]
      BY <1>2, <1>4, <3>1
    <3>4. TypeOK'
      BY <1>1, <3>1, <3>2, <3>3 DEF IInv, TypeOK, Labels
    <3>5. ReportedSubs' = ReportedSubs
      BY <1>1 DEF ReportedSubs
    <3>6. Accounted' /\ Exported'
      BY <1>1, <3>1, <3>5 DEF IInv, Accounted, InCommand, InSubsystem, Exported
    <3>7. CompleteSoFar'
      <4>1. samples'[phase] = seen
        BY <1>2, <3>1
      <4>2. phase = "unbalanced" => samples'["baseline"] = samples["baseline"]
        BY <1>2, <3>1 DEF Phases
      <4>3. sub = "storage" => \A t \in Tenants : samples'[phase][t] = "all"
        BY <2>2, <4>1 DEF Refuses
      <4>4. sub = "storage" /\ phase = "unbalanced" =>
              \A t \in Tenants : samples["baseline"][t] = "all"
        BY <1>2 DEF IInv, CompleteSoFar
      <4>5. phase = "baseline" \/ phase = "unbalanced"
        BY <1>2 DEF Phases
      <4> QED
        BY <1>1, <3>1, <4>2, <4>3, <4>4, <4>5 DEF CompleteSoFar
    <3>8. ProbesSoFar' /\ SamplesAreFresh'
      BY <3>1 DEF ProbesSoFar, Creating, SamplesAreFresh
    <3> QED
      BY <3>4, <3>6, <3>7, <3>8 DEF IInv
  <2> QED
    BY <2>1, <2>2
<1> QED
  BY <1>3, <1>4 DEF Collect

\* Whatever becomes of the objects that are to be removed, it is a finite set of them.
LEMMA OutcomeFacts ==
  ASSUME NEW set, set \subseteq Name, NEW left \in Outcomes(set)
  PROVE  left.stay \subseteq set /\ left.linger \subseteq set /\ Wrong(left) \in Nat
<1>1. left.stay \subseteq set /\ left.linger \subseteq set
  BY DEF Outcomes, Few
<1>2. \A x : x \subseteq Name => Cardinality(x) \in Nat
  BY NameFinite, FS_Subset, FS_CardinalityType
<1>3. Wrong(left) \in Nat
  <2>1. left.stay \union {n \in left.linger : ~Held(n, There)} \subseteq Name
    BY <1>1
  <2> QED
    BY <1>2, <2>1 DEF Wrong
<1> QED
  BY <1>1, <1>3

LEMMA RemoveStep == IInv /\ Remove => IInv'
<1> SUFFICES ASSUME IInv, Remove PROVE IInv'
  OBVIOUS
<1> DEFINE set == Head(jobs) \intersect There
<1>1. /\ pc \in {"preclean", "clean"} /\ jobs # <<>>
      /\ UNCHANGED <<options, campaign, todo, sub, phase, fresh, results, files>>
  BY DEF Remove, Plan
<1>2. PICK left \in Outcomes(set) :
        /\ GoesWrong(Wrong(left))
        /\ pods' = [n \in Name |-> IF n \in left.linger THEN "leaving"
                                  ELSE IF n \in set \ left.stay THEN "absent" ELSE pods[n]]
        /\ undeleted' = (undeleted \ set) \union left.stay
        /\ \/ /\ jobs' = Tail(jobs) /\ abandoned' = abandoned \ set
              /\ UNCHANGED <<samples, pc, pending, open, failed>>
           \/ GiveUp
  BY DEF Remove
<1>3. set \subseteq Name
  BY DEF There
<1> HIDE DEF set
<1>4. Wrong(left) \in Nat
  BY <1>2, <1>3, OutcomeFacts
<1>5. mishaps' \in 0 .. Mishaps
  BY <1>2, <1>4, PodsAssumption DEF GoesWrong, IInv, TypeOK
<1>6. pods' \in [Name -> Status] /\ fresh' \subseteq Name
  BY <1>1, <1>2 DEF IInv, TypeOK, Status
<1>7. undeleted' \subseteq Name
  BY <1>2, <1>3, OutcomeFacts DEF IInv, TypeOK
<1>8. InSubsystem
  BY <1>1 DEF InSubsystem, InCommand
<1>9. CASE GiveUp
  <2>1. files' = files \union {} /\ {} \subseteq {<<sub, p>> : p \in Phases}
    BY <1>1
  <2> QED
    BY <1>1, <1>5, <1>6, <1>7, <1>8, <1>9, <2>1, GiveUpFacts
<1>10. CASE /\ jobs' = Tail(jobs) /\ abandoned' = abandoned \ set
            /\ UNCHANGED <<samples, pc, pending, open, failed>>
  <2>1. jobs' \in Seq(SUBSET Name)
    BY <1>1, <1>10 DEF IInv, TypeOK
  <2>2. abandoned' \subseteq Name
    BY <1>10 DEF IInv, TypeOK
  <2>3. TypeOK'
    BY <1>1, <1>5, <1>6, <1>7, <1>10, <2>1, <2>2 DEF IInv, TypeOK
  <2>4. ReportedSubs' = ReportedSubs
    BY <1>1 DEF ReportedSubs
  <2>5. Accounted' /\ Exported'
    BY <1>1, <1>10, <2>4 DEF IInv, Accounted, InCommand, InSubsystem, Exported
  <2>6. CompleteSoFar'
    BY <1>1, <1>10 DEF IInv, CompleteSoFar, InSubsystem, InCommand
  <2>7. ProbesSoFar'
    <3>1. pc \notin {"create", "second"}
      BY <1>1
    <3> QED
      BY <1>1, <1>10, <3>1, NowProbes, SameObjects DEF IInv
  <2>8. SamplesAreFresh'
    BY <1>1, <1>10 DEF SamplesAreFresh
  <2> QED
    BY <2>3, <2>5, <2>6, <2>7, <2>8 DEF IInv
<1> QED
  BY <1>2, <1>9, <1>10

LEMMA PrecleanedStep == IInv /\ Precleaned => IInv'
<1> SUFFICES ASSUME IInv, Precleaned PROVE IInv'
  OBVIOUS
<1>1. /\ pc = "preclean" /\ pc' = "create"
      /\ UNCHANGED <<options, campaign, todo, sub, phase, pods, fresh, pending, open, jobs, samples,
                    results, failed, files, undeleted, abandoned, mishaps>>
  BY DEF Precleaned, Goto, Plan, Measured, World, Course, History
<1>2. TypeOK'
  BY <1>1 DEF IInv, TypeOK, Labels
<1>3. ReportedSubs' = ReportedSubs
  BY <1>1 DEF ReportedSubs
<1>4. Accounted' /\ Exported'
  BY <1>1, <1>3 DEF IInv, Accounted, InCommand, InSubsystem, Exported
<1>5. CompleteSoFar'
  BY <1>1 DEF IInv, CompleteSoFar, InSubsystem, InCommand
<1>6. ProbesSoFar'
  <2>1. /\ sub # "control" /\ open = Tenants
        /\ pending = [t \in Tenants |-> FirstOf(sub, t, phase)]
    BY <1>1, NowProbes DEF IInv
  <2>2. \A t \in Tenants : pending'[t] = FirstOf(sub, t, phase)
    BY <1>1, <2>1
  <2>3. sub \in Subsystems /\ phase \in Phases /\ options \in Options
    BY DEF IInv, TypeOK
  <2>4. \A t \in Tenants : ProbesOf(sub, t, phase)
          \subseteq Members(FirstOf(sub, t, phase)) \union Members(SecondOf(sub, t, phase))
    BY <2>3, CreationFacts
  <2> QED
    BY <1>1, <2>1, <2>2, <2>4, SameObjects
<1>7. SamplesAreFresh'
  BY <1>1 DEF SamplesAreFresh
<1> QED
  BY <1>2, <1>4, <1>5, <1>6, <1>7 DEF IInv

-----------------------------------------------------------------------------
(***************************************************************************)
(* The result of a subsystem, and what may happen at any time.             *)
(***************************************************************************)
\* A result is recorded, with the manifest of its tables or without.
LEMMA RecordFacts ==
  ASSUME IInv, Record, pc \in {"judge", "manifest"},
         UNCHANGED <<options, campaign, todo, sub, phase, pods, fresh>>,
         NEW manifest, manifest \subseteq {<<sub, "manifest">>},
         manifest # {} => pc = "manifest", files' = files \union manifest
  PROVE  IInv'
<1>1. /\ results' = results \union {[sub |-> sub, level |-> Level(samples)]}
      /\ samples' = Unmeasured /\ pc' = "next"
      /\ UNCHANGED <<pending, open, jobs, failed, undeleted, abandoned, mishaps>>
  BY DEF Record, Goto, Course, History
<1>2. ReportedSubs' = ReportedSubs \union {sub}
  <2> DEFINE new == [sub |-> sub, level |-> Level(samples)]
  <2>1. results' = results \union {new} /\ new.sub = sub
    BY <1>1
  <2> HIDE DEF new
  <2>2. {r.sub : r \in results \union {new}} = {r.sub : r \in results} \union {new.sub}
    OBVIOUS
  <2> QED
    BY <2>1, <2>2 DEF ReportedSubs
<1>3. TypeOK'
  <2>1. sub \in Subsystems /\ results \subseteq Result
        /\ files \subseteq Subsystems \X {"baseline", "unbalanced", "manifest"}
    BY DEF IInv, TypeOK
  <2>2. results' \subseteq Result
    BY <1>1, <2>1 DEF Result, Level
  <2>3. files' \subseteq Subsystems \X {"baseline", "unbalanced", "manifest"}
    BY <2>1
  <2>4. Unmeasured \in [Phases -> [Tenants -> Amounts]]
    BY DEF Unmeasured, Amounts
  <2>5. pc' \in Labels
    BY <1>1 DEF Labels
  <2> QED
    BY <1>1, <2>2, <2>3, <2>4, <2>5 DEF IInv, TypeOK
<1>4. Accounted'
  BY <1>1, <1>2 DEF IInv, Accounted, InCommand, InSubsystem
<1>5. Exported'
  BY <1>1, <1>2 DEF IInv, Exported
<1>6. CompleteSoFar' /\ ProbesSoFar' /\ SamplesAreFresh'
  BY <1>1 DEF CompleteSoFar, InSubsystem, InCommand, ProbesSoFar, Creating, SamplesAreFresh
<1> QED
  BY <1>3, <1>4, <1>5, <1>6 DEF IInv

LEMMA JudgeStep == IInv /\ Judge => IInv'
<1> SUFFICES ASSUME IInv, Judge PROVE IInv'
  OBVIOUS
<1>1. pc = "judge" /\ UNCHANGED <<options, campaign, todo, sub, phase, pods, fresh, files>>
  BY DEF Judge, Plan, World, History
<1>2. CASE Record
  <2>1. files' = files \union {} /\ {} \subseteq {<<sub, "manifest">>}
    BY <1>1
  <2> QED
    BY <1>1, <1>2, <2>1, RecordFacts
<1>3. CASE Goto("tables") /\ Course /\ UNCHANGED <<results, samples>>
  <2>1. pc' = "tables"
        /\ UNCHANGED <<pending, open, jobs, failed, undeleted, abandoned, mishaps, results, samples>>
    BY <1>3 DEF Goto, Course, History
  <2>2. ReportedSubs' = ReportedSubs
    BY <2>1 DEF ReportedSubs
  <2>3. TypeOK'
    BY <1>1, <2>1 DEF IInv, TypeOK, Labels
  <2>4. Accounted' /\ Exported'
    BY <1>1, <2>1, <2>2 DEF IInv, Accounted, InCommand, InSubsystem, Exported
  <2>5. CompleteSoFar'
    BY <1>1, <2>1 DEF IInv, CompleteSoFar, InSubsystem, InCommand
  <2>6. ProbesSoFar' /\ SamplesAreFresh'
    BY <2>1 DEF ProbesSoFar, Creating, SamplesAreFresh
  <2> QED
    BY <2>3, <2>4, <2>5, <2>6 DEF IInv
<1> QED
  BY <1>2, <1>3 DEF Judge, History

LEMMA WriteTablesStep == IInv /\ WriteTables => IInv'
<1> SUFFICES ASSUME IInv, WriteTables PROVE IInv'
  OBVIOUS
<1> DEFINE both == {<<sub, p>> : p \in Phases}
<1>1. pc = "tables" /\ UNCHANGED <<options, campaign, todo, sub, phase, pods, fresh, results>>
  BY DEF WriteTables, Plan, World
<1>2. /\ InSubsystem /\ pods' \in [Name -> Status] /\ fresh' \subseteq Name /\ sub \in Subsystems
      /\ files \subseteq Subsystems \X {"baseline", "unbalanced", "manifest"}
  BY <1>1 DEF IInv, TypeOK, InSubsystem, InCommand
<1>3. ASSUME NEW written \in SUBSET both, files' = files \union written, Fail
      PROVE  IInv'
  BY <1>1, <1>2, <1>3, FailFacts
<1>4. CASE files' = files \union both /\ Goto("manifest") /\ Course /\ UNCHANGED samples
  <2>1. pc' = "manifest" /\ UNCHANGED <<pending, open, jobs, failed, undeleted, abandoned, mishaps, samples>>
    BY <1>4 DEF Goto, Course, History
  <2>2. both = {<<sub, "baseline">>, <<sub, "unbalanced">>}
    BY DEF Phases
  <2>3. ReportedSubs' = ReportedSubs
    BY <1>1 DEF ReportedSubs
  <2>4. files' \subseteq Subsystems \X {"baseline", "unbalanced", "manifest"}
    BY <1>2, <1>4, <2>2
  <2>5. TypeOK'
    BY <1>1, <2>1, <2>4 DEF IInv, TypeOK, Labels
  <2>6. Accounted'
    BY <1>1, <2>1, <2>3 DEF IInv, Accounted, InCommand, InSubsystem
  <2>7. Exported'
    BY <1>1, <1>4, <2>1, <2>2, <2>3 DEF IInv, Exported
  <2>8. CompleteSoFar'
    BY <1>1, <2>1 DEF IInv, CompleteSoFar, InSubsystem, InCommand
  <2>9. ProbesSoFar' /\ SamplesAreFresh'
    BY <2>1 DEF ProbesSoFar, Creating, SamplesAreFresh
  <2> QED
    BY <2>5, <2>6, <2>7, <2>8, <2>9 DEF IInv
<1> QED
  BY <1>3, <1>4 DEF WriteTables

LEMMA WriteManifestStep == IInv /\ WriteManifest => IInv'
<1> SUFFICES ASSUME IInv, WriteManifest PROVE IInv'
  OBVIOUS
<1>1. pc = "manifest" /\ UNCHANGED <<options, campaign, todo, sub, phase, pods, fresh>>
  BY DEF WriteManifest, Plan, World
<1>2. CASE Record /\ files' = files \union {<<sub, "manifest">>}
  BY <1>1, <1>2, RecordFacts
<1>3. CASE Fail /\ UNCHANGED <<results, files>>
  <2>1. /\ InSubsystem /\ pods' \in [Name -> Status] /\ fresh' \subseteq Name
        /\ files' = files \union {} /\ {} \subseteq {<<sub, p>> : p \in Phases}
    BY <1>1, <1>3 DEF IInv, TypeOK, InSubsystem, InCommand
  <2> QED
    BY <1>1, <1>3, <2>1, FailFacts
<1> QED
  BY <1>2, <1>3 DEF WriteManifest

LEMMA VanishStep == IInv /\ Vanish => IInv'
<1> SUFFICES ASSUME IInv, Vanish PROVE IInv'
  OBVIOUS
<1>1. /\ UNCHANGED <<options, campaign, todo, sub, phase, pc, fresh, pending, open, jobs, samples,
                    results, failed, files, undeleted, abandoned, mishaps>>
      /\ pods \in [Name -> Status]
  BY DEF Vanish, Plan, Measured, Course, IInv, TypeOK, History
<1>2. /\ pods' \in [Name -> Status]
      /\ \A n \in Name : pods[n] = "present" => pods'[n] = "present"
  BY <1>1 DEF Vanish, Status
<1>3. /\ sub \in Subsystems /\ phase \in Phases /\ options \in Options
  BY DEF IInv, TypeOK
<1>4. \A t \in Tenants : ProbesOf(sub, t, phase) \subseteq Name
  BY <1>3, CreationFacts
<1>5. TypeOK'
  BY <1>1, <1>2 DEF IInv, TypeOK
<1>6. ReportedSubs' = ReportedSubs
  BY <1>1 DEF ReportedSubs
<1>7. Accounted' /\ Exported'
  BY <1>1, <1>6 DEF IInv, Accounted, InCommand, InSubsystem, Exported
<1>8. CompleteSoFar'
  BY <1>1 DEF IInv, CompleteSoFar, InSubsystem, InCommand
<1>9. SamplesAreFresh'
  BY <1>1, <1>2, <1>4, NowProbes, SameProbes DEF IInv
<1>10. ProbesSoFar'
  BY <1>1, <1>2, <1>4, NowProbes, SameObjects DEF IInv
<1> QED
  BY <1>5, <1>7, <1>8, <1>9, <1>10 DEF IInv

LEMMA KillStep == IInv /\ Kill => IInv'
<1> SUFFICES ASSUME IInv, Kill PROVE IInv'
  OBVIOUS
<1>1. /\ mishaps' \in 0 .. Mishaps /\ pc' = "over"
      /\ abandoned' = {n \in abandoned \union fresh' : pods'[n] = "present" /\ n \notin undeleted'}
      /\ samples' = Unmeasured /\ pending' = Idle /\ open' = {} /\ jobs' = <<>> /\ todo' = {}
      /\ UNCHANGED <<options, campaign, sub, phase, pods, fresh, results, failed, files, undeleted>>
  BY PodsAssumption DEF Kill, GoesWrong, Goto, World, Abandon, IInv, TypeOK
<1>2. TypeOK'
  <2>1. Idle \in [Tenants -> Seq(Name)] /\ Unmeasured \in [Phases -> [Tenants -> Amounts]]
        /\ <<>> \in Seq(SUBSET Name)
    BY DEF Idle, Unmeasured, Amounts
  <2>2. abandoned' \subseteq Name
    BY <1>1 DEF IInv, TypeOK
  <2>3. pc' \in Labels
    BY <1>1 DEF Labels
  <2> QED
    BY <1>1, <2>1, <2>2, <2>3 DEF IInv, TypeOK
<1>3. ReportedSubs' = ReportedSubs
  BY <1>1 DEF ReportedSubs
<1>4. Accounted' /\ Exported'
  BY <1>1, <1>3 DEF IInv, Accounted, InCommand, InSubsystem, Exported
<1>5. CompleteSoFar' /\ ProbesSoFar' /\ SamplesAreFresh'
  BY <1>1 DEF CompleteSoFar, InSubsystem, InCommand, ProbesSoFar, Creating, SamplesAreFresh
<1> QED
  BY <1>2, <1>4, <1>5 DEF IInv

LEMMA IdleStep == IInv /\ UNCHANGED vars => IInv'
<1> SUFFICES ASSUME IInv, UNCHANGED vars PROVE IInv'
  OBVIOUS
<1>1. UNCHANGED <<options, campaign, todo, sub, phase, pc, pods, fresh, pending, open, jobs, samples,
                  results, failed, files, undeleted, abandoned, mishaps>>
  BY DEF vars
<1>2. TypeOK'
  BY <1>1 DEF IInv, TypeOK
<1>3. ReportedSubs' = ReportedSubs
  BY <1>1 DEF ReportedSubs
<1>4. Accounted' /\ Exported'
  BY <1>1, <1>3 DEF IInv, Accounted, InCommand, InSubsystem, Exported
<1>5. CompleteSoFar'
  BY <1>1 DEF IInv, CompleteSoFar, InSubsystem, InCommand
<1>6. SamplesAreFresh' /\ ProbesSoFar'
  BY <1>1, NowProbes, SameProbes, SameObjects DEF IInv
<1> QED
  BY <1>2, <1>4, <1>5, <1>6 DEF IInv

LEMMA StepInvariant == IInv /\ [Next]_vars => IInv'
<1>1. \A t \in Tenants : IInv /\ (Create(t) \/ Ready(t)) => IInv'
  BY CreateStep, ReadyStep
<1>2. IInv /\ Ended => IInv'
  BY IdleStep DEF Ended
<1> QED
  BY <1>1, <1>2, StartStep, StartFailsStep, NextSubsystemStep, CommandStep, LoadStep, WaitStep,
     CollectStep, RemoveStep, PrecleanedStep, CleanedStep, JudgeStep, WriteTablesStep,
     WriteManifestStep, VanishStep, KillStep, IdleStep
     DEF Next, Harness, Command, Phase, Verdict

-----------------------------------------------------------------------------
(***************************************************************************)
(* The theorems.                                                           *)
(***************************************************************************)
\* Whatever is measured, and whatever goes wrong, the bookkeeping of the command and the objects
\* of its phase stay as IInv has them.
THEOREM Invariant == Spec => []IInv
<1> QED
  BY InitInvariant, StepInvariant, PTL DEF Spec

\* Every variable of the campaign keeps its type: a clean-up and a tenant's future only ever
\* come to objects of the phase.
THEOREM TypeCorrect == Spec => []TypeOK
<1>1. IInv => TypeOK
  BY DEF IInv
<1> QED
  BY <1>1, Invariant, PTL

\* The pods whose logs are read are those that run_phase made in this very phase, never ones
\* that a phase or a command before it left under the same names.
THEOREM Fresh == Spec => []SamplesAreFresh
<1>1. IInv => SamplesAreFresh
  BY DEF IInv
<1> QED
  BY <1>1, Invariant, PTL

\* run reports every subsystem it was asked for, as a result or as a failure, and the export
\* leaves no manifest beside missing tables.
THEOREM EveryoneIsReported == Spec => []EverySubsystemIsReported
<1>1. IInv => EverySubsystemIsReported
  <2> SUFFICES ASSUME IInv PROVE EverySubsystemIsReported
    OBVIOUS
  <2>2. ASSUME pc = "summary"
        PROVE  ReportedSubs \union failed = Head(campaign) /\ ReportedSubs \intersect failed = {}
    <3>1. InCommand /\ ~InSubsystem /\ todo = {}
      BY <2>2 DEF IInv, Accounted, InCommand, InSubsystem
    <3>2. /\ todo \union ReportedSubs \union failed
               \union (IF InSubsystem THEN {sub} ELSE {}) = Head(campaign)
          /\ ReportedSubs \intersect failed = {}
      BY <3>1 DEF IInv, Accounted
    <3> QED
      BY <3>1, <3>2
  <2>3. \A s \in Subsystems : <<s, "manifest">> \in files =>
          s \in ReportedSubs /\ {<<s, "baseline">>, <<s, "unbalanced">>} \subseteq files
    BY DEF IInv, Exported
  <2> QED
    BY <2>2, <2>3 DEF EverySubsystemIsReported
<1> QED
  BY <1>1, Invariant, PTL

\* calculate_degradation has samples of the owner in both phases behind every level it grades,
\* and the storage assessor those of every pod.
THEOREM Measurements == Spec => LevelIsMeasured
<1> DEFINE Step == \A r \in results' \ results :
                     /\ r.level # "Unknown" => \A p \in Phases : samples[p]["owner"] # "none"
                     /\ r.sub = "storage" => \A p \in Phases, t \in Tenants : samples[p][t] = "all"
<1>1. ASSUME IInv, Record, pc \in {"judge", "manifest"} PROVE Step
  <2>1. \A r \in results' \ results : r.sub = sub /\ r.level = Level(samples)
    BY <1>1 DEF Record
  <2>2. Level(samples) # "Unknown" => \A p \in Phases : samples[p]["owner"] # "none"
    BY DEF Level
  <2>3. sub = "storage" => \A p \in Phases, t \in Tenants : samples[p][t] = "all"
    BY <1>1 DEF IInv, CompleteSoFar, InSubsystem, InCommand, Phases
  <2> QED
    BY <2>1, <2>2, <2>3
<1>2. results' \subseteq results => Step
  OBVIOUS
<1> HIDE DEF Step
<1>3. IInv /\ Verdict => Step
  <2>1. IInv /\ Judge => Step
    BY <1>1, <1>2 DEF Judge
  <2>2. IInv /\ WriteTables => Step
    BY <1>2 DEF WriteTables
  <2>3. IInv /\ WriteManifest => Step
    BY <1>1, <1>2 DEF WriteManifest
  <2> QED
    BY <2>1, <2>2, <2>3 DEF Verdict
<1>4. Command => results' \subseteq results
  BY DEF Command, StartCommand, StartFails, NextSubsystem, Summarise, EndCommand, NextCommand, Measured
<1>5. Phase => results' \subseteq results
  BY DEF Phase, Load, Create, Ready, Wait, Collect, Remove, Precleaned, Cleaned, Measured
<1>6. Vanish \/ Kill \/ Ended \/ UNCHANGED vars => results' \subseteq results
  BY DEF Vanish, Kill, Ended, Measured, vars
<1>7. IInv /\ [Next]_vars => Step
  BY <1>2, <1>3, <1>4, <1>5, <1>6 DEF Next, Harness
<1>8. IInv /\ [Next]_vars => [Step]_vars
  BY <1>7
<1> QED
  BY <1>8, Invariant, PTL DEF Spec, LevelIsMeasured, Step

-----------------------------------------------------------------------------
(***************************************************************************)
(* What is left over: first, the objects of a phase again.                 *)
(***************************************************************************)
LEMMA RowOnce ==
  ASSUME NEW part, NEW t, NEW n \in Nat
  PROVE  /\ Apart(Row(part, t, n))
         /\ \A m \in Members(Row(part, t, n)) : m.part = part /\ m.tenant = t
<1> DEFINE row == Row(part, t, n)
<1>1. /\ DOMAIN row = 1 .. n
      /\ \A i \in 1 .. n : row[i].part = part /\ row[i].tenant = t /\ row[i].index = i
  BY DEF Row
<1> HIDE DEF row
<1>2. Apart(row)
  BY <1>1 DEF Apart
<1>3. \A m \in Members(row) : m.part = part /\ m.tenant = t
  BY <1>1 DEF Members
<1> QED
  BY <1>2, <1>3 DEF row

LEMMA JoinedOnce ==
  ASSUME NEW c \in Seq(Name), NEW f \in Seq(Name), Apart(c), Apart(f),
         Members(c) \intersect Members(f) = {}
  PROVE  Apart(c \o f) /\ Members(c \o f) = Members(c) \union Members(f)
<1>1. /\ DOMAIN c = 1 .. Len(c) /\ DOMAIN f = 1 .. Len(f) /\ Len(c) \in Nat /\ Len(f) \in Nat
      /\ DOMAIN (c \o f) = 1 .. Len(c) + Len(f)
      /\ \A i \in 1 .. Len(c) : (c \o f)[i] = c[i]
      /\ \A i \in 1 .. Len(c) + Len(f) : i > Len(c) => (c \o f)[i] = f[i - Len(c)]
  OBVIOUS
<1> DEFINE j == c \o f  m == Len(c)  n == Len(f)
<1>2. /\ DOMAIN c = 1 .. m /\ DOMAIN f = 1 .. n /\ m \in Nat /\ n \in Nat /\ DOMAIN j = 1 .. m + n
      /\ \A i \in 1 .. m : j[i] = c[i]
      /\ \A i \in 1 .. m + n : i > m => j[i] = f[i - m]
  BY <1>1
<1> HIDE DEF j, m, n
<1>3. \A i \in 1 .. m : j[i] \in Members(c)
  BY <1>2 DEF Members
<1>4. \A i \in 1 .. m + n : i > m => j[i] \in Members(f) /\ i - m \in 1 .. n
  <2>1. \A i \in 1 .. m + n : i > m => i - m \in 1 .. n
    BY <1>2
  <2> QED
    BY <2>1, <1>2 DEF Members
<1>5. ASSUME NEW a \in 1 .. m + n, NEW b \in 1 .. m + n, j[a] = j[b] PROVE a = b
  <2>1. CASE a <= m /\ b <= m
    <3>1. a \in 1 .. m /\ b \in 1 .. m
      BY <1>2, <2>1
    <3> QED
      BY <1>2, <1>5, <3>1 DEF Apart
  <2>2. CASE a > m /\ b > m
    <3>1. /\ a - m \in DOMAIN f /\ b - m \in DOMAIN f
          /\ f[a - m] = f[b - m]
      BY <1>2, <1>4, <1>5, <2>2
    <3>2. a - m = b - m
      BY <3>1 DEF Apart
    <3> QED
      BY <1>2, <3>2
  <2>3. CASE a <= m /\ b > m
    <3>1. a \in 1 .. m
      BY <1>2, <2>3
    <3> QED
      BY <1>3, <1>4, <1>5, <2>3, <3>1
  <2>4. CASE a > m /\ b <= m
    <3>1. b \in 1 .. m
      BY <1>2, <2>4
    <3> QED
      BY <1>3, <1>4, <1>5, <2>4, <3>1
  <2> QED
    BY <1>2, <2>1, <2>2, <2>3, <2>4
<1>6. Apart(j)
  BY <1>2, <1>5 DEF Apart
<1>7. Members(j) \subseteq Members(c) \union Members(f)
  <2>1. \A i \in 1 .. m + n : j[i] \in Members(c) \union Members(f)
    BY <1>2, <1>3, <1>4
  <2> QED
    BY <1>2, <2>1 DEF Members
<1>8. Members(c) \union Members(f) \subseteq Members(j)
  <2>1. \A i \in 1 .. m : i \in DOMAIN j /\ c[i] = j[i]
    BY <1>2
  <2>2. \A i \in 1 .. n : i + m \in DOMAIN j /\ f[i] = j[i + m]
    BY <1>2
  <2>3. Members(c) \subseteq Members(j)
    BY <1>2, <2>1 DEF Members
  <2>4. Members(f) \subseteq Members(j)
    BY <1>2, <2>2 DEF Members
  <2> QED
    BY <2>3, <2>4
<1> QED
  BY <1>6, <1>7, <1>8 DEF j

\* The objects of a tenant are of the subsystem and of the tenant, and each is created once.
LEMMA OnceFacts ==
  ASSUME options \in Options, NEW s \in Subsystems, NEW t \in Tenants, NEW p \in Phases
  PROVE  /\ Apart(FirstOf(s, t, p)) /\ Apart(SecondOf(s, t, p))
         /\ Members(FirstOf(s, t, p)) \intersect Members(SecondOf(s, t, p)) = {}
         /\ \A n \in Members(FirstOf(s, t, p)) \union Members(SecondOf(s, t, p)) :
              n.part[1] = s /\ n.tenant = t
<1>1. /\ Multiplied(t, p) \in Nat /\ Measuring(t, p) \in Nat /\ 0 \in Nat
  BY SizeFacts, PodsAssumption DEF Top
<1>2. /\ Apart(Servers(t, p))
      /\ \A n \in Members(Servers(t, p)) : n.part = <<"network", "server">> /\ n.tenant = t
  BY <1>1, RowOnce DEF Servers
<1>3. /\ Apart(Pings(t, p))
      /\ \A n \in Members(Pings(t, p)) : n.part = <<"network", "probe">> /\ n.tenant = t
  BY <1>1, RowOnce DEF Pings
<1>4. /\ Apart(Claims(t, p))
      /\ \A n \in Members(Claims(t, p)) : n.part = <<"storage", "claim">> /\ n.tenant = t
  BY <1>1, RowOnce DEF Claims
<1>5. /\ Apart(Fios(t, p))
      /\ \A n \in Members(Fios(t, p)) : n.part = <<"storage", "probe">> /\ n.tenant = t
  BY <1>1, RowOnce DEF Fios
<1>6. /\ Apart(Sysbenches(t, p))
      /\ \A n \in Members(Sysbenches(t, p)) : n.part = <<"workload", "probe">> /\ n.tenant = t
  BY <1>1, RowOnce DEF Sysbenches
<1>7. /\ Apart(Noises(t, p))
      /\ \A n \in Members(Noises(t, p)) : n.part = <<"workload", "noise">> /\ n.tenant = t
  BY <1>1, RowOnce DEF Noises
<1>8. Apart(<<>>) /\ Members(<<>>) = {}
  BY DEF Apart, Members
<1>9. /\ s = "network" => FirstOf(s, t, p) = Servers(t, p) /\ SecondOf(s, t, p) = Pings(t, p)
      /\ s = "storage" => FirstOf(s, t, p) = Claims(t, p) \o Fios(t, p) /\ SecondOf(s, t, p) = <<>>
      /\ s = "workload" => FirstOf(s, t, p) = Sysbenches(t, p) /\ SecondOf(s, t, p) = Noises(t, p)
      /\ s = "control" => FirstOf(s, t, p) = <<>> /\ SecondOf(s, t, p) = <<>>
  BY DEF FirstOf, SecondOf
<1>10. /\ Apart(Claims(t, p) \o Fios(t, p))
       /\ Members(Claims(t, p) \o Fios(t, p)) = Members(Claims(t, p)) \union Members(Fios(t, p))
  <2>1. Claims(t, p) \in Seq(Name) /\ Fios(t, p) \in Seq(Name)
    BY RowsFacts
  <2>2. Members(Claims(t, p)) \intersect Members(Fios(t, p)) = {}
    BY <1>4, <1>5
  <2> QED
    BY <1>4, <1>5, <2>1, <2>2, JoinedOnce
<1>11. CASE s = "network"
  <2>1. Members(Servers(t, p)) \intersect Members(Pings(t, p)) = {}
    BY <1>2, <1>3
  <2>2. \A n \in Members(Servers(t, p)) \union Members(Pings(t, p)) : n.part[1] = "network" /\ n.tenant = t
    BY <1>2, <1>3
  <2> QED
    BY <1>2, <1>3, <1>9, <1>11, <2>1, <2>2
<1>12. CASE s = "storage"
  <2>1. \A n \in Members(Claims(t, p)) \union Members(Fios(t, p)) : n.part[1] = "storage" /\ n.tenant = t
    BY <1>4, <1>5
  <2> QED
    BY <1>8, <1>9, <1>10, <1>12, <2>1
<1>13. CASE s = "workload"
  <2>1. Members(Sysbenches(t, p)) \intersect Members(Noises(t, p)) = {}
    BY <1>6, <1>7
  <2>2. \A n \in Members(Sysbenches(t, p)) \union Members(Noises(t, p)) : n.part[1] = "workload" /\ n.tenant = t
    BY <1>6, <1>7
  <2> QED
    BY <1>6, <1>7, <1>9, <1>13, <2>1, <2>2
<1>14. CASE s = "control"
  BY <1>8, <1>9, <1>14
<1> QED
  BY <1>11, <1>12, <1>13, <1>14 DEF Subsystems

\* A clean-up comes to every object of the phase.
LEMMA RemovalsCover ==
  ASSUME options \in Options, NEW s \in Subsystems, NEW p \in Phases
  PROVE  Objects(s, p) \subseteq UNION Members(Removals(s, p))
<1>1. /\ \A t \in Tenants : s = "network" =>
           FirstOf(s, t, p) = Servers(t, p) /\ SecondOf(s, t, p) = Pings(t, p)
      /\ \A t \in Tenants : s = "storage" =>
           FirstOf(s, t, p) = Claims(t, p) \o Fios(t, p) /\ SecondOf(s, t, p) = <<>>
      /\ \A t \in Tenants : s = "workload" =>
           FirstOf(s, t, p) = Sysbenches(t, p) /\ SecondOf(s, t, p) = Noises(t, p)
      /\ \A t \in Tenants : s = "control" => FirstOf(s, t, p) = <<>> /\ SecondOf(s, t, p) = <<>>
  BY DEF FirstOf, SecondOf
<1>2. Members(<<>>) = {}
  BY DEF Members
<1>3. /\ s = "network" => Removals(s, p) = NetworkRemovals(p)
      /\ s = "storage" => Removals(s, p) = StorageRemovals(p)
      /\ s = "workload" => Removals(s, p) = WorkloadRemovals(p)
  BY DEF Removals
<1>4. CASE s = "network"
  <2> DEFINE all == UNION {Members(Servers(t, p)) \union Members(Pings(t, p)) : t \in Tenants}
  <2>1. Removals(s, p) = <<all>>
    BY <1>3, <1>4 DEF NetworkRemovals
  <2>2. Objects(s, p) \subseteq all
    BY <1>1, <1>4 DEF Objects
  <2> HIDE DEF all
  <2>3. DOMAIN <<all>> = 1 .. 1 /\ <<all>>[1] = all
    OBVIOUS
  <2>4. all \in Members(<<all>>)
    BY <2>3 DEF Members
  <2> QED
    BY <2>1, <2>2, <2>4
<1>5. CASE s = "storage"
  <2> DEFINE fo == Members(Fios("owner", p))  co == Members(Claims("owner", p))
             fi == Members(Fios("intruder", p))  ci == Members(Claims("intruder", p))
  <2>1. Removals(s, p) = <<fo, co, fi, ci>>
    BY <1>3, <1>5 DEF StorageRemovals
  <2>2. \A t \in Tenants : Members(FirstOf(s, t, p)) \union Members(SecondOf(s, t, p))
          = Members(Claims(t, p)) \union Members(Fios(t, p))
    <3>1. TAKE t \in Tenants
    <3>2. \A n \in Members(Claims(t, p)) : n.part = <<"storage", "claim">>
      BY RowOnce, SizeFacts, PodsAssumption DEF Claims, Top
    <3>3. \A n \in Members(Fios(t, p)) : n.part = <<"storage", "probe">>
      BY RowOnce, SizeFacts, PodsAssumption DEF Fios, Top
    <3>4. Members(Claims(t, p)) \intersect Members(Fios(t, p)) = {}
      BY <3>2, <3>3
    <3>5. Claims(t, p) \in Seq(Name) /\ Fios(t, p) \in Seq(Name)
      BY RowsFacts
    <3>6. Apart(Claims(t, p)) /\ Apart(Fios(t, p))
      BY RowOnce, SizeFacts, PodsAssumption DEF Claims, Fios, Top
    <3>7. Members(Claims(t, p) \o Fios(t, p)) = Members(Claims(t, p)) \union Members(Fios(t, p))
      BY <3>4, <3>5, <3>6, JoinedOnce
    <3> QED
      BY <1>1, <1>2, <1>5, <3>7
  <2>3. Objects(s, p) \subseteq fo \union co \union fi \union ci
    BY <2>2 DEF Objects, Tenants
  <2> HIDE DEF fo, co, fi, ci
  <2>4. /\ DOMAIN <<fo, co, fi, ci>> = 1 .. 4
        /\ <<fo, co, fi, ci>>[1] = fo /\ <<fo, co, fi, ci>>[2] = co
        /\ <<fo, co, fi, ci>>[3] = fi /\ <<fo, co, fi, ci>>[4] = ci
    OBVIOUS
  <2>5. {fo, co, fi, ci} \subseteq Members(<<fo, co, fi, ci>>)
    BY <2>4 DEF Members
  <2> QED
    BY <2>1, <2>3, <2>5
<1>6. CASE s = "workload"
  <2> DEFINE so == Members(Sysbenches("owner", p))  si == Members(Sysbenches("intruder", p))
             ni == Members(Noises("intruder", p))
  <2>1. Removals(s, p) = <<so, si, ni>>
    BY <1>3, <1>6 DEF WorkloadRemovals
  <2>2. Members(Noises("owner", p)) = {}
    BY <1>1, <1>2, <1>6, MakersFacts DEF Tenants
  <2>3. Objects(s, p) \subseteq so \union si \union ni
    BY <1>1, <1>6, <2>2 DEF Objects, Tenants
  <2> HIDE DEF so, si, ni
  <2>4. /\ DOMAIN <<so, si, ni>> = 1 .. 3
        /\ <<so, si, ni>>[1] = so /\ <<so, si, ni>>[2] = si /\ <<so, si, ni>>[3] = ni
    OBVIOUS
  <2>5. {so, si, ni} \subseteq Members(<<so, si, ni>>)
    BY <2>4 DEF Members
  <2> QED
    BY <2>1, <2>3, <2>5
<1>7. CASE s = "control"
  BY <1>1, <1>2, <1>7 DEF Objects
<1> QED
  BY <1>4, <1>5, <1>6, <1>7 DEF Subsystems

\* Of the pods of a baseline that make load, all are probes.
LEMMA BaselineFacts ==
  ASSUME options \in Options, NEW s \in Subsystems
  PROVE  \A n \in Objects(s, "baseline") :
           n.part[2] \in {"probe", "noise"} => n \in Probes(s, "baseline")
<1> DEFINE p == "baseline"
<1>0. p \in Phases
  BY DEF Phases
<1>1. SUFFICES ASSUME NEW t \in Tenants,
                      NEW n \in Members(FirstOf(s, t, p)) \union Members(SecondOf(s, t, p)),
                      n.part[2] \in {"probe", "noise"}
               PROVE  n \in ProbesOf(s, t, p)
  BY DEF Objects, Probes
<1>2. Multiplied(t, p) \in Nat /\ 0 \in Nat
  BY <1>0, SizeFacts, PodsAssumption DEF Top
<1>3. CASE s = "network"
  <2>1. \A m \in Members(Servers(t, p)) : m.part = <<"network", "server">>
    BY <1>2, RowOnce DEF Servers
  <2>2. n \notin Members(Servers(t, p))
    BY <1>1, <2>1
  <2> QED
    BY <1>1, <1>3, <2>2 DEF FirstOf, SecondOf, ProbesOf
<1>4. CASE s = "storage"
  <2>1. /\ Apart(Claims(t, p))
        /\ \A m \in Members(Claims(t, p)) : m.part = <<"storage", "claim">>
    BY <1>2, RowOnce DEF Claims
  <2>2. /\ Apart(Fios(t, p))
        /\ \A m \in Members(Fios(t, p)) : m.part = <<"storage", "probe">>
    BY <1>2, RowOnce DEF Fios
  <2>3. Members(Claims(t, p)) \intersect Members(Fios(t, p)) = {}
    BY <2>1, <2>2
  <2>4. Claims(t, p) \in Seq(Name) /\ Fios(t, p) \in Seq(Name)
    BY <1>0, RowsFacts
  <2>5. Members(Claims(t, p) \o Fios(t, p)) = Members(Claims(t, p)) \union Members(Fios(t, p))
    BY <2>1, <2>2, <2>3, <2>4, JoinedOnce
  <2>6. /\ FirstOf(s, t, p) = Claims(t, p) \o Fios(t, p) /\ SecondOf(s, t, p) = <<>>
        /\ ProbesOf(s, t, p) = Members(Fios(t, p)) /\ Members(<<>>) = {}
    BY <1>4 DEF FirstOf, SecondOf, ProbesOf, Members
  <2>7. n \notin Members(Claims(t, p))
    BY <1>1, <2>1
  <2> QED
    BY <1>1, <2>5, <2>6, <2>7
<1>5. CASE s = "workload"
  <2>1. Noises(t, p) = <<>>
    BY DEF Noises, Makes, Row
  <2>2. Members(Noises(t, p)) = {}
    BY <2>1 DEF Members
  <2>3. /\ FirstOf(s, t, p) = Sysbenches(t, p) /\ SecondOf(s, t, p) = Noises(t, p)
        /\ ProbesOf(s, t, p) = Members(Sysbenches(t, p))
    BY <1>5 DEF FirstOf, SecondOf, ProbesOf
  <2> QED
    BY <1>1, <2>2, <2>3
<1>6. CASE s = "control"
  BY <1>1, <1>6 DEF FirstOf, SecondOf, Members
<1> QED
  BY <1>3, <1>4, <1>5, <1>6 DEF Subsystems

-----------------------------------------------------------------------------
(***************************************************************************)
(* What is left over, step by step.                                        *)
(***************************************************************************)
LEMMA SameSet ==
  ASSUME options' = options, NEW s, NEW p
  PROVE  Objects(s, p)' = Objects(s, p)
<1>1. \A t \in Tenants : FirstOf(s, t, p)' = FirstOf(s, t, p) /\ SecondOf(s, t, p)' = SecondOf(s, t, p)
  BY SameRows
<1> QED
  BY <1>1 DEF Objects, Members

\* The invariant before a step, and after it, in one form.
LEMMA NowLeft ==
  /\ LeftSoFar <=>
       \A n \in Name : pods[n] # "absent" =>
         \/ pods[n] = "leaving" \/ n \in undeleted \/ n \in abandoned
         \/ /\ InSubsystem /\ n \in fresh
            /\ \/ /\ pc \in {"create", "second", "wait", "collect"} /\ n \in Objects(sub, phase)
                  /\ n \notin Members(pending[n.tenant])
                  /\ pc = "create" => n \notin Members(SecondOf(sub, n.tenant, phase))
               \/ pc = "clean" /\ n \in UNION Members(jobs)
  /\ ClearedSoFar <=>
       (sub = "storage" /\ pc \in {"preclean", "create", "second"} =>
          \A n \in Name : n \in Objects(sub, phase) /\ pods[n] # "absent" =>
            \/ pods[n] = "leaving" \/ n \in undeleted
            \/ pc = "preclean" /\ n \in UNION Members(jobs)
            \/ /\ pc # "preclean" /\ n \notin Members(pending[n.tenant])
               /\ pc = "create" => n \notin Members(SecondOf(sub, n.tenant, phase)))
  /\ EachOnce <=>
       (pc \in {"create", "second"} => \A t \in Tenants :
          /\ Apart(pending[t])
          /\ \A n \in Members(pending[t]) : n.part[1] = sub /\ n.tenant = t /\ n \in Objects(sub, phase)
          /\ pc = "create" =>
               /\ \A n \in Members(SecondOf(sub, t, phase)) :
                    n.part[1] = sub /\ n.tenant = t /\ n \in Objects(sub, phase)
               /\ Members(pending[t]) \intersect Members(SecondOf(sub, t, phase)) = {})
<1>1. \A n : Ours(n) <=>
         /\ InSubsystem /\ n \in fresh
         /\ \/ /\ pc \in {"create", "second", "wait", "collect"} /\ n \in Objects(sub, phase)
               /\ n \notin Members(pending[n.tenant])
               /\ pc = "create" => n \notin Members(SecondOf(sub, n.tenant, phase))
            \/ pc = "clean" /\ n \in UNION Members(jobs)
  BY DEF Ours, ToCome, ToRemove
<1>2. \A t, n : n \in ToCome(t) <=>
         n \in Members(pending[t]) \/ (pc = "create" /\ n \in Members(SecondOf(sub, t, phase)))
  BY DEF ToCome
<1>3. \A n : n \in There <=> n \in Name /\ pods[n] # "absent"
  BY DEF There
<1>4. LeftSoFar <=>
       \A n \in Name : pods[n] # "absent" =>
         \/ pods[n] = "leaving" \/ n \in undeleted \/ n \in abandoned
         \/ /\ InSubsystem /\ n \in fresh
            /\ \/ /\ pc \in {"create", "second", "wait", "collect"} /\ n \in Objects(sub, phase)
                  /\ n \notin Members(pending[n.tenant])
                  /\ pc = "create" => n \notin Members(SecondOf(sub, n.tenant, phase))
               \/ pc = "clean" /\ n \in UNION Members(jobs)
  BY <1>1, <1>3 DEF LeftSoFar, Fading
<1>5. ClearedSoFar <=>
       (sub = "storage" /\ pc \in {"preclean", "create", "second"} =>
          \A n \in Name : n \in Objects(sub, phase) /\ pods[n] # "absent" =>
            \/ pods[n] = "leaving" \/ n \in undeleted
            \/ pc = "preclean" /\ n \in UNION Members(jobs)
            \/ /\ pc # "preclean" /\ n \notin Members(pending[n.tenant])
               /\ pc = "create" => n \notin Members(SecondOf(sub, n.tenant, phase)))
  BY <1>2, <1>3 DEF ClearedSoFar, ToRemove, Fading
<1>6. EachOnce <=>
       (pc \in {"create", "second"} => \A t \in Tenants :
          /\ Apart(pending[t])
          /\ \A n \in Members(pending[t]) : n.part[1] = sub /\ n.tenant = t /\ n \in Objects(sub, phase)
          /\ pc = "create" =>
               /\ \A n \in Members(SecondOf(sub, t, phase)) :
                    n.part[1] = sub /\ n.tenant = t /\ n \in Objects(sub, phase)
               /\ Members(pending[t]) \intersect Members(SecondOf(sub, t, phase)) = {})
  BY <1>2 DEF EachOnce, Creating
<1> QED
  BY <1>4, <1>5, <1>6

LEMMA ThenLeft ==
  ASSUME options' = options, NEW s, NEW p, sub' = s, phase' = p
  PROVE
  /\ LeftSoFar' <=>
       \A n \in Name : pods'[n] # "absent" =>
         \/ pods'[n] = "leaving" \/ n \in undeleted' \/ n \in abandoned'
         \/ /\ InSubsystem' /\ n \in fresh'
            /\ \/ /\ pc' \in {"create", "second", "wait", "collect"} /\ n \in Objects(s, p)
                  /\ n \notin Members(pending'[n.tenant])
                  /\ pc' = "create" => n \notin Members(SecondOf(s, n.tenant, p))
               \/ pc' = "clean" /\ n \in UNION Members(jobs')
  /\ ClearedSoFar' <=>
       (s = "storage" /\ pc' \in {"preclean", "create", "second"} =>
          \A n \in Name : n \in Objects(s, p) /\ pods'[n] # "absent" =>
            \/ pods'[n] = "leaving" \/ n \in undeleted'
            \/ pc' = "preclean" /\ n \in UNION Members(jobs')
            \/ /\ pc' # "preclean" /\ n \notin Members(pending'[n.tenant])
               /\ pc' = "create" => n \notin Members(SecondOf(s, n.tenant, p)))
  /\ EachOnce' <=>
       (pc' \in {"create", "second"} => \A t \in Tenants :
          /\ Apart(pending'[t])
          /\ \A n \in Members(pending'[t]) : n.part[1] = s /\ n.tenant = t /\ n \in Objects(s, p)
          /\ pc' = "create" =>
               /\ \A n \in Members(SecondOf(s, t, p)) :
                    n.part[1] = s /\ n.tenant = t /\ n \in Objects(s, p)
               /\ Members(pending'[t]) \intersect Members(SecondOf(s, t, p)) = {})
<1>1. Objects(s, p)' = Objects(s, p)
  BY SameSet
<1>2. \A t : SecondOf(s, t, p)' = SecondOf(s, t, p)
  BY SameRows
<1>3. \A n : Ours(n)' <=>
         /\ InSubsystem' /\ n \in fresh'
         /\ \/ /\ pc' \in {"create", "second", "wait", "collect"} /\ n \in Objects(s, p)
               /\ n \notin Members(pending'[n.tenant])
               /\ pc' = "create" => n \notin Members(SecondOf(s, n.tenant, p))
            \/ pc' = "clean" /\ n \in UNION Members(jobs')
  BY <1>1, <1>2 DEF Ours, ToCome, ToRemove
<1>4. \A t, n : n \in ToCome(t)' <=>
         n \in Members(pending'[t]) \/ (pc' = "create" /\ n \in Members(SecondOf(s, t, p)))
  BY <1>2 DEF ToCome
<1>5. \A n : n \in There' <=> n \in Name /\ pods'[n] # "absent"
  BY DEF There
<1>6. LeftSoFar' <=>
       \A n \in Name : pods'[n] # "absent" =>
         \/ pods'[n] = "leaving" \/ n \in undeleted' \/ n \in abandoned'
         \/ /\ InSubsystem' /\ n \in fresh'
            /\ \/ /\ pc' \in {"create", "second", "wait", "collect"} /\ n \in Objects(s, p)
                  /\ n \notin Members(pending'[n.tenant])
                  /\ pc' = "create" => n \notin Members(SecondOf(s, n.tenant, p))
               \/ pc' = "clean" /\ n \in UNION Members(jobs')
  BY <1>3, <1>5 DEF LeftSoFar, Fading
<1>7. ClearedSoFar' <=>
       (s = "storage" /\ pc' \in {"preclean", "create", "second"} =>
          \A n \in Name : n \in Objects(s, p) /\ pods'[n] # "absent" =>
            \/ pods'[n] = "leaving" \/ n \in undeleted'
            \/ pc' = "preclean" /\ n \in UNION Members(jobs')
            \/ /\ pc' # "preclean" /\ n \notin Members(pending'[n.tenant])
               /\ pc' = "create" => n \notin Members(SecondOf(s, n.tenant, p)))
  BY <1>1, <1>4, <1>5 DEF ClearedSoFar, ToRemove, Fading
<1>8. EachOnce' <=>
       (pc' \in {"create", "second"} => \A t \in Tenants :
          /\ Apart(pending'[t])
          /\ \A n \in Members(pending'[t]) : n.part[1] = s /\ n.tenant = t /\ n \in Objects(s, p)
          /\ pc' = "create" =>
               /\ \A n \in Members(SecondOf(s, t, p)) :
                    n.part[1] = s /\ n.tenant = t /\ n \in Objects(s, p)
               /\ Members(pending'[t]) \intersect Members(SecondOf(s, t, p)) = {})
  BY <1>1, <1>2, <1>4 DEF EachOnce, Creating, Apart
<1> QED
  BY <1>6, <1>7, <1>8

LEMMA ThenExplained ==
  ASSUME options' = options, sub' = sub, phase' = phase,
         \A n \in Name : pods'[n] # "absent" =>
           \/ pods'[n] = "leaving" \/ n \in undeleted' \/ n \in abandoned'
           \/ /\ InSubsystem' /\ n \in fresh'
              /\ \/ /\ pc' \in {"create", "second", "wait", "collect"} /\ n \in Objects(sub, phase)
                    /\ n \notin Members(pending'[n.tenant])
                    /\ pc' = "create" => n \notin Members(SecondOf(sub, n.tenant, phase))
                 \/ pc' = "clean" /\ n \in UNION Members(jobs')
  PROVE  LeftSoFar'
BY ThenLeft

LEMMA ThenCleared ==
  ASSUME options' = options, sub' = sub, phase' = phase,
         \A n \in Name :
           /\ sub = "storage" /\ pc' \in {"preclean", "create", "second"}
           /\ n \in Objects(sub, phase) /\ pods'[n] # "absent"
           => \/ pods'[n] = "leaving" \/ n \in undeleted'
              \/ pc' = "preclean" /\ n \in UNION Members(jobs')
              \/ /\ pc' # "preclean" /\ n \notin Members(pending'[n.tenant])
                 /\ pc' = "create" => n \notin Members(SecondOf(sub, n.tenant, phase))
  PROVE  ClearedSoFar'
BY ThenLeft

LEMMA ThenOnce ==
  ASSUME options' = options, sub' = sub, phase' = phase,
         \A t \in Tenants : pc' \in {"create", "second"} =>
           /\ Apart(pending'[t])
           /\ \A n \in Members(pending'[t]) : n.part[1] = sub /\ n.tenant = t /\ n \in Objects(sub, phase)
           /\ pc' = "create" =>
                /\ \A n \in Members(SecondOf(sub, t, phase)) :
                     n.part[1] = sub /\ n.tenant = t /\ n \in Objects(sub, phase)
                /\ Members(pending'[t]) \intersect Members(SecondOf(sub, t, phase)) = {}
  PROVE  EachOnce'
BY ThenLeft

\* Outside of a phase all that is there was left behind.
LEMMA SettledFacts ==
  ASSUME options' = options,
         pc' \notin {"preclean", "create", "second", "wait", "collect", "clean"},
         \A n \in undeleted' \union abandoned' : pods'[n] = "present",
         \A n \in Name : pods'[n] # "absent" =>
           pods'[n] = "leaving" \/ n \in undeleted' \/ n \in abandoned'
  PROVE  LeftInv'
<1>1. OnRecord'
  BY DEF OnRecord
<1> QED
  BY <1>1, ThenLeft DEF LeftInv

\* What a phase leaves behind that is broken off: of what it has made, all that is there.
LEMMA GivenUp ==
  ASSUME Abandon, options' = options, pods' \in [Name -> Status],
         pc' \notin {"preclean", "create", "second", "wait", "collect", "clean"},
         \A n \in undeleted' : pods'[n] = "present",
         \A n \in Name : pods'[n] = "present" =>
           n \in undeleted' \/ n \in abandoned \/ n \in fresh'
  PROVE  LeftInv'
<1>1. abandoned' = {n \in abandoned \union fresh' : pods'[n] = "present" /\ n \notin undeleted'}
  BY DEF Abandon
<1>2. \A n \in undeleted' \union abandoned' : pods'[n] = "present"
  BY <1>1
<1>3. ASSUME NEW n \in Name, pods'[n] # "absent"
      PROVE  pods'[n] = "leaving" \/ n \in undeleted' \/ n \in abandoned'
  <2>1. pods'[n] = "leaving" \/ pods'[n] = "present"
    BY <1>3 DEF Status
  <2> QED
    BY <1>1, <2>1
<1> QED
  BY <1>2, <1>3, SettledFacts

\* What is there before a step, whatever is under way.
LEMMA BehindFacts ==
  ASSUME LeftInv
  PROVE  /\ \A n \in undeleted \union abandoned : pods[n] = "present"
         /\ \A n \in Name : pods[n] # "absent" =>
              pods[n] = "leaving" \/ n \in undeleted \/ n \in abandoned \/ n \in fresh
         /\ pc \notin {"create", "second", "wait", "collect", "clean"} =>
              \A n \in Name : pods[n] # "absent" =>
                pods[n] = "leaving" \/ n \in undeleted \/ n \in abandoned
BY NowLeft DEF LeftInv, OnRecord

\* A phase that is broken off by a step that deletes nothing.
LEMMA BrokenOff ==
  ASSUME IInv, LeftInv, Abandon, UNCHANGED <<options, undeleted>>, pods' \in [Name -> Status],
         pc' \notin {"preclean", "create", "second", "wait", "collect", "clean"},
         fresh \subseteq fresh',
         \A n \in Name : IF pods[n] = "absent" THEN pods'[n] = "present" => n \in fresh'
                         ELSE pods'[n] = pods[n]
  PROVE  LeftInv'
<1>1. undeleted \subseteq Name
  BY DEF IInv, TypeOK
<1>2. \A n \in undeleted' : pods'[n] = "present"
  BY <1>1, BehindFacts
<1>3. \A n \in Name : pods'[n] = "present" => n \in undeleted' \/ n \in abandoned \/ n \in fresh'
  BY BehindFacts
<1> QED
  BY <1>2, <1>3, GivenUp

\* An error that is found in nothing that was made.
LEMMA FailedLeft ==
  ASSUME IInv, LeftInv, GiveUp, UNCHANGED <<options, pods, fresh, undeleted>>
  PROVE  LeftInv'
<1>1. pods' \in [Name -> Status]
  BY DEF IInv, TypeOK
<1>2. Abandon /\ pc' = "next"
  BY DEF GiveUp, Goto
<1> QED
  BY <1>1, <1>2, BrokenOff

LEMMA BeginLeft ==
  ASSUME IInv, LeftInv, NEW s \in Subsystems, NEW p \in Phases, BeginPhase(s, p),
         UNCHANGED <<options, pods>>,
         \A n \in Name : pods[n] # "absent" =>
           pods[n] = "leaving" \/ n \in undeleted \/ n \in abandoned
  PROVE  LeftInv'
<1>1. /\ sub' = s /\ phase' = p /\ pc' = Entry(s)
      /\ jobs' = (IF Entry(s) = "preclean" THEN Removals(s, p) ELSE <<>>)
      /\ pending' = [t \in Tenants |-> FirstOf(s, t, p)]
      /\ UNCHANGED <<undeleted, abandoned>>
  BY DEF BeginPhase, Goto, History
<1>2. options \in Options
  BY DEF IInv, TypeOK
<1>3. OnRecord'
  BY <1>1 DEF LeftInv, OnRecord
<1>4. LeftSoFar'
  <2>1. \A n \in Name : pods'[n] # "absent" =>
          pods'[n] = "leaving" \/ n \in undeleted' \/ n \in abandoned'
    BY <1>1
  <2> QED
    BY <1>1, <2>1, ThenLeft
<1>5. ClearedSoFar'
  <2>1. s = "storage" => pc' = "preclean" /\ jobs' = Removals(s, p)
    BY <1>1 DEF Entry
  <2>2. s = "storage" => Objects(s, p) \subseteq UNION Members(jobs')
    BY <1>2, <2>1, RemovalsCover
  <2> QED
    BY <1>1, <2>1, <2>2, ThenLeft
<1>6. EachOnce'
  <2>1. ASSUME NEW t \in Tenants
        PROVE  /\ Apart(pending'[t])
               /\ \A n \in Members(pending'[t]) : n.part[1] = s /\ n.tenant = t /\ n \in Objects(s, p)
               /\ \A n \in Members(SecondOf(s, t, p)) :
                    n.part[1] = s /\ n.tenant = t /\ n \in Objects(s, p)
               /\ Members(pending'[t]) \intersect Members(SecondOf(s, t, p)) = {}
    <3>1. pending'[t] = FirstOf(s, t, p)
      BY <1>1
    <3>2. Members(FirstOf(s, t, p)) \union Members(SecondOf(s, t, p)) \subseteq Objects(s, p)
      BY DEF Objects
    <3> QED
      BY <1>2, <3>1, <3>2, OnceFacts
  <2>2. sub' = s /\ phase' = p
    BY <1>1
  <2> QED
    BY <2>1, <2>2, ThenLeft
<1> QED
  BY <1>3, <1>4, <1>5, <1>6 DEF LeftInv

LEMMA InitLeft == Init => LeftInv
<1> SUFFICES ASSUME Init PROVE LeftInv
  OBVIOUS
<1>1. pc = "start" /\ (\A n \in Name : pods[n] = "absent") /\ undeleted = {} /\ abandoned = {}
  BY DEF Init
<1>2. OnRecord
  BY <1>1 DEF OnRecord
<1> QED
  BY <1>1, <1>2, NowLeft DEF LeftInv

\* The steps of a command outside of its subsystems.
LEMMA CommandLeft == IInv /\ LeftInv /\ Command => LeftInv'
<1> SUFFICES ASSUME IInv, LeftInv, Command PROVE LeftInv'
  OBVIOUS
<1>1. ASSUME pc \notin {"create", "second", "wait", "collect", "clean"}
      PROVE  \A n \in Name : pods[n] # "absent" =>
               pods[n] = "leaving" \/ n \in undeleted \/ n \in abandoned
  BY <1>1, BehindFacts
<1>2. CASE NextSubsystem
  <2>1. /\ pc = "next" /\ todo # {} /\ BeginPhase(First(todo), "baseline")
        /\ UNCHANGED <<options, pods>>
    BY <1>2 DEF NextSubsystem
  <2>2. First(todo) \in Subsystems /\ "baseline" \in Phases
    BY <2>1, FirstFacts DEF IInv, TypeOK, Phases
  <2> QED
    BY <1>1, <2>1, <2>2, BeginLeft
<1>3. CASE StartCommand \/ StartFails \/ Summarise \/ EndCommand \/ NextCommand
  <2>1. /\ pc \in {"start", "next", "summary", "over", "panicked"}
        /\ pc' \in {"start", "next", "summary", "over", "panicked"}
        /\ UNCHANGED <<options, pods, undeleted, abandoned>>
    BY <1>3 DEF StartCommand, StartFails, Summarise, EndCommand, NextCommand, Goto, World, Plan,
                Course, History
  <2>2. \A n \in Name : pods'[n] # "absent" =>
          pods'[n] = "leaving" \/ n \in undeleted' \/ n \in abandoned'
    BY <1>1, <2>1
  <2>3. \A n \in undeleted' \union abandoned' : pods'[n] = "present"
    BY <2>1, BehindFacts
  <2> QED
    BY <2>1, <2>2, <2>3, SettledFacts
<1> QED
  BY <1>2, <1>3 DEF Command

LEMMA NextPhaseLeft ==
  ASSUME IInv, LeftInv, NextPhase, UNCHANGED <<options, pods>>,
         \A n \in Name : pods[n] # "absent" =>
           pods[n] = "leaving" \/ n \in undeleted \/ n \in abandoned
  PROVE  LeftInv'
<1>1. sub \in Subsystems /\ "unbalanced" \in Phases
  BY DEF IInv, TypeOK, Phases
<1>2. CASE phase = "baseline"
  BY <1>1, <1>2, BeginLeft DEF NextPhase
<1>3. CASE phase # "baseline"
  <2>1. pc' = "judge" /\ UNCHANGED <<undeleted, abandoned>>
    BY <1>3 DEF NextPhase, Goto, History
  <2>2. \A n \in undeleted' \union abandoned' : pods'[n] = "present"
    BY <2>1, BehindFacts
  <2> QED
    BY <2>1, <2>2, SettledFacts
<1> QED
  BY <1>2, <1>3

LEMMA LoadLeft == IInv /\ LeftInv /\ (Load \/ Cleaned) => LeftInv'
<1> SUFFICES ASSUME IInv, LeftInv, Load \/ Cleaned PROVE LeftInv'
  OBVIOUS
<1>1. /\ NextPhase /\ UNCHANGED <<options, pods>>
      /\ pc = "load" \/ (pc = "clean" /\ jobs = <<>>)
  BY DEF Load, Cleaned
<1>2. Members(<<>>) = {}
  BY DEF Members
<1>3. \A n \in Name : pods[n] # "absent" =>
        pods[n] = "leaving" \/ n \in undeleted \/ n \in abandoned
  BY <1>1, <1>2, NowLeft DEF LeftInv
<1> QED
  BY <1>1, <1>3, NextPhaseLeft

-----------------------------------------------------------------------------
LEMMA HeadFacts ==
  ASSUME NEW q \in Seq(Name), q # <<>>
  PROVE  /\ Head(q) \in Members(q) /\ Members(Tail(q)) \subseteq Members(q)
         /\ Apart(q) => Apart(Tail(q)) /\ Head(q) \notin Members(Tail(q))
<1>1. /\ DOMAIN q = 1 .. Len(q) /\ Len(q) \in Nat /\ Len(q) >= 1 /\ Head(q) = q[1]
      /\ DOMAIN Tail(q) = 1 .. Len(q) - 1 /\ \A i \in 1 .. Len(q) - 1 : Tail(q)[i] = q[i + 1]
  OBVIOUS
<1> DEFINE r == Tail(q)  h == Head(q)  n == Len(q)
<1>2. /\ DOMAIN q = 1 .. n /\ n \in Nat /\ n >= 1 /\ h = q[1] /\ DOMAIN r = 1 .. n - 1
      /\ \A i \in 1 .. n - 1 : r[i] = q[i + 1] /\ i + 1 \in 1 .. n
  BY <1>1
<1> HIDE DEF r, h, n
<1>3. h \in Members(q)
  BY <1>2 DEF Members
<1>4. Members(r) \subseteq Members(q)
  BY <1>2 DEF Members
<1>5. ASSUME Apart(q) PROVE Apart(r)
  <2>1. SUFFICES ASSUME NEW i \in 1 .. n - 1, NEW j \in 1 .. n - 1, r[i] = r[j] PROVE i = j
    BY <1>2 DEF Apart
  <2>2. q[i + 1] = q[j + 1] /\ i + 1 \in DOMAIN q /\ j + 1 \in DOMAIN q
    BY <1>2, <2>1
  <2>3. i + 1 = j + 1
    BY <1>5, <2>2 DEF Apart
  <2> QED
    BY <1>2, <2>3
<1>6. ASSUME Apart(q) PROVE h \notin Members(r)
  <2>1. SUFFICES ASSUME NEW i \in 1 .. n - 1, r[i] = h PROVE FALSE
    BY <1>2 DEF Members
  <2>2. q[i + 1] = q[1] /\ i + 1 \in DOMAIN q /\ 1 \in DOMAIN q
    BY <1>2, <2>1
  <2>3. i + 1 = 1
    BY <1>6, <2>2 DEF Apart
  <2> QED
    BY <1>2, <2>3
<1> QED
  BY <1>3, <1>4, <1>5, <1>6 DEF r, h

LEMMA DroppedLeft ==
  ASSUME IInv, LeftInv, options' = options, NEW t \in Tenants, NEW tried, tried \subseteq Name,
         Dropped(t, tried)
  PROVE  LeftInv'
<1>1. PICK late \in SUBSET (tried \union {Head(pending[u]) :
                                          u \in {v \in open \ {t} : pending[v] # <<>>}}) :
        Make({n \in late : pods[n] = "absent"})
  BY DEF Dropped
<1>2. TypeOK
  BY DEF IInv
<1>3. \A u \in open : pending[u] # <<>> => Head(pending[u]) \in Name
  BY <1>2 DEF TypeOK
<1>4. {n \in late : pods[n] = "absent"} \subseteq Name
  BY <1>1, <1>3
<1>5. pods' \in [Name -> Status]
  BY <1>1, <1>2, <1>4, MakeFacts
<1>6. /\ fresh \subseteq fresh'
      /\ \A n \in Name : IF pods[n] = "absent" THEN pods'[n] = "present" => n \in fresh'
                         ELSE pods'[n] = pods[n]
  BY <1>1, <1>4 DEF Make
<1>7. Abandon /\ pc' = "next" /\ undeleted' = undeleted
  BY DEF Dropped, Fail, GiveUp, Goto
<1> QED
  BY <1>5, <1>6, <1>7, BrokenOff

LEMMA CreateLeft == ASSUME NEW t \in Tenants PROVE IInv /\ LeftInv /\ Create(t) => LeftInv'
<1> SUFFICES ASSUME IInv, LeftInv, Create(t) PROVE LeftInv'
  OBVIOUS
<1> DEFINE q == pending[t]  n == Head(pending[t])
<1>1. /\ pc \in {"create", "second"} /\ t \in open /\ q # <<>>
      /\ UNCHANGED <<options, sub, phase>>
  BY DEF Create, Creating, Plan
<1>2. q \in Seq(Name) /\ pending \in [Tenants -> Seq(Name)] /\ n \in Name
  BY <1>1 DEF IInv, TypeOK
<1>3. /\ Apart(q)
      /\ \A m \in Members(q) : m.part[1] = sub /\ m.tenant = t /\ m \in Objects(sub, phase)
      /\ pc = "create" => Members(q) \intersect Members(SecondOf(sub, t, phase)) = {}
  BY <1>1, NowLeft DEF LeftInv
<1>4. /\ n \in Members(q) /\ Members(Tail(q)) \subseteq Members(q)
      /\ Apart(Tail(q)) /\ n \notin Members(Tail(q))
  BY <1>1, <1>2, <1>3, HeadFacts
<1>5. CASE pods[n] # "absent"
  <2>1. GiveUp /\ UNCHANGED <<pods, fresh, undeleted>>
    BY <1>5 DEF Create, World
  <2> QED
    BY <1>1, <2>1, FailedLeft
<1>6. CASE pods[n] = "absent" /\ Dropped(t, {n})
  <2>1. {n} \subseteq Name
    BY <1>2
  <2> QED
    BY <1>1, <1>6, <2>1, DroppedLeft
<1>7. CASE /\ pods[n] = "absent" /\ Make({n} \ There)
           /\ pending' = [pending EXCEPT ![t] = Tail(@)]
           /\ UNCHANGED <<samples, pc, open, jobs, failed, undeleted, abandoned, mishaps>>
  <2>1. /\ \A m \in Name : m # n => pods'[m] = pods[m]
        /\ n \in fresh' /\ fresh \subseteq fresh'
    BY <1>7 DEF Make, There
  <2>2. pending'[t] = Tail(q) /\ \A u \in Tenants : u # t => pending'[u] = pending[u]
    BY <1>2, <1>7
  <2>3. \A u \in Tenants : Members(pending'[u]) \subseteq Members(pending[u])
    BY <1>4, <2>2
  <2>4. \A m \in Name : m.tenant \in Tenants
    BY DEF Name
  <2>5. InSubsystem /\ InSubsystem'
    BY <1>1, <1>7 DEF InSubsystem, InCommand
  <2>6. /\ n.part[1] = sub /\ n.tenant = t /\ n \in Objects(sub, phase)
        /\ n \notin Members(pending'[n.tenant])
        /\ pc = "create" => n \notin Members(SecondOf(sub, n.tenant, phase))
    BY <1>3, <1>4, <2>2
  <2> HIDE DEF n, q
  <2>7. LeftSoFar'
    <3>1. ASSUME NEW m \in Name, pods'[m] # "absent"
          PROVE  \/ pods'[m] = "leaving" \/ m \in undeleted' \/ m \in abandoned'
                 \/ /\ InSubsystem' /\ m \in fresh' /\ m \in Objects(sub, phase)
                    /\ m \notin Members(pending'[m.tenant])
                    /\ pc' = "create" => m \notin Members(SecondOf(sub, m.tenant, phase))
      <4>1. CASE m = n
        BY <1>7, <2>1, <2>5, <2>6, <4>1
      <4>2. CASE m # n
        <5>1. pods'[m] = pods[m] /\ pods[m] # "absent"
          BY <2>1, <3>1, <4>2
        <5>2. \/ pods[m] = "leaving" \/ m \in undeleted \/ m \in abandoned
              \/ /\ m \in fresh /\ m \in Objects(sub, phase)
                 /\ m \notin Members(pending[m.tenant])
                 /\ pc = "create" => m \notin Members(SecondOf(sub, m.tenant, phase))
          BY <1>1, <5>1, NowLeft DEF LeftInv
        <5>3. m \notin Members(pending[m.tenant]) => m \notin Members(pending'[m.tenant])
          BY <2>3, <2>4
        <5> QED
          BY <1>7, <2>1, <2>5, <5>1, <5>2, <5>3
      <4> QED
        BY <4>1, <4>2
    <3>2. pc' \in {"create", "second", "wait", "collect"}
      BY <1>1, <1>7
    <3> QED
      BY <1>1, <3>1, <3>2, ThenExplained
  <2>8. ClearedSoFar'
    <3>1. ASSUME sub = "storage", NEW m \in Name, m \in Objects(sub, phase), pods'[m] # "absent"
          PROVE  \/ pods'[m] = "leaving" \/ m \in undeleted'
                 \/ /\ m \notin Members(pending'[m.tenant])
                    /\ pc' = "create" => m \notin Members(SecondOf(sub, m.tenant, phase))
      <4>1. CASE m = n
        BY <1>7, <2>6, <4>1
      <4>2. CASE m # n
        <5>1. pods'[m] = pods[m] /\ pods[m] # "absent"
          BY <2>1, <3>1, <4>2
        <5>2. \/ pods[m] = "leaving" \/ m \in undeleted
              \/ /\ m \notin Members(pending[m.tenant])
                 /\ pc = "create" => m \notin Members(SecondOf(sub, m.tenant, phase))
          BY <1>1, <3>1, <5>1, NowLeft DEF LeftInv
        <5>3. m \notin Members(pending[m.tenant]) => m \notin Members(pending'[m.tenant])
          BY <2>3, <2>4
        <5> QED
          BY <1>7, <5>1, <5>2, <5>3
      <4> QED
        BY <4>1, <4>2
    <3>2. pc' # "preclean" /\ options' = options /\ sub' = sub /\ phase' = phase
      BY <1>1, <1>7
    <3> QED
      BY <3>1, <3>2, ThenCleared
  <2>9. EachOnce'
    <3>1. ASSUME NEW u \in Tenants
          PROVE  /\ Apart(pending'[u])
                 /\ \A m \in Members(pending'[u]) : m.part[1] = sub /\ m.tenant = u /\ m \in Objects(sub, phase)
                 /\ pc' = "create" =>
                      /\ \A m \in Members(SecondOf(sub, u, phase)) :
                           m.part[1] = sub /\ m.tenant = u /\ m \in Objects(sub, phase)
                      /\ Members(pending'[u]) \intersect Members(SecondOf(sub, u, phase)) = {}
      <4>1. /\ Apart(pending[u])
            /\ \A m \in Members(pending[u]) : m.part[1] = sub /\ m.tenant = u /\ m \in Objects(sub, phase)
            /\ pc = "create" =>
                 /\ \A m \in Members(SecondOf(sub, u, phase)) :
                      m.part[1] = sub /\ m.tenant = u /\ m \in Objects(sub, phase)
                 /\ Members(pending[u]) \intersect Members(SecondOf(sub, u, phase)) = {}
        BY <1>1, NowLeft DEF LeftInv
      <4>2. Apart(pending'[u])
        BY <1>4, <2>2, <4>1
      <4>3. Members(pending'[u]) \subseteq Members(pending[u])
        BY <2>3
      <4> QED
        BY <1>7, <4>1, <4>2, <4>3
    <3> QED
      BY <1>1, <3>1, ThenOnce
  <2>10. OnRecord'
    <3>1. undeleted \union abandoned \subseteq Name
      BY DEF IInv, TypeOK
    <3>2. \A m \in undeleted \union abandoned : pods'[m] = "present"
      BY <1>7, <2>1, <3>1, BehindFacts
    <3> QED
      BY <1>7, <3>2 DEF OnRecord
  <2> QED
    BY <2>7, <2>8, <2>9, <2>10 DEF LeftInv
<1> QED
  BY <1>5, <1>6, <1>7 DEF Create, Created, History

LEMMA ReadyLeft == ASSUME NEW t \in Tenants PROVE IInv /\ LeftInv /\ Ready(t) => LeftInv'
<1> SUFFICES ASSUME IInv, LeftInv, Ready(t) PROVE LeftInv'
  OBVIOUS
<1>1. /\ Creating /\ pc \in {"create", "second"} /\ UNCHANGED <<options, sub, phase>>
  BY DEF Ready, Creating, Plan
<1>2. CASE Dropped(t, {})
  BY <1>1, <1>2, DroppedLeft
<1>3. CASE /\ Advance(open \ {t})
           /\ UNCHANGED <<pods, fresh, samples, jobs, failed, undeleted, abandoned, mishaps>>
  <2>1. /\ UNCHANGED <<options, sub, phase, pods, fresh, undeleted, abandoned>>
        /\ \/ UNCHANGED <<pc, pending>>
           \/ pc = "create" /\ pc' = "second" /\ pending' = [u \in Tenants |-> SecondOf(sub, u, phase)]
           \/ pc' = "wait" /\ pending' = Idle
    BY <1>1, <1>3 DEF Advance, Goto, Second
  <2>2. \A m \in Name : m.tenant \in Tenants
    BY DEF Name
  <2>3. InSubsystem /\ InSubsystem' /\ pc' \in {"create", "second", "wait", "collect"}
    BY <1>1, <2>1 DEF InSubsystem, InCommand
  <2>4. Members(<<>>) = {}
    BY DEF Members
  <2>5. \A u \in Tenants : \A m \in Members(pending'[u]) :
          m \in Members(pending[u]) \/ (pc = "create" /\ pc' # "create" /\ m \in Members(SecondOf(sub, u, phase)))
    <3>1. CASE UNCHANGED <<pc, pending>>
      BY <3>1
    <3>2. CASE pc = "create" /\ pc' = "second" /\ pending' = [u \in Tenants |-> SecondOf(sub, u, phase)]
      BY <3>2
    <3>3. CASE pc' = "wait" /\ pending' = Idle
      BY <2>4, <3>3 DEF Idle
    <3> QED
      BY <2>1, <3>1, <3>2, <3>3
  <2>6. pc' = "create" => pc = "create"
    BY <2>1
  <2>7. LeftSoFar'
    <3>1. ASSUME NEW m \in Name, pods'[m] # "absent"
          PROVE  \/ pods'[m] = "leaving" \/ m \in undeleted' \/ m \in abandoned'
                 \/ /\ InSubsystem' /\ m \in fresh' /\ m \in Objects(sub, phase)
                    /\ m \notin Members(pending'[m.tenant])
                    /\ pc' = "create" => m \notin Members(SecondOf(sub, m.tenant, phase))
      <4>1. \/ pods[m] = "leaving" \/ m \in undeleted \/ m \in abandoned
            \/ /\ m \in fresh /\ m \in Objects(sub, phase)
               /\ m \notin Members(pending[m.tenant])
               /\ pc = "create" => m \notin Members(SecondOf(sub, m.tenant, phase))
        BY <1>1, <2>1, <3>1, NowLeft DEF LeftInv
      <4> QED
        BY <2>1, <2>2, <2>3, <2>5, <2>6, <4>1
    <3> QED
      BY <2>1, <2>3, <3>1, ThenExplained
  <2>8. ClearedSoFar'
    <3>1. ASSUME sub = "storage", NEW m \in Name, m \in Objects(sub, phase), pods'[m] # "absent"
          PROVE  \/ pods'[m] = "leaving" \/ m \in undeleted'
                 \/ /\ m \notin Members(pending'[m.tenant])
                    /\ pc' = "create" => m \notin Members(SecondOf(sub, m.tenant, phase))
      <4>1. \/ pods[m] = "leaving" \/ m \in undeleted
            \/ /\ m \notin Members(pending[m.tenant])
               /\ pc = "create" => m \notin Members(SecondOf(sub, m.tenant, phase))
        BY <1>1, <2>1, <3>1, NowLeft DEF LeftInv
      <4> QED
        BY <2>1, <2>2, <2>5, <2>6, <4>1
    <3>2. pc' # "preclean"
      BY <2>3
    <3> QED
      BY <2>1, <3>1, <3>2, ThenCleared
  <2>9. EachOnce'
    <3>1. options \in Options /\ sub \in Subsystems /\ phase \in Phases
      BY DEF IInv, TypeOK
    <3>2. ASSUME NEW u \in Tenants, pc' \in {"create", "second"}
          PROVE  /\ Apart(pending'[u])
                 /\ \A m \in Members(pending'[u]) : m.part[1] = sub /\ m.tenant = u /\ m \in Objects(sub, phase)
                 /\ pc' = "create" =>
                      /\ \A m \in Members(SecondOf(sub, u, phase)) :
                           m.part[1] = sub /\ m.tenant = u /\ m \in Objects(sub, phase)
                      /\ Members(pending'[u]) \intersect Members(SecondOf(sub, u, phase)) = {}
      <4>1. /\ Apart(pending[u])
            /\ \A m \in Members(pending[u]) : m.part[1] = sub /\ m.tenant = u /\ m \in Objects(sub, phase)
            /\ pc = "create" =>
                 /\ \A m \in Members(SecondOf(sub, u, phase)) :
                      m.part[1] = sub /\ m.tenant = u /\ m \in Objects(sub, phase)
                 /\ Members(pending[u]) \intersect Members(SecondOf(sub, u, phase)) = {}
        BY <1>1, NowLeft DEF LeftInv
      <4>2. CASE UNCHANGED <<pc, pending>>
        BY <4>1, <4>2
      <4>3. CASE pc = "create" /\ pc' = "second" /\ pending' = [v \in Tenants |-> SecondOf(sub, v, phase)]
        <5>1. pending'[u] = SecondOf(sub, u, phase)
          BY <4>3
        <5>2. Apart(SecondOf(sub, u, phase))
          BY <3>1, OnceFacts
        <5> QED
          BY <4>1, <4>3, <5>1, <5>2
      <4> QED
        BY <2>1, <3>2, <4>2, <4>3
    <3> QED
      BY <2>1, <3>2, ThenOnce
  <2>10. OnRecord'
    BY <2>1 DEF LeftInv, OnRecord
  <2> QED
    BY <2>7, <2>8, <2>9, <2>10 DEF LeftInv
<1> QED
  BY <1>2, <1>3 DEF Ready, World, History

LEMMA WaitLeft == IInv /\ LeftInv /\ Wait => LeftInv'
<1> SUFFICES ASSUME IInv, LeftInv, Wait PROVE LeftInv'
  OBVIOUS
<1>1. pc = "wait" /\ UNCHANGED <<options, sub, phase, pods, fresh>>
  BY DEF Wait, Plan, World
<1>2. CASE Fail
  BY <1>1, <1>2, FailedLeft DEF Fail
<1>3. CASE Goto("collect") /\ Course /\ UNCHANGED samples
  <2>1. pc' = "collect" /\ UNCHANGED <<pending, undeleted, abandoned>>
    BY <1>3 DEF Goto, Course, History
  <2>2. InSubsystem'
    BY <2>1 DEF InSubsystem, InCommand
  <2>3. ASSUME NEW m \in Name, pods'[m] # "absent"
        PROVE  \/ pods'[m] = "leaving" \/ m \in undeleted' \/ m \in abandoned'
               \/ m \in fresh' /\ m \in Objects(sub, phase) /\ m \notin Members(pending'[m.tenant])
    BY <1>1, <2>1, <2>3, NowLeft DEF LeftInv
  <2>4. LeftSoFar'
    BY <1>1, <2>1, <2>2, <2>3, ThenExplained
  <2>5. ClearedSoFar' /\ EachOnce' /\ OnRecord'
    BY <1>1, <2>1 DEF LeftInv, OnRecord, ClearedSoFar, EachOnce, Creating
  <2> QED
    BY <2>4, <2>5 DEF LeftInv
<1> QED
  BY <1>2, <1>3 DEF Wait

LEMMA CollectLeft == IInv /\ LeftInv /\ Collect => LeftInv'
<1> SUFFICES ASSUME IInv, LeftInv, Collect PROVE LeftInv'
  OBVIOUS
<1>1. pc = "collect" /\ UNCHANGED <<options, sub, phase, pods, fresh>>
  BY DEF Collect, Plan, World
<1>2. CASE Fail
  BY <1>1, <1>2, FailedLeft DEF Fail
<1>3. CASE GiveUp /\ UNCHANGED undeleted
  BY <1>1, <1>3, FailedLeft
<1>4. CASE Goto("clean") /\ jobs' = Removals(sub, phase) /\ UNCHANGED <<undeleted, abandoned>>
  <2>1. pc' = "clean" /\ jobs' = Removals(sub, phase) /\ UNCHANGED <<undeleted, abandoned>>
    BY <1>4 DEF Goto
  <2>2. InSubsystem'
    BY <2>1 DEF InSubsystem, InCommand
  <2>3. Objects(sub, phase) \subseteq UNION Members(jobs')
    BY <2>1, RemovalsCover DEF IInv, TypeOK
  <2>4. ASSUME NEW m \in Name, pods'[m] # "absent"
        PROVE  \/ pods'[m] = "leaving" \/ m \in undeleted' \/ m \in abandoned'
               \/ m \in fresh' /\ m \in UNION Members(jobs')
    BY <1>1, <2>1, <2>3, <2>4, NowLeft DEF LeftInv
  <2>5. LeftSoFar'
    BY <1>1, <2>1, <2>2, <2>4, ThenExplained
  <2>6. ClearedSoFar' /\ EachOnce' /\ OnRecord'
    BY <1>1, <2>1 DEF LeftInv, OnRecord, ClearedSoFar, EachOnce, Creating
  <2> QED
    BY <2>5, <2>6 DEF LeftInv
<1> QED
  BY <1>2, <1>3, <1>4 DEF Collect

\* What a clean-up does not get away is leaving, or on record.
LEMMA RemoveLeft == IInv /\ LeftInv /\ Remove => LeftInv'
<1> SUFFICES ASSUME IInv, LeftInv, Remove PROVE LeftInv'
  OBVIOUS
<1> DEFINE set == Head(jobs) \intersect There
<1>1. pc \in {"preclean", "clean"} /\ jobs # <<>> /\ UNCHANGED <<options, sub, phase, fresh>>
  BY DEF Remove, Plan
<1>2. PICK left \in Outcomes(set) :
        /\ Possible(set, left)
        /\ pods' = [n \in Name |-> IF n \in left.linger THEN "leaving"
                                  ELSE IF n \in set \ left.stay THEN "absent" ELSE pods[n]]
        /\ undeleted' = (undeleted \ set) \union left.stay
        /\ \/ /\ jobs' = Tail(jobs) /\ abandoned' = abandoned \ set
              /\ UNCHANGED <<samples, pc, pending, open, failed>>
           \/ GiveUp
  BY DEF Remove
<1>3. /\ left.stay \subseteq set /\ left.linger \subseteq set
      /\ left.stay \intersect left.linger = {}
  BY <1>2 DEF Outcomes, Few
<1>4. /\ \A n \in Name : n \in set <=> n \in Head(jobs) /\ pods[n] # "absent"
      /\ set \subseteq Name /\ undeleted \subseteq Name /\ abandoned \subseteq Name
      /\ pods' \in [Name -> Status]
  BY <1>2 DEF There, IInv, TypeOK, Status
<1>5. \A n \in left.stay : pods[n] = "present"
  BY <1>2 DEF Possible
<1> HIDE DEF set
<1>6. /\ \A n \in Name : n \in left.stay => pods'[n] = "present" /\ n \in undeleted'
      /\ \A n \in Name : n \in set /\ n \notin left.stay =>
           (pods'[n] = "leaving" \/ pods'[n] = "absent") /\ n \notin undeleted'
      /\ \A n \in Name : n \notin set => pods'[n] = pods[n] /\ (n \in undeleted' <=> n \in undeleted)
  BY <1>2, <1>3, <1>5
<1>7. \A n \in undeleted' : pods'[n] = "present"
  <2>1. SUFFICES ASSUME NEW n \in undeleted' PROVE pods'[n] = "present"
    OBVIOUS
  <2>2. n \in Name
    BY <1>2, <1>3, <1>4
  <2>3. n \in left.stay \/ (n \notin set /\ n \in undeleted)
    BY <1>6, <2>2
  <2> QED
    BY <1>6, <2>2, <2>3, BehindFacts
<1>8. CASE GiveUp
  <2>1. Abandon /\ pc' = "next"
    BY <1>8 DEF GiveUp, Goto
  <2>2. ASSUME NEW n \in Name, pods'[n] = "present"
        PROVE  n \in undeleted' \/ n \in abandoned \/ n \in fresh'
    <3>1. n \in left.stay \/ n \notin set
      BY <1>6, <2>2
    <3>2. n \notin set => pods[n] = "present" /\ (n \in undeleted' <=> n \in undeleted)
      BY <1>6, <2>2
    <3> QED
      BY <1>1, <1>6, <3>1, <3>2, BehindFacts
  <2> QED
    BY <1>1, <1>4, <1>7, <2>1, <2>2, GivenUp
<1>9. CASE /\ jobs' = Tail(jobs) /\ abandoned' = abandoned \ set
           /\ UNCHANGED <<samples, pc, pending, open, failed>>
  <2>1. ASSUME NEW n \in UNION Members(jobs) PROVE n \in Head(jobs) \/ n \in UNION Members(jobs')
    <3> DEFINE q == jobs
    <3>1. q \in Seq(SUBSET Name) /\ q # <<>>
      BY <1>1 DEF IInv, TypeOK
    <3>2. PICK i \in DOMAIN q : n \in q[i]
      BY <2>1 DEF Members
    <3> HIDE DEF q
    <3>3. /\ DOMAIN q = 1 .. Len(q) /\ Len(q) \in Nat /\ q[1] = Head(q)
          /\ DOMAIN Tail(q) = 1 .. Len(q) - 1
          /\ i # 1 => i - 1 \in 1 .. Len(q) - 1 /\ Tail(q)[i - 1] = q[i]
      BY <3>1, <3>2
    <3>4. i # 1 => n \in UNION Members(Tail(q))
      BY <3>2, <3>3 DEF Members
    <3> QED
      BY <1>9, <3>2, <3>3, <3>4 DEF q
  <2>2. OnRecord'
    <3>1. \A n \in abandoned' : pods'[n] = "present"
      BY <1>4, <1>6, <1>9, BehindFacts
    <3> QED
      BY <1>7, <3>1 DEF OnRecord
  <2>3. ASSUME NEW m \in set, pods'[m] # "absent" PROVE pods'[m] = "leaving" \/ m \in undeleted'
    <3>1. m \in Name
      BY <1>4
    <3>2. CASE m \in left.stay
      BY <1>6, <3>1, <3>2
    <3>3. CASE m \notin left.stay
      BY <1>6, <2>3, <3>1, <3>3
    <3> QED
      BY <3>2, <3>3
  <2>4. LeftSoFar'
    <3>1. ASSUME NEW m \in Name, pods'[m] # "absent"
          PROVE  \/ pods'[m] = "leaving" \/ m \in undeleted' \/ m \in abandoned'
                 \/ m \in fresh' /\ pc' = "clean" /\ m \in UNION Members(jobs')
      <4>1. CASE m \in set
        BY <2>3, <3>1, <4>1
      <4>2. CASE m \notin set
        <5>1. pods'[m] = pods[m] /\ pods[m] # "absent" /\ m \notin Head(jobs)
          BY <1>4, <1>6, <3>1, <4>2
        <5>2. \/ pods[m] = "leaving" \/ m \in undeleted \/ m \in abandoned
              \/ m \in fresh /\ pc = "clean" /\ m \in UNION Members(jobs)
          BY <1>1, <5>1, NowLeft DEF LeftInv
        <5> QED
          BY <1>1, <1>6, <1>9, <2>1, <4>2, <5>1, <5>2
      <4> QED
        BY <4>1, <4>2
    <3>2. InSubsystem'
      BY <1>1, <1>9 DEF InSubsystem, InCommand
    <3> QED
      BY <1>1, <3>1, <3>2, ThenExplained
  <2>5. ClearedSoFar'
    <3>1. ASSUME sub = "storage", pc = "preclean", NEW m \in Name, m \in Objects(sub, phase),
                 pods'[m] # "absent"
          PROVE  pods'[m] = "leaving" \/ m \in undeleted' \/ m \in UNION Members(jobs')
      <4>1. CASE m \in set
        BY <2>3, <3>1, <4>1
      <4>2. CASE m \notin set
        <5>1. pods'[m] = pods[m] /\ pods[m] # "absent" /\ m \notin Head(jobs)
          BY <1>4, <1>6, <3>1, <4>2
        <5>2. pods[m] = "leaving" \/ m \in undeleted \/ m \in UNION Members(jobs)
          BY <3>1, <5>1, NowLeft DEF LeftInv
        <5> QED
          BY <1>6, <2>1, <4>2, <5>1, <5>2
      <4> QED
        BY <4>1, <4>2
    <3>2. pc' \in {"preclean", "create", "second"} => pc = "preclean" /\ pc' = "preclean"
      BY <1>1, <1>9
    <3> QED
      BY <1>1, <3>1, <3>2, ThenCleared
  <2>6. EachOnce'
    BY <1>1, <1>9 DEF EachOnce, Creating
  <2> QED
    BY <2>2, <2>4, <2>5, <2>6 DEF LeftInv
<1> QED
  BY <1>2, <1>8, <1>9

LEMMA PrecleanedLeft == IInv /\ LeftInv /\ Precleaned => LeftInv'
<1> SUFFICES ASSUME IInv, LeftInv, Precleaned PROVE LeftInv'
  OBVIOUS
<1>1. /\ pc = "preclean" /\ jobs = <<>> /\ pc' = "create"
      /\ UNCHANGED <<options, sub, phase, pods, fresh, pending, undeleted, abandoned>>
  BY DEF Precleaned, Goto, Plan, World, Course, History
<1>2. /\ options \in Options /\ sub \in Subsystems /\ phase \in Phases
      /\ pending = [t \in Tenants |-> FirstOf(sub, t, phase)]
  BY <1>1, NowProbes DEF IInv, TypeOK
<1>3. Members(<<>>) = {}
  BY DEF Members
<1>4. LeftSoFar'
  <2>1. \A m \in Name : pods'[m] # "absent" =>
          pods'[m] = "leaving" \/ m \in undeleted' \/ m \in abandoned'
    BY <1>1, BehindFacts
  <2> QED
    BY <1>1, <2>1, ThenExplained
<1>5. ClearedSoFar'
  <2>1. ASSUME sub = "storage", NEW m \in Name, m \in Objects(sub, phase), pods'[m] # "absent"
        PROVE  pods'[m] = "leaving" \/ m \in undeleted'
    BY <1>1, <1>3, <2>1, NowLeft DEF LeftInv
  <2> QED
    BY <1>1, <2>1, ThenCleared
<1>6. EachOnce'
  <2>1. ASSUME NEW t \in Tenants
        PROVE  /\ Apart(pending'[t])
               /\ \A n \in Members(pending'[t]) : n.part[1] = sub /\ n.tenant = t /\ n \in Objects(sub, phase)
               /\ \A n \in Members(SecondOf(sub, t, phase)) :
                    n.part[1] = sub /\ n.tenant = t /\ n \in Objects(sub, phase)
               /\ Members(pending'[t]) \intersect Members(SecondOf(sub, t, phase)) = {}
    <3>1. pending'[t] = FirstOf(sub, t, phase)
      BY <1>1, <1>2
    <3>2. Members(FirstOf(sub, t, phase)) \union Members(SecondOf(sub, t, phase)) \subseteq Objects(sub, phase)
      BY DEF Objects
    <3> QED
      BY <1>2, <3>1, <3>2, OnceFacts
  <2> QED
    BY <1>1, <2>1, ThenOnce
<1>7. OnRecord'
  BY <1>1 DEF LeftInv, OnRecord
<1> QED
  BY <1>4, <1>5, <1>6, <1>7 DEF LeftInv

LEMMA VerdictLeft == IInv /\ LeftInv /\ Verdict => LeftInv'
<1> SUFFICES ASSUME IInv, LeftInv, Verdict PROVE LeftInv'
  OBVIOUS
<1>1. pc \in {"judge", "tables", "manifest"} /\ UNCHANGED <<options, sub, phase, pods, fresh>>
  BY DEF Verdict, Judge, WriteTables, WriteManifest, Plan, World
<1>2. CASE Fail
  BY <1>1, <1>2, FailedLeft DEF Fail
<1>3. CASE pc' \in {"next", "tables", "manifest"} /\ UNCHANGED <<undeleted, abandoned>>
  <2>1. \A m \in Name : pods'[m] # "absent" =>
          pods'[m] = "leaving" \/ m \in undeleted' \/ m \in abandoned'
    BY <1>1, <1>3, BehindFacts
  <2>2. \A m \in undeleted' \union abandoned' : pods'[m] = "present"
    BY <1>1, <1>3, BehindFacts
  <2> QED
    BY <1>1, <1>3, <2>1, <2>2, SettledFacts
<1>4. Fail \/ (pc' \in {"next", "tables", "manifest"} /\ UNCHANGED <<undeleted, abandoned>>)
  BY DEF Verdict, Judge, WriteTables, WriteManifest, Record, Goto, Course, History
<1> QED
  BY <1>2, <1>3, <1>4

LEMMA VanishLeft == IInv /\ LeftInv /\ Vanish => LeftInv'
<1> SUFFICES ASSUME IInv, LeftInv, Vanish PROVE LeftInv'
  OBVIOUS
<1>1. UNCHANGED <<options, sub, phase, pc, fresh, pending, jobs, undeleted, abandoned>>
  BY DEF Vanish, Plan, Course, History
<1>2. \A m \in Name : pods'[m] # "absent" \/ pods[m] = "present" =>
        pods'[m] = pods[m] /\ pods[m] # "absent"
  <2>1. pods \in [Name -> Status]
    BY DEF IInv, TypeOK
  <2> QED
    BY <2>1 DEF Vanish
<1>3. InSubsystem' <=> InSubsystem
  BY <1>1 DEF InSubsystem, InCommand
<1>4. LeftSoFar'
  <2>1. ASSUME NEW m \in Name, pods'[m] # "absent"
        PROVE  \/ pods'[m] = "leaving" \/ m \in undeleted \/ m \in abandoned
               \/ /\ InSubsystem /\ m \in fresh
                  /\ \/ /\ pc \in {"create", "second", "wait", "collect"} /\ m \in Objects(sub, phase)
                        /\ m \notin Members(pending[m.tenant])
                        /\ pc = "create" => m \notin Members(SecondOf(sub, m.tenant, phase))
                     \/ pc = "clean" /\ m \in UNION Members(jobs)
    BY <1>2, <2>1, NowLeft DEF LeftInv
  <2> QED
    BY <1>1, <1>3, <2>1, ThenExplained
<1>5. ClearedSoFar'
  <2>1. ASSUME sub = "storage", pc \in {"preclean", "create", "second"}, NEW m \in Name,
               m \in Objects(sub, phase), pods'[m] # "absent"
        PROVE  \/ pods'[m] = "leaving" \/ m \in undeleted
               \/ pc = "preclean" /\ m \in UNION Members(jobs)
               \/ /\ pc # "preclean" /\ m \notin Members(pending[m.tenant])
                  /\ pc = "create" => m \notin Members(SecondOf(sub, m.tenant, phase))
    BY <1>2, <2>1, NowLeft DEF LeftInv
  <2> QED
    BY <1>1, <2>1, ThenCleared
<1>6. EachOnce'
  BY <1>1, NowLeft, ThenLeft DEF LeftInv
<1>7. OnRecord'
  <2>1. undeleted \union abandoned \subseteq Name
    BY DEF IInv, TypeOK
  <2>2. \A m \in undeleted \union abandoned : pods'[m] = "present"
    BY <1>2, <2>1, BehindFacts
  <2> QED
    BY <1>1, <2>2 DEF OnRecord
<1> QED
  BY <1>4, <1>5, <1>6, <1>7 DEF LeftInv

LEMMA KillLeft == IInv /\ LeftInv /\ Kill => LeftInv'
<1> SUFFICES ASSUME IInv, LeftInv, Kill PROVE LeftInv'
  OBVIOUS
<1>1. pc' = "over" /\ Abandon /\ UNCHANGED <<options, pods, fresh, undeleted>>
  BY DEF Kill, Goto, World
<1>2. pods' \in [Name -> Status]
  BY <1>1 DEF IInv, TypeOK
<1> QED
  BY <1>1, <1>2, BrokenOff

LEMMA SameLeft == LeftInv /\ UNCHANGED vars => LeftInv'
<1> SUFFICES ASSUME LeftInv, UNCHANGED vars PROVE LeftInv'
  OBVIOUS
<1>1. UNCHANGED <<options, sub, phase, pods, fresh, pc, pending, jobs, undeleted, abandoned>>
  BY DEF vars
<1>2. InSubsystem' <=> InSubsystem
  BY <1>1 DEF InSubsystem, InCommand
<1>3. LeftSoFar'
  BY <1>1, <1>2, NowLeft, ThenLeft DEF LeftInv
<1>4. ClearedSoFar' /\ EachOnce'
  BY <1>1, NowLeft, ThenLeft DEF LeftInv
<1>5. OnRecord'
  BY <1>1 DEF LeftInv, OnRecord
<1> QED
  BY <1>3, <1>4, <1>5 DEF LeftInv

LEMMA StepLeft == IInv /\ LeftInv /\ [Next]_vars => LeftInv'
<1> SUFFICES ASSUME IInv, LeftInv, [Next]_vars PROVE LeftInv'
  OBVIOUS
<1>1. CASE Phase
  BY <1>1, LoadLeft, CreateLeft, ReadyLeft, WaitLeft, CollectLeft, RemoveLeft, PrecleanedLeft DEF Phase
<1>2. CASE Command \/ Verdict \/ Vanish \/ Kill
  BY <1>2, CommandLeft, VerdictLeft, VanishLeft, KillLeft
<1>3. CASE Ended \/ UNCHANGED vars
  BY <1>3, SameLeft DEF Ended
<1> QED
  BY <1>1, <1>2, <1>3 DEF Next, Harness

LEMMA LeftInvariant == Spec => []LeftInv
BY InitLeft, StepLeft, Invariant, PTL DEF Spec

\* What is in the way of an object that is to be created was left there by a deletion that goes
\* on, by one that failed, or by a phase that was broken off before it came to that; and the
\* storage assessor, which deletes what it is about to make, never meets with the last.
THEOREM Obstacles == Spec => []ObstaclesAreExplained
<1>1. IInv /\ LeftInv => ObstaclesAreExplained
  <2> SUFFICES ASSUME IInv, LeftInv, NEW t \in Tenants, InTheWay(t)
               PROVE  LET n == Head(pending[t])
                      IN Fading(n) \/ (sub # "storage" /\ n \in abandoned)
    BY DEF ObstaclesAreExplained
  <2> DEFINE n == Head(pending[t])
  <2>1. /\ pc \in {"create", "second"} /\ pending[t] # <<>> /\ pods[n] # "absent"
        /\ pending[t] \in Seq(Name)
    BY DEF InTheWay, Creating, IInv, TypeOK
  <2>2. n \in Name /\ n \in Members(pending[t])
    BY <2>1, HeadFacts
  <2>3. n.tenant = t /\ n \in Objects(sub, phase)
    BY <2>1, <2>2, NowLeft DEF LeftInv
  <2> HIDE DEF n
  <2>4. pods[n] = "leaving" \/ n \in undeleted \/ n \in abandoned
    BY <2>1, <2>2, <2>3, NowLeft DEF LeftInv
  <2>5. sub = "storage" => pods[n] = "leaving" \/ n \in undeleted
    BY <2>1, <2>2, <2>3, NowLeft DEF LeftInv
  <2> QED
    BY <2>4, <2>5 DEF Fading, n
<1> QED
  BY <1>1, Invariant, LeftInvariant, PTL

\* What makes load beside a baseline that is measured is leaving, or was asked to go and did
\* not, or was abandoned: in the storage assessor too, whose clearance asks for the pods of its
\* own phase only.
THEOREM Noise == Spec => []NoiseIsExplained
<1>1. IInv /\ LeftInv => NoiseIsExplained
  <2> SUFFICES ASSUME IInv, LeftInv, pc = "wait", phase = "baseline",
                      NEW n \in Name \ Probes(sub, phase), n.part[2] \in {"probe", "noise"},
                      pods[n] # "absent"
               PROVE  Fading(n) \/ n \in abandoned
    BY DEF NoiseIsExplained
  <2>1. \/ pods[n] = "leaving" \/ n \in undeleted \/ n \in abandoned
        \/ n \in Objects(sub, "baseline")
    BY NowLeft DEF LeftInv
  <2>2. options \in Options /\ sub \in Subsystems
    BY DEF IInv, TypeOK
  <2>3. n \notin Objects(sub, "baseline")
    BY <2>2, BaselineFacts
  <2> QED
    BY <2>1, <2>3 DEF Fading
<1> QED
  BY <1>1, Invariant, LeftInvariant, PTL

-----------------------------------------------------------------------------
(***************************************************************************)
(* The steps run out: what Termination owes to the command alone.          *)
(***************************************************************************)
Within == {"load", "preclean", "create", "second", "wait", "collect", "clean", "judge", "tables",
           "manifest"}

\* A subsystem that is given up, or whose result is there, is the step to the next one.
LEMMA LeavingCounts ==
  ASSUME pc \in Within, pc' = "next", UNCHANGED <<campaign, todo, phase>>
  PROVE  Nearer
BY DEF Within, Nearer, Stage, Ahead

\* A later point of the same phase.
LEMMA GoingOnCounts ==
  ASSUME \/ pc = "preclean" /\ pc' = "create"
         \/ pc = "create" /\ pc' \in {"second", "wait"}
         \/ pc = "second" /\ pc' = "wait"
         \/ pc = "wait" /\ pc' = "collect"
         \/ pc = "collect" /\ pc' = "clean"
         \/ pc \in {"clean", "load"} /\ pc' = "judge"
         \/ pc = "judge" /\ pc' = "tables"
         \/ pc = "tables" /\ pc' = "manifest",
         UNCHANGED <<campaign, todo, phase>>
  PROVE  Nearer
BY DEF Nearer, Stage, Ahead

\* An object fewer at the same point.
LEMMA WorkCounts ==
  ASSUME UNCHANGED <<campaign, todo, phase, pc>>, Work' < Work
  PROVE  Nearer
BY DEF Nearer

LEMMA NextPhaseCounts ==
  ASSUME TypeOK, pc \in {"load", "clean"}, NextPhase, UNCHANGED <<campaign, todo>>
  PROVE  Nearer
<1>1. CASE phase = "baseline"
  <2>1. phase' = "unbalanced" /\ pc' \in {"load", "preclean", "create"}
    BY <1>1 DEF NextPhase, BeginPhase, Goto, Entry
  <2> QED
    BY <1>1, <2>1 DEF Nearer, Stage, PhasesAhead
<1>2. CASE phase # "baseline"
  BY <1>2, GoingOnCounts DEF NextPhase, Goto
<1> QED
  BY <1>1, <1>2

LEMMA CommandCounts ==
  ASSUME TypeOK, Command
  PROVE  Nearer
<1>1. campaign \in Seq(SUBSET Subsystems)
  BY DEF TypeOK
<1>2. CASE StartCommand \/ Summarise \/ EndCommand
  BY <1>2 DEF StartCommand, Summarise, EndCommand, Plan, Goto, Nearer, Stage
<1>3. CASE StartFails \/ NextCommand
  <2>1. campaign # <<>> /\ campaign' = Tail(campaign)
    BY <1>3 DEF StartFails, NextCommand
  <2>2. Len(campaign') < Len(campaign)
    BY <1>1, <2>1
  <2> QED
    BY <2>2 DEF Nearer
<1>4. CASE NextSubsystem
  <2>1. /\ pc = "next" /\ todo # {} /\ todo' = todo \ {First(todo)} /\ campaign' = campaign
        /\ pc' \in {"load", "preclean", "create"}
    BY <1>4 DEF NextSubsystem, BeginPhase, Entry, Goto
  <2>2. First(todo) \in todo
    BY <2>1, FirstFacts DEF TypeOK
  <2> QED
    BY <2>1, <2>2 DEF Nearer, Stage
<1> QED
  BY <1>2, <1>3, <1>4 DEF Command

LEMMA DroppedCounts ==
  ASSUME NEW t \in Tenants, NEW tried, Creating, Dropped(t, tried), Plan
  PROVE  Nearer
BY LeavingCounts DEF Dropped, Fail, GiveUp, Goto, Plan, Creating, Within

LEMMA OpenFacts ==
  ASSUME TypeOK
  PROVE  IsFiniteSet(open)
<1>1. IsFiniteSet({"owner"} \union {"intruder"})
  BY FS_Singleton, FS_Union
<1>2. open \subseteq {"owner"} \union {"intruder"}
  BY DEF TypeOK, Tenants
<1> QED
  BY <1>1, <1>2, FS_Subset

LEMMA OneLess ==
  ASSUME NEW a \in Nat, NEW b \in Nat, NEW c \in Nat, NEW d \in Nat
  PROVE  /\ (a - 1) + b + c + d < a + b + c + d
         /\ a + (b - 1) + c + d < a + b + c + d
         /\ a + b + (c - 1) + d < a + b + c + d
         /\ a + b + c + (d - 1) < a + b + c + d
OBVIOUS

\* What a tenant has still to do, when it is done with one thing.
LEMMA WorkFacts ==
  ASSUME TypeOK, NEW t \in Tenants, t \in open, UNCHANGED jobs,
         \/ pending[t] # <<>> /\ open' = open /\ pending' = [pending EXCEPT ![t] = Tail(@)]
         \/ open' = open \ {t} /\ pending' = pending
  PROVE  Work' < Work
<1>1. /\ pending \in [Tenants -> Seq(Name)] /\ Len(pending["owner"]) \in Nat
      /\ Len(pending["intruder"]) \in Nat /\ Len(jobs) \in Nat /\ t \in {"owner", "intruder"}
  BY DEF TypeOK, Tenants
<1>4. Cardinality(open) \in Nat /\ Cardinality(open \ {t}) = Cardinality(open) - 1
  BY OpenFacts, FS_RemoveElement, FS_CardinalityType
<1>5. Work' = Len(pending'["owner"]) + Len(pending'["intruder"]) + Cardinality(open') + Len(jobs')
  BY DEF Work
<1>6. Work = Len(pending["owner"]) + Len(pending["intruder"]) + Cardinality(open) + Len(jobs)
  BY DEF Work
<1>2. CASE pending[t] # <<>> /\ open' = open /\ pending' = [pending EXCEPT ![t] = Tail(@)]
  <2>1. Len(pending'[t]) = Len(pending[t]) - 1
    BY <1>1, <1>2 DEF Tenants
  <2>2. \A u \in {"owner", "intruder"} \ {t} : pending'[u] = pending[u]
    BY <1>1, <1>2 DEF Tenants
  <2>3. open' = open
    BY <1>2
  <2>4. \/ /\ Len(pending'["owner"]) = Len(pending["owner"]) - 1
           /\ pending'["intruder"] = pending["intruder"]
        \/ /\ Len(pending'["intruder"]) = Len(pending["intruder"]) - 1
           /\ pending'["owner"] = pending["owner"]
    BY <1>1, <2>1, <2>2
  <2>5. \/ Work' = (Len(pending["owner"]) - 1) + Len(pending["intruder"]) + Cardinality(open)
                   + Len(jobs)
        \/ Work' = Len(pending["owner"]) + (Len(pending["intruder"]) - 1) + Cardinality(open)
                   + Len(jobs)
    BY <1>5, <2>3, <2>4
  <2> DEFINE a == Len(pending["owner"])
             b == Len(pending["intruder"])
             c == Cardinality(open)
             d == Len(jobs)
  <2>6. a \in Nat /\ b \in Nat /\ c \in Nat /\ d \in Nat
    BY <1>1, <1>4
  <2>7. /\ (a - 1) + b + c + d < a + b + c + d
        /\ a + (b - 1) + c + d < a + b + c + d
    <3> HIDE DEF a, b, c, d
    <3> QED
      BY <2>6, OneLess
  <2> QED
    BY <1>6, <2>5, <2>7
<1>3. CASE open' = open \ {t} /\ pending' = pending
  <2>1. Work' = Len(pending["owner"]) + Len(pending["intruder"]) + (Cardinality(open) - 1)
                + Len(jobs)
    BY <1>3, <1>4, <1>5
  <2> DEFINE a == Len(pending["owner"])
             b == Len(pending["intruder"])
             c == Cardinality(open)
             d == Len(jobs)
  <2>2. a \in Nat /\ b \in Nat /\ c \in Nat /\ d \in Nat
    BY <1>1, <1>4
  <2>3. a + b + (c - 1) + d < a + b + c + d
    <3> HIDE DEF a, b, c, d
    <3> QED
      BY <2>2, OneLess
  <2> QED
    BY <1>6, <2>1, <2>3
<1> QED
  BY <1>2, <1>3

LEMMA CreationCounts ==
  ASSUME TypeOK, NEW t \in Tenants, Create(t) \/ Ready(t)
  PROVE  Nearer
<1>1. Creating /\ t \in open /\ Plan
  BY DEF Create, Ready
<1>2. CASE Create(t)
  <2>1. CASE pods[Head(pending[t])] # "absent"
    BY <1>1, <1>2, <2>1, LeavingCounts DEF Create, GiveUp, Goto, Plan, Creating, Within
  <2>2. CASE Dropped(t, {Head(pending[t])})
    BY <1>1, <2>2, DroppedCounts
  <2>3. CASE /\ pending[t] # <<>> /\ pending' = [pending EXCEPT ![t] = Tail(@)]
             /\ UNCHANGED <<pc, open, jobs>>
    BY <1>1, <2>3, WorkFacts, WorkCounts DEF Plan
  <2> QED
    BY <1>2, <2>1, <2>2, <2>3 DEF Create, Created
<1>3. CASE Ready(t)
  <2>1. CASE Dropped(t, {})
    BY <1>1, <2>1, DroppedCounts
  <2>2. CASE Advance(open \ {t}) /\ UNCHANGED jobs
    <3>1. CASE open' = open \ {t} /\ UNCHANGED <<pc, pending>>
      BY <1>1, <2>2, <3>1, WorkFacts, WorkCounts DEF Plan
    <3>2. CASE \/ pc = "create" /\ Goto("second")
               \/ Goto("wait")
      BY <1>1, <3>2, GoingOnCounts DEF Plan, Creating, Goto
    <3> QED
      BY <2>2, <3>1, <3>2 DEF Advance
  <2> QED
    BY <1>3, <2>1, <2>2 DEF Ready
<1> QED
  BY <1>2, <1>3

LEMMA RemoveCounts ==
  ASSUME TypeOK, Remove
  PROVE  Nearer
<1>1. /\ pc \in {"preclean", "clean"} /\ jobs # <<>> /\ Plan
      /\ \/ jobs' = Tail(jobs) /\ UNCHANGED <<pc, pending, open>>
         \/ GiveUp
  BY DEF Remove
<1>2. CASE GiveUp
  BY <1>1, <1>2, LeavingCounts DEF GiveUp, Goto, Plan, Within
<1>3. CASE jobs' = Tail(jobs) /\ UNCHANGED <<pc, pending, open>>
  <2>1. /\ Len(pending["owner"]) \in Nat /\ Len(pending["intruder"]) \in Nat
        /\ Len(jobs) \in Nat /\ Len(jobs') = Len(jobs) - 1 /\ Cardinality(open) \in Nat
    BY <1>1, <1>3, OpenFacts, FS_CardinalityType DEF TypeOK, Tenants
  <2>2. Work' < Work
    <3>1. Work' = Len(pending'["owner"]) + Len(pending'["intruder"]) + Cardinality(open')
                  + Len(jobs')
      BY DEF Work
    <3>2. Work' = Len(pending["owner"]) + Len(pending["intruder"]) + Cardinality(open)
                  + (Len(jobs) - 1)
      BY <1>3, <2>1, <3>1
    <3>3. Work = Len(pending["owner"]) + Len(pending["intruder"]) + Cardinality(open) + Len(jobs)
      BY DEF Work
    <3> QED
      BY <2>1, <3>2, <3>3, OneLess
  <2> QED
    BY <1>1, <1>3, <2>2, WorkCounts DEF Plan
<1> QED
  BY <1>1, <1>2, <1>3

LEMMA PhaseCounts ==
  ASSUME TypeOK, Phase
  PROVE  Nearer
<1>1. CASE Load \/ Cleaned
  BY <1>1, NextPhaseCounts DEF Load, Cleaned
<1>2. CASE \E t \in Tenants : Create(t) \/ Ready(t)
  BY <1>2, CreationCounts
<1>3. CASE Wait \/ Collect \/ Precleaned
  <2>1. UNCHANGED <<campaign, todo, phase>>
    BY <1>3 DEF Wait, Collect, Precleaned, Plan
  <2>2. \/ pc \in Within /\ pc' = "next"
        \/ pc = "wait" /\ pc' = "collect"
        \/ pc = "collect" /\ pc' = "clean"
        \/ pc = "preclean" /\ pc' = "create"
    BY <1>3 DEF Wait, Collect, Precleaned, Fail, GiveUp, Goto, Within
  <2> QED
    BY <2>1, <2>2, LeavingCounts, GoingOnCounts
<1>4. CASE Remove
  BY <1>4, RemoveCounts
<1> QED
  BY <1>1, <1>2, <1>3, <1>4 DEF Phase

LEMMA VerdictCounts ==
  ASSUME Verdict
  PROVE  Nearer
<1>1. UNCHANGED <<campaign, todo, phase>>
  BY DEF Verdict, Judge, WriteTables, WriteManifest, Plan
<1>2. \/ pc \in Within /\ pc' = "next"
      \/ pc = "judge" /\ pc' = "tables"
      \/ pc = "tables" /\ pc' = "manifest"
  BY DEF Verdict, Judge, WriteTables, WriteManifest, Record, Fail, GiveUp, Goto, Within
<1> QED
  BY <1>1, <1>2, LeavingCounts, GoingOnCounts

\* Every step of a command brings its end nearer, an interruption too, and nothing else puts it
\* off, for any numbers of pods, any campaign and whatever goes wrong.
THEOREM StepsRunOut == Spec => EveryStepCounts
<1> DEFINE Counts == IF Harness \/ Kill THEN Nearer
                     ELSE UNCHANGED <<campaign, todo, phase, pc, pending, open, jobs>>
<1>1. TypeOK /\ [Next]_vars => [Counts]_vars
  <2> SUFFICES ASSUME TypeOK, Next
               PROVE  Counts
    OBVIOUS
  <2>1. Harness => Nearer
    BY CommandCounts, PhaseCounts, VerdictCounts DEF Harness
  <2>2. ASSUME Kill
        PROVE  Nearer
    <3>1. pc \in Within \union {"next", "summary"} /\ pc' = "over" /\ campaign' = campaign
      BY <2>2 DEF Kill, TypeOK, Labels, Within, Goto
    <3> QED
      BY <3>1 DEF Nearer, Stage, Within
  <2>3. Vanish \/ Ended => UNCHANGED <<campaign, todo, phase, pc, pending, open, jobs>>
    BY DEF Vanish, Ended, Plan, Course, vars
  <2> QED
    BY <2>1, <2>2, <2>3 DEF Next
<1> QED
  BY <1>1, TypeCorrect, PTL DEF Spec, EveryStepCounts

=============================================================================
