----------------------------- MODULE SetupProofs -----------------------------
(***************************************************************************)
(* Theorems about Setup, for any campaigns against one cluster and any     *)
(* number of mishaps.                                                      *)
(***************************************************************************)
EXTENDS Setup, SequenceTheorems, WellFoundedInduction, TLAPS

-----------------------------------------------------------------------------
(***************************************************************************)
(* Sequences of sequences.                                                 *)
(***************************************************************************)
\* Of some natural numbers one is the least.
LEMMA LeastOf ==
  ASSUME NEW T, T \subseteq Nat, T # {}
  PROVE  \E x \in T : \A y \in T : x <= y
<1> DEFINE R == OpToRel(<, Nat)
<1>1. PICK x \in T : \A y \in T : <<y, x>> \notin R
  <2> HIDE DEF R
  <2> QED BY WFMin, NatLessThanWellFounded DEF R
<1>2. \A y \in T : ~(y < x)
  BY <1>1 DEF OpToRel
<1> QED
  BY <1>2

\* The concatenation of sequences over a set is one over that set.
LEMMA FlattenedSeq ==
  ASSUME NEW S, NEW seqs \in Seq(Seq(S))
  PROVE  FlattenSeq(seqs) \in Seq(S)
<1> DEFINE flatten[i \in 1 .. Len(seqs)] ==
             IF i = 1 THEN seqs[i] ELSE flatten[i - 1] \o seqs[i]
           Solves(g, n) ==
             g = [i \in 1 .. n |-> IF i = 1 THEN seqs[i] ELSE g[i - 1] \o seqs[i]]
           Unsolved == {n \in 0 .. Len(seqs) : \A g : ~Solves(g, n)}
           Astray == {i \in 1 .. Len(seqs) : flatten[i] \notin Seq(S)}
<1>1. FlattenSeq(seqs) = IF Len(seqs) = 0 THEN seqs ELSE flatten[Len(seqs)]
  BY DEF FlattenSeq
<1>2. flatten = CHOOSE g : Solves(g, Len(seqs))
  OBVIOUS
<1> HIDE DEF flatten
<1>3. Len(seqs) \in Nat /\ \A i \in 1 .. Len(seqs) : seqs[i] \in Seq(S)
  OBVIOUS
<1>4. Unsolved = {}
  <2> SUFFICES ASSUME Unsolved # {} PROVE FALSE
    OBVIOUS
  <2>1. PICK n \in Unsolved : \A m \in Unsolved : n <= m
    <3>1. Unsolved \subseteq Nat
      <4>1. 0 .. Len(seqs) \subseteq Nat
        BY <1>3
      <4> QED
        BY <4>1, Zenon
    <3> HIDE DEF Unsolved
    <3> QED
      BY <3>1, LeastOf
  <2>2. CASE n = 0
    <3>1. Solves([i \in 1 .. 0 |-> seqs[i]], 0)
      OBVIOUS
    <3> QED
      BY <2>1, <2>2, <3>1
  <2>3. CASE n # 0
    <3>1. n - 1 \in 0 .. Len(seqs) /\ n \in Nat /\ n <= Len(seqs)
      BY <1>3, <2>1, <2>3
    <3>0. n - 1 \notin Unsolved
      <4> HIDE DEF Unsolved
      <4> QED BY <2>1, <3>1
    <3>2. PICK g : Solves(g, n - 1)
      BY <3>0, <3>1
    <3> DEFINE h == [i \in 1 .. n |-> IF i = 1 THEN seqs[i] ELSE g[i - 1] \o seqs[i]]
    <3>3. \A i \in 1 .. n - 1 : g[i] = IF i = 1 THEN seqs[i] ELSE g[i - 1] \o seqs[i]
      BY <3>2
    <3>4. \A i \in 1 .. n - 1 : h[i] = g[i]
      BY <3>1, <3>3
    <3>5. \A i \in 1 .. n : i # 1 => h[i - 1] = g[i - 1]
      <4> HIDE DEF h
      <4> QED BY <3>1, <3>4
    <3>6. Solves(h, n)
      BY <3>5
    <3> QED
      BY <2>1, <3>6
  <2> QED
    BY <2>2, <2>3
<1>5. Solves(flatten, Len(seqs))
  <2>1. \E g : Solves(g, Len(seqs))
    <3>1. Len(seqs) \in 0 .. Len(seqs)
      BY <1>3
    <3> HIDE DEF Solves
    <3> QED
      BY <1>4, <3>1, Zenon
  <2> HIDE DEF Solves
  <2> QED
    BY <1>2, <2>1
<1>6. \A i \in 1 .. Len(seqs) :
        flatten[i] = IF i = 1 THEN seqs[i] ELSE flatten[i - 1] \o seqs[i]
  BY <1>5
<1>7. Astray = {}
  <2> SUFFICES ASSUME Astray # {} PROVE FALSE
    OBVIOUS
  <2>1. PICK i \in Astray : \A j \in Astray : i <= j
    <3>1. Astray \subseteq Nat
      BY <1>3
    <3> HIDE DEF Astray
    <3> QED
      BY <3>1, LeastOf
  <2>2. i # 1
    BY <1>3, <1>6, <2>1
  <2>3. i - 1 \in 1 .. Len(seqs) /\ i - 1 \notin Astray
    BY <1>3, <2>1, <2>2
  <2>4. flatten[i - 1] \in Seq(S) /\ seqs[i] \in Seq(S)
    BY <1>3, <2>1, <2>3
  <2>5. flatten[i - 1] \o seqs[i] \in Seq(S)
    BY <2>4
  <2> QED
    BY <1>6, <2>1, <2>2, <2>5
<1> QED
  BY <1>1, <1>3, <1>7

-----------------------------------------------------------------------------
(***************************************************************************)
(* The plans of the builder.                                               *)
(***************************************************************************)
ControlStep == {"space", "config", "capsule", "webhooks", "declare", "inner",
                "proxy", "adjust", "release", "pod", "running", "service",
                "kubevirt", "machine", "kubezoo", "member", "kamaji", "request"}

\* What one technology adds are strategies.
LEMMA StrategiesFacts ==
  ASSUME NEW technology
  PROVE  Strategies(technology) \in Seq(Strategy)
<1>1. /\ <<"deny", "allow">> \in Seq(Strategy) /\ <<"subnet">> \in Seq(Strategy)
      /\ <<"vpc", "vpcsubnet">> \in Seq(Strategy) /\ <<"dns">> \in Seq(Strategy)
      /\ <<"classes", "admission">> \in Seq(Strategy) /\ <<>> \in Seq(Strategy)
  BY DEF Strategy
<1> QED
  BY <1>1 DEF Strategies

\* So the data plane of a command line is a sequence of strategies.
LEMMA DataPlaneFacts ==
  ASSUME NEW c \in Command
  PROVE  DataPlane(c) \in Seq(Strategy)
<1> DEFINE all == [i \in DOMAIN c.data |-> Strategies(c.data[i])]
<1>1. Len(c.data) \in Nat /\ DOMAIN c.data = 1 .. Len(c.data)
  BY DEF Command
<1>2. all \in Seq(Seq(Strategy))
  BY <1>1, StrategiesFacts
<1> HIDE DEF all
<1>3. FlattenSeq(all) \in Seq(Strategy)
  BY <1>2, FlattenedSeq
<1> QED
  BY <1>3 DEF DataPlane, all

\* The control-plane steps of each solution.
LEMMA ControlPlaneCases ==
  ASSUME NEW c \in Command
  PROVE  /\ c.kind = "native" => ControlPlane(c) = Native
         /\ c.kind = "capsule" => ControlPlane(c) = Capsule
         /\ c.kind = "proxy" => ControlPlane(c) = Proxy(c)
         /\ c.kind = "vcluster" => ControlPlane(c) = VCluster
         /\ c.kind = "kubevirt" => ControlPlane(c) = KubeVirt
         /\ c.kind = "kubezoo" => ControlPlane(c) = KubeZoo
         /\ c.kind = "kamaji" => ControlPlane(c) = Kamaji
         /\ c.kind \in Kind
BY DEF ControlPlane, Command

\* What the order of the control-plane steps has to give, of steps p on a
\* command line c.
InOrder(c, p) ==
  /\ p \in Seq(ControlStep)
  /\ \A j \in 1 .. Len(p) : p[j] = "declare" => \E i \in 1 .. j - 1 : p[i] = "webhooks"
  /\ \A j \in 1 .. Len(p) : p[j] = "inner" => j = Len(p)
  /\ \A j \in 1 .. Len(p) : \A i \in 1 .. j - 1 : p[j] = "config" => p[i] \notin Configures
  /\ c.kind = "native" \/ \E j \in 1 .. Len(p) : p[j] = "inner"
  /\ \E j \in 1 .. Len(p) : p[j] \in Configures \cup {"config"}
  /\ \A j \in 1 .. Len(p) : \A i \in 1 .. j - 1 : p[j] = "space" => p[i] \notin Places
  /\ \A j \in 1 .. Len(p) : \A i \in 1 .. j - 1 : p[j] = "service" => p[i] # "service"
  /\ Inner(c.kind) = "host" => \A j \in 1 .. Len(p) : p[j] \notin Places
  /\ c.provider = "kind" =>
       \A j \in 1 .. Len(p) : p[j] = "inner" =>
         \E i \in 1 .. j - 1 : p[i] \in Configures \/ (c.kind = "capsule" /\ p[i] = "config")
  /\ c.kind # "kubezoo" =>
       \E i \in 1 .. Len(p) : p[i] \in Places \/ (Inner(c.kind) = "host" /\ p[i] = "inner")

LEMMA ControlPlaneInOrder ==
  ASSUME NEW c \in Command
  PROVE  InOrder(c, ControlPlane(c))
<1> USE DEF InOrder, ControlStep, Configures, Places, Inner, Kind
<1>1. CASE c.kind = "native"
  <2>1. ControlPlane(c) = <<"space", "config">>
    BY <1>1, ControlPlaneCases DEF Native
  <2> QED
    BY <1>1, <2>1
<1>2. CASE c.kind = "capsule"
  <2>1. ControlPlane(c) = <<"capsule", "webhooks", "declare", "config", "inner">>
    BY <1>2, ControlPlaneCases DEF Capsule
  <2> QED
    BY <1>2, <2>1
<1>3. CASE c.kind = "vcluster"
  <2>1. ControlPlane(c) = <<"release", "pod", "running", "config", "service", "adjust", "inner">>
    BY <1>3, ControlPlaneCases DEF VCluster
  <2> QED
    BY <1>3, <2>1
<1>4. CASE c.kind = "kubevirt"
  <2>1. ControlPlane(c) = <<"kubevirt", "machine", "inner">>
    BY <1>4, ControlPlaneCases DEF KubeVirt
  <2> QED
    BY <1>4, <2>1
<1>5. CASE c.kind = "kubezoo"
  <2>1. ControlPlane(c) = <<"kubezoo", "member", "inner">>
    BY <1>5, ControlPlaneCases DEF KubeZoo
  <2> QED
    BY <1>5, <2>1
<1>6. CASE c.kind = "kamaji"
  <2>1. ControlPlane(c) = <<"kamaji", "space", "request", "config", "adjust", "inner">>
    BY <1>6, ControlPlaneCases DEF Kamaji
  <2> QED
    BY <1>6, <2>1
<1>7. CASE c.kind = "proxy" /\ c.provider = "kind"
  <2>1. ControlPlane(c) = <<"capsule", "proxy", "webhooks", "declare", "config", "adjust", "inner">>
    BY <1>7, ControlPlaneCases DEF Proxy
  <2> QED
    BY <1>7, <2>1
<1>8. CASE c.kind = "proxy" /\ c.provider # "kind"
  <2>1. ControlPlane(c) = <<"capsule", "proxy", "webhooks", "declare", "config", "inner">>
    BY <1>8, ControlPlaneCases DEF Proxy
  <2> QED
    BY <1>8, <2>1
<1> QED
  BY <1>1, <1>2, <1>3, <1>4, <1>5, <1>6, <1>7, <1>8, ControlPlaneCases

\* A plan is the control-plane steps and then the strategies.
LEMMA PlanParts ==
  ASSUME NEW c \in Command
  PROVE  LET C == ControlPlane(c)
             D == DataPlane(c)
         IN  /\ C \in Seq(ControlStep) /\ D \in Seq(Strategy)
             /\ Len(C) \in Nat /\ Len(D) \in Nat /\ Len(Plan(c)) = Len(C) + Len(D)
             /\ \A i \in 1 .. Len(C) :
                  i \in 1 .. Len(Plan(c)) /\ Plan(c)[i] = C[i] /\ C[i] \in ControlStep
             /\ \A i \in 1 .. Len(D) :
                  /\ Len(C) + i \in 1 .. Len(Plan(c)) /\ Plan(c)[Len(C) + i] = D[i]
                  /\ D[i] \in Strategy
             /\ \A i \in 1 .. Len(Plan(c)) :
                  IF i <= Len(C) THEN i \in 1 .. Len(C) /\ Plan(c)[i] = C[i] /\ C[i] \in ControlStep
                  ELSE /\ i - Len(C) \in 1 .. Len(D) /\ Plan(c)[i] = D[i - Len(C)]
                       /\ D[i - Len(C)] \in Strategy
<1> DEFINE C == ControlPlane(c)
           D == DataPlane(c)
<1>1. C \in Seq(ControlStep) /\ D \in Seq(Strategy)
  BY ControlPlaneInOrder, DataPlaneFacts DEF InOrder
<1>2. Plan(c) = C \o D
  BY DEF Plan
<1> HIDE DEF C, D
<1>3. Len(C) \in Nat /\ Len(D) \in Nat /\ Len(C \o D) = Len(C) + Len(D)
  BY <1>1
<1>4. /\ \A i \in 1 .. Len(C) : (C \o D)[i] = C[i] /\ C[i] \in ControlStep
      /\ \A i \in 1 .. Len(D) : (C \o D)[Len(C) + i] = D[i] /\ D[i] \in Strategy
  BY <1>1, <1>3
<1>5. \A i \in 1 .. Len(C) : i \in 1 .. Len(C \o D)
  BY <1>3
<1>6. \A i \in 1 .. Len(D) : Len(C) + i \in 1 .. Len(C \o D)
  BY <1>3
<1>7. ASSUME NEW i \in 1 .. Len(C \o D)
      PROVE  IF i <= Len(C) THEN i \in 1 .. Len(C) /\ (C \o D)[i] = C[i] /\ C[i] \in ControlStep
             ELSE /\ i - Len(C) \in 1 .. Len(D) /\ (C \o D)[i] = D[i - Len(C)]
                  /\ D[i - Len(C)] \in Strategy
  <2>1. CASE i <= Len(C)
    BY <1>3, <1>4, <2>1
  <2>2. CASE ~(i <= Len(C))
    <3>1. i - Len(C) \in 1 .. Len(D) /\ Len(C) + (i - Len(C)) = i
      BY <1>3, <2>2
    <3> QED
      BY <1>4, <2>2, <3>1
  <2> QED
    BY <2>1, <2>2
<1>8. /\ C \in Seq(ControlStep) /\ D \in Seq(Strategy)
      /\ Len(C) \in Nat /\ Len(D) \in Nat /\ Len(Plan(c)) = Len(C) + Len(D)
      /\ \A i \in 1 .. Len(C) :
           i \in 1 .. Len(Plan(c)) /\ Plan(c)[i] = C[i] /\ C[i] \in ControlStep
      /\ \A i \in 1 .. Len(D) :
           /\ Len(C) + i \in 1 .. Len(Plan(c)) /\ Plan(c)[Len(C) + i] = D[i]
           /\ D[i] \in Strategy
      /\ \A i \in 1 .. Len(Plan(c)) :
           IF i <= Len(C) THEN i \in 1 .. Len(C) /\ Plan(c)[i] = C[i] /\ C[i] \in ControlStep
           ELSE /\ i - Len(C) \in 1 .. Len(D) /\ Plan(c)[i] = D[i - Len(C)]
                /\ D[i - Len(C)] \in Strategy
  BY <1>1, <1>2, <1>3, <1>4, <1>5, <1>6, <1>7
<1> QED
  BY <1>8 DEF C, D

\* Control-plane steps and strategies have different names.
LEMMA NamesApart ==
  \A s \in ControlStep : s \notin Strategy
BY DEF ControlStep, Strategy

\* What the order of a plan gives, of the steps before the one at hand.
LEMMA PlanFacts ==
  ASSUME NEW c \in Command
  PROVE  /\ Len(Plan(c)) \in Nat
         /\ \A j \in 1 .. Len(Plan(c)) : Plan(c)[j] \in ControlStep \cup Strategy
         /\ c.kind = "native" \/ \E j \in 1 .. Len(Plan(c)) : Plan(c)[j] = "inner"
         /\ \E j \in 1 .. Len(Plan(c)) : Plan(c)[j] \in Configures \cup {"config"}
         /\ \A x \in ToSet(DataPlane(c)) : \E j \in 1 .. Len(Plan(c)) : Plan(c)[j] = x /\ x \in Strategy
         /\ \A j \in 1 .. Len(Plan(c)) :
              Plan(c)[j] \in Strategy => Plan(c)[j] \in ToSet(DataPlane(c))
<1> DEFINE C == ControlPlane(c)
           D == DataPlane(c)
<1>1. InOrder(c, C)
  BY ControlPlaneInOrder
<1>2. /\ D \in Seq(Strategy)
      /\ Len(C) \in Nat /\ Len(D) \in Nat /\ Len(Plan(c)) = Len(C) + Len(D)
      /\ \A i \in 1 .. Len(C) :
           i \in 1 .. Len(Plan(c)) /\ Plan(c)[i] = C[i] /\ C[i] \in ControlStep
      /\ \A i \in 1 .. Len(D) :
           /\ Len(C) + i \in 1 .. Len(Plan(c)) /\ Plan(c)[Len(C) + i] = D[i]
           /\ D[i] \in Strategy
      /\ \A i \in 1 .. Len(Plan(c)) :
           IF i <= Len(C) THEN i \in 1 .. Len(C) /\ Plan(c)[i] = C[i] /\ C[i] \in ControlStep
           ELSE /\ i - Len(C) \in 1 .. Len(D) /\ Plan(c)[i] = D[i - Len(C)]
                /\ D[i - Len(C)] \in Strategy
  BY PlanParts
<1>3. ToSet(D) = {D[i] : i \in 1 .. Len(D)}
  BY <1>2 DEF ToSet
<1> HIDE DEF C, D
<1>4. Len(Plan(c)) \in Nat
  BY <1>2
<1>5. \A j \in 1 .. Len(Plan(c)) : Plan(c)[j] \in ControlStep \cup Strategy
  BY <1>2
<1>6. c.kind = "native" \/ \E j \in 1 .. Len(Plan(c)) : Plan(c)[j] = "inner"
  BY <1>1, <1>2 DEF InOrder
<1>7. \E j \in 1 .. Len(Plan(c)) : Plan(c)[j] \in Configures \cup {"config"}
  BY <1>1, <1>2 DEF InOrder
<1>8. \A x \in ToSet(D) : \E j \in 1 .. Len(Plan(c)) : Plan(c)[j] = x /\ x \in Strategy
  BY <1>2, <1>3
<1>9. \A j \in 1 .. Len(Plan(c)) : Plan(c)[j] \in Strategy => Plan(c)[j] \in ToSet(D)
  BY <1>2, <1>3, NamesApart
<1> QED
  BY <1>4, <1>5, <1>6, <1>7, <1>8, <1>9 DEF D

LEMMA PlanOrder ==
  ASSUME NEW c \in Command, NEW j \in 1 .. Len(Plan(c))
  PROVE  /\ Plan(c)[j] = "declare" => \E i \in 1 .. j - 1 : Plan(c)[i] = "webhooks"
         /\ Plan(c)[j] \notin Strategy => \A i \in 1 .. j - 1 : Plan(c)[i] # "inner"
         /\ \A i \in 1 .. j - 1 : Plan(c)[j] = "config" => Plan(c)[i] \notin Configures
         /\ \A i \in 1 .. j - 1 : Plan(c)[j] = "space" => Plan(c)[i] \notin Places
         /\ \A i \in 1 .. j - 1 : Plan(c)[j] = "service" => Plan(c)[i] # "service"
         /\ Inner(c.kind) = "host" => Plan(c)[j] \notin Places
         /\ c.provider = "kind" /\ Plan(c)[j] = "inner" =>
              \E i \in 1 .. j - 1 : \/ Plan(c)[i] \in Configures
                                    \/ c.kind = "capsule" /\ Plan(c)[i] = "config"
         /\ c.kind # "kubezoo" /\ Plan(c)[j] \in Strategy =>
              \E i \in 1 .. j - 1 : \/ Plan(c)[i] \in Places
                                    \/ Inner(c.kind) = "host" /\ Plan(c)[i] = "inner"
         /\ \A i \in 1 .. j - 1 :
              Plan(c)[j] \in Strategy /\ Plan(c)[i] = Plan(c)[j] => ~IsInjective(DataPlane(c))
<1> DEFINE C == ControlPlane(c)
           D == DataPlane(c)
           P == Plan(c)
<1>1. InOrder(c, C)
  BY ControlPlaneInOrder
<1>2. /\ D \in Seq(Strategy)
      /\ Len(C) \in Nat /\ Len(D) \in Nat /\ Len(P) = Len(C) + Len(D)
      /\ \A i \in 1 .. Len(P) :
           IF i <= Len(C) THEN i \in 1 .. Len(C) /\ P[i] = C[i] /\ C[i] \in ControlStep
           ELSE /\ i - Len(C) \in 1 .. Len(D) /\ P[i] = D[i - Len(C)]
                /\ D[i - Len(C)] \in Strategy
  BY PlanParts
<1>3. c.kind # "kubezoo" =>
        \E i \in 1 .. Len(C) : C[i] \in Places \/ (Inner(c.kind) = "host" /\ C[i] = "inner")
  BY <1>1 DEF InOrder
<1> HIDE DEF C, D, P
<1>4. j \in Int /\ 1 <= j /\ j <= Len(P) /\ \A i \in 1 .. j - 1 : i \in 1 .. Len(P) /\ i < j
  BY <1>2 DEF P
<1>5. CASE j <= Len(C)
  <2>1. /\ j \in 1 .. Len(C) /\ P[j] = C[j] /\ P[j] \notin Strategy
        /\ \A i \in 1 .. j - 1 : i \in 1 .. Len(C) /\ P[i] = C[i]
    BY <1>2, <1>4, <1>5, NamesApart
  <2>2. P[j] = "declare" => \E i \in 1 .. j - 1 : P[i] = "webhooks"
    BY <1>1, <2>1 DEF InOrder
  <2>3. \A i \in 1 .. j - 1 : P[i] # "inner"
    BY <1>1, <1>2, <1>4, <1>5, <2>1 DEF InOrder
  <2>4. /\ \A i \in 1 .. j - 1 : P[j] = "config" => P[i] \notin Configures
        /\ \A i \in 1 .. j - 1 : P[j] = "space" => P[i] \notin Places
        /\ \A i \in 1 .. j - 1 : P[j] = "service" => P[i] # "service"
    BY <1>1, <2>1 DEF InOrder
  <2>5. Inner(c.kind) = "host" => P[j] \notin Places
    BY <1>1, <2>1 DEF InOrder
  <2>6. c.provider = "kind" /\ P[j] = "inner" =>
          \E i \in 1 .. j - 1 : P[i] \in Configures \/ (c.kind = "capsule" /\ P[i] = "config")
    <3>1. c.provider = "kind" /\ C[j] = "inner" =>
            \E i \in 1 .. j - 1 : C[i] \in Configures \/ (c.kind = "capsule" /\ C[i] = "config")
      BY <1>1, <2>1 DEF InOrder
    <3> QED
      BY <2>1, <3>1
  <2> QED
    BY <2>1, <2>2, <2>3, <2>4, <2>5, <2>6 DEF P
<1>6. CASE ~(j <= Len(C))
  <2>1. j - Len(C) \in 1 .. Len(D) /\ P[j] = D[j - Len(C)] /\ P[j] \in Strategy
    BY <1>2, <1>4, <1>6
  <2>2. P[j] \notin Places /\ P[j] \notin {"declare", "config", "space", "service", "inner"}
    BY <2>1 DEF Strategy, Places
  <2>3. c.kind # "kubezoo" =>
          \E i \in 1 .. j - 1 : P[i] \in Places \/ (Inner(c.kind) = "host" /\ P[i] = "inner")
    <3>1. \A i \in 1 .. Len(C) : i \in 1 .. j - 1 /\ P[i] = C[i]
      BY <1>2, <1>4, <1>6
    <3> QED
      BY <1>3, <3>1
  <2>4. ASSUME NEW i \in 1 .. j - 1, P[i] = P[j]
        PROVE  ~IsInjective(D)
    <3>1. P[i] \in Strategy /\ i \in 1 .. Len(P) /\ i < j
      BY <1>4, <2>1, <2>4
    <3>2. ~(i <= Len(C)) /\ i - Len(C) \in 1 .. Len(D) /\ P[i] = D[i - Len(C)]
      BY <1>2, <3>1, NamesApart
    <3>3. i - Len(C) # j - Len(C)
      BY <1>2, <1>4, <3>1
    <3>4. DOMAIN D = 1 .. Len(D)
      BY <1>2
    <3> QED
      BY <2>1, <2>4, <3>2, <3>3, <3>4 DEF IsInjective
  <2> QED
    BY <2>1, <2>2, <2>3, <2>4 DEF P, D
<1> QED
  BY <1>2, <1>4, <1>5, <1>6

-----------------------------------------------------------------------------
(***************************************************************************)
(* The running command and what it selects.                                *)
(***************************************************************************)
LEMMA CommandFacts ==
  ASSUME NEW c \in Command
  PROVE  /\ c.provider \in {"kind", "k3s", "none"} /\ c.kind \in Kind
         /\ c.existing \in BOOLEAN /\ c.ports \in Port
         /\ Mapping(c) \in Port /\ (~c.existing => Mapping(c) = c.ports)
         /\ Inner(c.kind) \in {"host"} \cup Kind
         /\ (Inner(c.kind) = "host" <=> c.kind \in {"capsule", "proxy"})
         /\ (Inner(c.kind) = "native" <=> c.kind = "native")
         /\ Cni(c) \in {"calico", "kubeovn"}
         /\ Runtimes(c) \subseteq Runtime
         /\ (Sandboxes(c) = {} <=> Runtimes(c) = {})
<1>1. /\ c.provider \in {"kind", "k3s", "none"} /\ c.kind \in Kind
      /\ c.existing \in BOOLEAN /\ c.ports \in Port
  BY DEF Command
<1>2. Mapping(c) \in Port /\ (~c.existing => Mapping(c) = c.ports)
  BY <1>1 DEF Mapping, Port
<1>3. /\ Inner(c.kind) \in {"host"} \cup Kind
      /\ (Inner(c.kind) = "host" <=> c.kind \in {"capsule", "proxy"})
      /\ (Inner(c.kind) = "native" <=> c.kind = "native")
  BY <1>1 DEF Inner, Kind
<1>4. Cni(c) \in {"calico", "kubeovn"}
  BY DEF Cni
<1>5. Runtimes(c) \subseteq Runtime /\ (Sandboxes(c) = {} <=> Runtimes(c) = {})
  BY DEF Runtimes, Sandboxes
<1> QED
  BY <1>1, <1>2, <1>3, <1>4, <1>5

LEMMA CampaignFacts ==
  ASSUME ControlOK, campaign # <<>>
  PROVE  /\ cmd \in Command /\ cmd = campaign[1] /\ 1 \in DOMAIN campaign
         /\ Tail(campaign) \in Seq(Command)
         /\ \A i \in DOMAIN Tail(campaign) :
              i + 1 \in DOMAIN campaign /\ Tail(campaign)[i] = campaign[i + 1]
<1>1. campaign \in Seq(Command)
  BY DEF ControlOK
<1> QED
  BY <1>1 DEF cmd

\* With runtimes that are not refused there is one.
LEMMA SandboxFacts ==
  ASSUME Sandboxes(cmd) # {}
  PROVE  /\ sandbox \in Runtimes(cmd)
         /\ ~RuntimeRefused => Runtimes(cmd) = {sandbox}
<1>1. Runtimes(cmd) # {}
  BY DEF Runtimes
<1>2. sandbox \in Runtimes(cmd)
  BY <1>1 DEF sandbox
<1>3. ~RuntimeRefused => \A r \in Runtimes(cmd) : r = sandbox
  BY <1>2 DEF RuntimeRefused, Runtimes
<1> QED
  BY <1>2, <1>3

\* What a step leaves in a tenant's part, one field at a time.
LEMMA AfterFacts ==
  ASSUME NEW it \in Belongings, NEW s, cmd \in Command
  PROVE  /\ After(it, s) \in Belongings
         /\ After(it, s).spaces = it.spaces \cup
              IF s \in Places THEN {"host"}
              ELSE IF s = "inner" THEN {Inner(cmd.kind)} ELSE {}
         /\ After(it, s).release = IF s = "release" THEN "up" ELSE it.release
         /\ After(it, s).pod = it.pod
         /\ (After(it, s).declared <=> it.declared \/ s = "declare")
         /\ After(it, s).config =
              IF s = "config" THEN [by |-> cmd.kind, adjusted |-> FALSE, ports |-> "default"]
              ELSE IF s \in Configures
              THEN [by |-> cmd.kind, adjusted |-> TRUE, ports |-> Mapping(cmd)]
              ELSE it.config
         /\ (After(it, s).service <=> it.service \/ s = "service")
         /\ After(it, s).data = it.data \cup ({s} \cap Strategy)
<1>0. cmd.kind \in Kind /\ Mapping(cmd) \in Port /\ Inner(cmd.kind) \in {"host"} \cup Kind
  BY CommandFacts
<1> DEFINE spaces == it.spaces \cup
              IF s \in {"space", "release", "machine"} THEN {"host"}
              ELSE IF s = "inner" THEN {Inner(cmd.kind)} ELSE {}
           release == IF s = "release" THEN "up" ELSE it.release
           declared == it.declared \/ s = "declare"
           config == IF s = "config" THEN [by |-> cmd.kind, adjusted |-> FALSE, ports |-> "default"]
              ELSE IF s \in {"adjust", "member", "machine"}
              THEN [by |-> cmd.kind, adjusted |-> TRUE, ports |-> Mapping(cmd)]
              ELSE it.config
           service == it.service \/ s = "service"
           data == it.data \cup ({s} \cap Strategy)
<1>1. After(it, s) = [it EXCEPT !.spaces = spaces, !.release = release, !.declared = declared,
                                !.config = config, !.service = service, !.data = data]
  BY DEF After
<1>2. /\ it.spaces \in SUBSET ({"host"} \cup Kind) /\ it.release \in Release
      /\ it.declared \in BOOLEAN /\ it.config \in Config /\ it.service \in BOOLEAN
      /\ it.data \in SUBSET Strategy
  BY DEF Belongings
<1>3. spaces \in SUBSET ({"host"} \cup Kind) /\ release \in Release
      /\ declared \in BOOLEAN /\ service \in BOOLEAN /\ data \in SUBSET Strategy
  BY <1>0, <1>2 DEF Release
<1>5. config \in Config
  BY <1>0, <1>2 DEF Config, Port
<1> HIDE DEF spaces, release, declared, config, service, data
<1>6. /\ After(it, s) \in Belongings
      /\ After(it, s).spaces = spaces /\ After(it, s).release = release
      /\ After(it, s).pod = it.pod /\ After(it, s).declared = declared
      /\ After(it, s).config = config /\ After(it, s).service = service
      /\ After(it, s).data = data
  BY <1>1, <1>3, <1>5 DEF Belongings
<1>7. /\ spaces = it.spaces \cup IF s \in Places THEN {"host"}
                               ELSE IF s = "inner" THEN {Inner(cmd.kind)} ELSE {}
      /\ (declared <=> it.declared \/ s = "declare") /\ (service <=> it.service \/ s = "service")
      /\ config = IF s = "config" THEN [by |-> cmd.kind, adjusted |-> FALSE, ports |-> "default"]
                  ELSE IF s \in Configures
                  THEN [by |-> cmd.kind, adjusted |-> TRUE, ports |-> Mapping(cmd)]
                  ELSE it.config
  BY DEF spaces, declared, service, config, Places, Configures
<1> QED
  BY <1>6, <1>7 DEF release, data

\* What depends on a tenant's configuration, its namespaces and its strategies alone.
LEMMA MadeKept ==
  ASSUME UNCHANGED <<campaign, cluster>>, NEW t,
         /\ tenant'[t].config = tenant[t].config /\ tenant'[t].spaces = tenant[t].spaces
         /\ tenant'[t].data = tenant[t].data
  PROVE  /\ Reached(t)' <=> Reached(t)
         /\ Healthy(t)' <=> Healthy(t)
         /\ Made(t)' <=> Made(t)
<1>1. Reached(t)' <=> Reached(t)
  BY DEF Reached
<1>2. Healthy(t)' <=> Healthy(t)
  BY <1>1 DEF Healthy
<1>3. Made(t)' <=> Made(t)
  BY <1>1 DEF Made, cmd
<1> QED
  BY <1>1, <1>2, <1>3

\* Nobody reaches a tenant that was not begun.
LEMMA BlankFacts ==
  /\ Blank \in Belongings
  /\ Blank.spaces = {} /\ Blank.release = "none" /\ Blank.pod = "none"
  /\ ~Blank.declared /\ ~Blank.service /\ Blank.data = {}
  /\ Blank.config.by = "nobody" /\ ~Blank.config.adjusted
BY DEF Blank, NoConfig, Belongings, Config, Release, Port

-----------------------------------------------------------------------------
(***************************************************************************)
(* The world: what there is, whichever command is running, and what each   *)
(* request does to it.                                                     *)
(***************************************************************************)
WorldInv == WorldOK /\ TenantsAreGuarded /\ Emptied /\ PartsAreTorn

LEMMA WorldKept ==
  ASSUME WorldInv, UNCHANGED world
  PROVE  WorldInv'
BY DEF WorldInv, WorldOK, TenantsAreGuarded, Emptied, PartsAreTorn, world, hostwide, runtimes

\* kind makes a cluster where there is none; otherwise there is one.
LEMMA MakeClusterKeeps ==
  ASSUME WorldInv, cmd \in Command, ~ClusterRefused, MakeCluster
  PROVE  /\ WorldInv'
         /\ cluster'.by # "nobody" /\ cmd.provider # "k3s"
         /\ cmd.provider = "kind" => cluster'.by = "kind"
         /\ cluster'.by = "other" => cluster.by = "other"
         /\ cmd.provider = "kind" /\ ~cmd.existing => cluster'.ports = cmd.ports
<1>1. WorldOK /\ UNCHANGED <<network, releases, webhooks, cache, node, torn, tenant>>
  BY DEF WorldInv, MakeCluster, runtimes
<1>2. /\ cmd.provider \in {"kind", "k3s", "none"} /\ cmd.ports \in Port
      /\ Runtimes(cmd) \subseteq Runtime
  BY CommandFacts
<1>3. CASE cmd.provider = "kind" /\ ~cmd.existing
  <2>1. cluster' = [by |-> "kind", ports |-> cmd.ports, patched |-> Runtimes(cmd)]
    BY <1>3 DEF MakeCluster
  <2>2. cluster' \in [by : {"nobody", "kind", "other"}, ports : Port, patched : SUBSET Runtime]
    BY <1>2, <2>1
  <2>3. WorldInv'
    BY <1>1, <2>1, <2>2
    DEF WorldInv, WorldOK, TenantsAreGuarded, Emptied, PartsAreTorn
  <2> QED
    BY <1>3, <2>1, <2>3
<1>4. CASE ~(cmd.provider = "kind" /\ ~cmd.existing)
  <2>1. cluster' = cluster
    BY <1>4 DEF MakeCluster
  <2>2. WorldInv'
    BY <1>1, <2>1, WorldKept DEF world, hostwide, runtimes
  <2> QED
    BY <1>2, <1>4, <2>1, <2>2 DEF ClusterRefused
<1> QED
  BY <1>3, <1>4

\* The network.
LEMMA ApplyCniKeeps ==
  ASSUME WorldInv, cmd \in Command, cluster.by # "nobody",
         network' = [network EXCEPT !.applied = @ \cup {Cni(cmd)}],
         \/ releases' = releases
         \/ \E r \in Release : releases' = [releases EXCEPT !["kubeovn"] = r],
         UNCHANGED <<cluster, webhooks, runtimes, tenant>>
  PROVE  /\ WorldInv' /\ Cni(cmd) \in network'.applied
         /\ network'.settled = network.settled
<1>1. WorldOK /\ UNCHANGED <<cluster, webhooks, cache, node, torn, tenant>>
  BY DEF WorldInv, runtimes
<1>2. /\ network' \in [applied : SUBSET {"calico", "kubeovn", "other"}, settled : BOOLEAN]
      /\ network'.settled = network.settled
      /\ Cni(cmd) \in network'.applied
  BY <1>1, CommandFacts DEF WorldOK
<1>3. releases' \in [{"kubeovn", "capsule", "proxy", "kamaji"} -> Release]
  BY <1>1 DEF WorldOK
<1>4. WorldInv'
  BY <1>1, <1>2, <1>3 DEF WorldInv, WorldOK, TenantsAreGuarded, Emptied, PartsAreTorn
<1> QED
  BY <1>2, <1>4

\* The files of one runtime, with a part of them only of a runtime on record as torn.
LEMMA FilesKeep ==
  ASSUME WorldInv, UNCHANGED <<hostwide, tenant>>, NEW r \in Runtime,
         cache' \in [Runtime -> [archive : File, tree : File]],
         node' \in [Runtime -> [files : File, class : BOOLEAN]],
         \A q \in Runtime \ {r} : cache'[q] = cache[q] /\ node'[q] = node[q],
         torn' = torn \/ torn' = torn \cup {r},
         "part" \in {cache'[r].archive, cache'[r].tree, node'[r].files} => r \in torn'
  PROVE  WorldInv'
<1>1. WorldOK /\ PartsAreTorn /\ UNCHANGED <<cluster, network, releases, webhooks, tenant>>
  BY DEF WorldInv, hostwide
<1>2. torn' \subseteq Runtime
  BY <1>1 DEF WorldOK
<1>3. WorldOK'
  BY <1>1, <1>2 DEF WorldOK
<1>4. PartsAreTorn'
  <2> SUFFICES ASSUME NEW q \in Runtime, "part" \in {cache'[q].archive, cache'[q].tree, node'[q].files}
               PROVE  q \in torn'
    BY DEF PartsAreTorn
  <2> QED
    BY <1>1 DEF PartsAreTorn
<1> QED
  BY <1>1, <1>3, <1>4 DEF WorldInv, TenantsAreGuarded, Emptied

\* What there is of a runtime before, and what a request that names a field makes of it.
LEMMA FilesFacts ==
  ASSUME WorldInv, NEW r \in Runtime
  PROVE  /\ cache \in [Runtime -> [archive : File, tree : File]]
         /\ node \in [Runtime -> [files : File, class : BOOLEAN]]
         /\ cache[r].archive \in File /\ cache[r].tree \in File
         /\ "part" \in {cache[r].archive, cache[r].tree, node[r].files} => r \in torn
<1>1. /\ cache \in [Runtime -> [archive : File, tree : File]]
      /\ node \in [Runtime -> [files : File, class : BOOLEAN]]
  BY DEF WorldInv, WorldOK
<1>2. "part" \in {cache[r].archive, cache[r].tree, node[r].files} => r \in torn
  BY DEF WorldInv, PartsAreTorn
<1> QED
  BY <1>1, <1>2

LEMMA CacheFacts ==
  ASSUME WorldInv, NEW r \in Runtime, NEW f \in File, UNCHANGED node,
         \/ cache' = [cache EXCEPT ![r].archive = f]
         \/ cache' = [cache EXCEPT ![r].tree = f]
  PROVE  /\ cache' \in [Runtime -> [archive : File, tree : File]]
         /\ node' \in [Runtime -> [files : File, class : BOOLEAN]]
         /\ \A q \in Runtime \ {r} : cache'[q] = cache[q] /\ node'[q] = node[q]
         /\ cache' = [cache EXCEPT ![r].archive = f] =>
              cache'[r].archive = f /\ cache'[r].tree = cache[r].tree
         /\ cache' = [cache EXCEPT ![r].tree = f] =>
              cache'[r].archive = cache[r].archive /\ cache'[r].tree = f
         /\ node'[r] = node[r]
BY DEF WorldInv, WorldOK

LEMMA NodeFacts ==
  ASSUME WorldInv, NEW r \in Runtime, NEW f \in File, UNCHANGED cache,
         \/ node' = [node EXCEPT ![r].files = f]
         \/ node' = [node EXCEPT ![r].class = TRUE]
  PROVE  /\ cache' \in [Runtime -> [archive : File, tree : File]]
         /\ node' \in [Runtime -> [files : File, class : BOOLEAN]]
         /\ \A q \in Runtime \ {r} : cache'[q] = cache[q] /\ node'[q] = node[q]
         /\ cache'[r] = cache[r]
         /\ node' = [node EXCEPT ![r].files = f] => node'[r].files = f
         /\ node' = [node EXCEPT ![r].class = TRUE] =>
              node'[r].files = node[r].files /\ node'[r].class
<1>1. /\ node \in [Runtime -> [files : File, class : BOOLEAN]]
      /\ cache' \in [Runtime -> [archive : File, tree : File]] /\ cache'[r] = cache[r]
      /\ \A q \in Runtime \ {r} : cache'[q] = cache[q]
  BY DEF WorldInv, WorldOK
<1>2. CASE node' = [node EXCEPT ![r].files = f]
  <2>1. /\ node' \in [Runtime -> [files : File, class : BOOLEAN]]
        /\ \A q \in Runtime \ {r} : node'[q] = node[q]
        /\ node'[r].files = f /\ (node'[r].class <=> node[r].class)
    BY <1>1, <1>2
  <2>2. node' = [node EXCEPT ![r].class = TRUE] =>
          node'[r].files = node[r].files /\ node'[r].class
    BY <1>1
  <2> QED
    BY <1>1, <2>1, <2>2
<1>3. CASE node' = [node EXCEPT ![r].class = TRUE]
  <2>1. /\ node' \in [Runtime -> [files : File, class : BOOLEAN]]
        /\ \A q \in Runtime \ {r} : node'[q] = node[q]
        /\ node'[r].files = node[r].files /\ node'[r].class
    BY <1>1, <1>3
  <2>2. node' = [node EXCEPT ![r].files = f] => node'[r].files = f
    BY <1>1
  <2> QED
    BY <1>1, <2>1, <2>2
<1> QED
  BY <1>2, <1>3

LEMMA DownloadKeeps ==
  ASSUME WorldInv, sandbox \in Runtime, Download
  PROVE  WorldInv' /\ cache'[sandbox].archive # "none"
<1> DEFINE r == sandbox
<1>1. r \in Runtime /\ UNCHANGED <<node, torn, hostwide, tenant>>
  BY DEF Download
<1>2. cache' = IF cache[r].archive = "none"
               THEN [cache EXCEPT ![r].archive = "whole"] ELSE cache
  BY DEF Download
<1>3. "whole" \in File
  BY DEF File
<1> HIDE DEF r
<1>4. CASE cache[r].archive = "none"
  <2>1. /\ cache' \in [Runtime -> [archive : File, tree : File]]
        /\ node' \in [Runtime -> [files : File, class : BOOLEAN]]
        /\ \A q \in Runtime \ {r} : cache'[q] = cache[q] /\ node'[q] = node[q]
        /\ cache'[r].archive = "whole" /\ cache'[r].tree = cache[r].tree
        /\ node'[r] = node[r]
    BY <1>1, <1>2, <1>3, <1>4, CacheFacts
  <2>2. "part" \in {cache'[r].archive, cache'[r].tree, node'[r].files} => r \in torn'
    BY <1>1, <1>3, <2>1, FilesFacts
  <2>3. WorldInv'
    BY <1>1, <2>1, <2>2, FilesKeep
  <2> QED
    BY <2>1, <2>3 DEF r
<1>5. CASE cache[r].archive # "none"
  <2>1. cache' = cache
    BY <1>2, <1>5
  <2>2. WorldInv'
    BY <1>1, <2>1, WorldKept DEF world, runtimes
  <2> QED
    BY <1>5, <2>1, <2>2 DEF r
<1> QED
  BY <1>4, <1>5

LEMMA UnpackKeeps ==
  ASSUME WorldInv, sandbox \in Runtime, Unpack, cache[sandbox].archive # "none"
  PROVE  /\ WorldInv'
         /\ "none" # IF sandbox = "gvisor" THEN cache'[sandbox].archive ELSE cache'[sandbox].tree
<1> DEFINE r == sandbox
<1>1. r \in Runtime /\ UNCHANGED <<node, torn, hostwide, tenant>>
  BY DEF Unpack
<1>2. cache' = IF r = "gvisor" \/ cache[r].tree # "none" THEN cache
               ELSE [cache EXCEPT ![r].tree = "whole"]
  BY DEF Unpack, NothingToUnpack
<1>3. "whole" \in File
  BY DEF File
<1>0. cache[r].archive # "none"
  OBVIOUS
<1> HIDE DEF r
<1>4. CASE r = "gvisor" \/ cache[r].tree # "none"
  <2>1. cache' = cache
    BY <1>2, <1>4
  <2>2. WorldInv'
    BY <1>1, <2>1, WorldKept DEF world, runtimes
  <2> QED
    BY <1>0, <1>4, <2>1, <2>2 DEF r
<1>5. CASE ~(r = "gvisor" \/ cache[r].tree # "none")
  <2>1. /\ cache' \in [Runtime -> [archive : File, tree : File]]
        /\ node' \in [Runtime -> [files : File, class : BOOLEAN]]
        /\ \A q \in Runtime \ {r} : cache'[q] = cache[q] /\ node'[q] = node[q]
        /\ cache'[r].archive = cache[r].archive /\ cache'[r].tree = "whole"
        /\ node'[r] = node[r]
    BY <1>1, <1>2, <1>3, <1>5, CacheFacts
  <2>2. "part" \in {cache'[r].archive, cache'[r].tree, node'[r].files} => r \in torn'
    BY <1>1, <1>3, <2>1, FilesFacts
  <2>3. WorldInv'
    BY <1>1, <2>1, <2>2, FilesKeep
  <2> QED
    BY <1>5, <2>1, <2>3 DEF r
<1> QED
  BY <1>4, <1>5

LEMMA CopyKeeps ==
  ASSUME WorldInv, sandbox \in Runtime, Copy
  PROVE  /\ WorldInv'
         /\ node'[sandbox].files = IF sandbox = "gvisor" THEN cache[sandbox].archive
                                   ELSE cache[sandbox].tree
<1> DEFINE r == sandbox
           f == IF r = "gvisor" THEN cache[r].archive ELSE cache[r].tree
<1>1. /\ r \in Runtime /\ UNCHANGED <<cache, torn, hostwide, tenant>>
      /\ node' = [node EXCEPT ![r].files = f]
  BY DEF Copy
<1>2. "whole" \in File
  BY DEF File
<1> HIDE DEF r
<1>3. f \in File /\ (f = "part" => r \in torn)
  BY <1>1, <1>2, FilesFacts
<1> HIDE DEF f
<1>4. /\ cache' \in [Runtime -> [archive : File, tree : File]]
      /\ node' \in [Runtime -> [files : File, class : BOOLEAN]]
      /\ \A q \in Runtime \ {r} : cache'[q] = cache[q] /\ node'[q] = node[q]
      /\ cache'[r] = cache[r] /\ node'[r].files = f
  BY <1>1, <1>3, NodeFacts
<1>5. "part" \in {cache'[r].archive, cache'[r].tree, node'[r].files} => r \in torn'
  BY <1>1, <1>2, <1>3, <1>4, FilesFacts
<1>6. WorldInv'
  BY <1>1, <1>4, <1>5, FilesKeep
<1> QED
  BY <1>4, <1>6 DEF f, r

LEMMA PublishKeeps ==
  ASSUME WorldInv, sandbox \in Runtime, Publish
  PROVE  WorldInv' /\ node'[sandbox].class /\ node'[sandbox].files = node[sandbox].files
<1> DEFINE r == sandbox
<1>1. /\ r \in Runtime /\ UNCHANGED <<cache, torn, hostwide, tenant>>
      /\ node' = [node EXCEPT ![r].class = TRUE]
  BY DEF Publish
<1>2. "whole" \in File
  BY DEF File
<1> HIDE DEF r
<1>4. /\ cache' \in [Runtime -> [archive : File, tree : File]]
      /\ node' \in [Runtime -> [files : File, class : BOOLEAN]]
      /\ \A q \in Runtime \ {r} : cache'[q] = cache[q] /\ node'[q] = node[q]
      /\ cache'[r] = cache[r] /\ node'[r].files = node[r].files /\ node'[r].class
  BY <1>1, <1>2, NodeFacts
<1>5. "part" \in {cache'[r].archive, cache'[r].tree, node'[r].files} => r \in torn'
  BY <1>1, <1>2, <1>4, FilesFacts
<1>6. WorldInv'
  BY <1>1, <1>4, <1>5, FilesKeep
<1> QED
  BY <1>4, <1>6 DEF r

\* What a request for a file leaves when it was cut short: a part of it only of a runtime
\* that is then on record as torn.
LEMMA CutKeeps ==
  ASSUME WorldInv, NEW r \in Runtime, NEW f \in File, UNCHANGED <<node, hostwide, tenant>>,
         \/ cache' = [cache EXCEPT ![r].archive = f]
         \/ cache' = [cache EXCEPT ![r].tree = f],
         torn' = torn \/ torn' = torn \cup {r}, f = "part" => r \in torn'
  PROVE  WorldInv'
<1>1. r \in torn => r \in torn'
  OBVIOUS
<1>2. /\ cache' \in [Runtime -> [archive : File, tree : File]]
      /\ node' \in [Runtime -> [files : File, class : BOOLEAN]]
      /\ \A q \in Runtime \ {r} : cache'[q] = cache[q] /\ node'[q] = node[q]
      /\ cache'[r].archive \in {f, cache[r].archive} /\ cache'[r].tree \in {f, cache[r].tree}
      /\ node'[r] = node[r]
  BY CacheFacts
<1>3. "part" \in {cache'[r].archive, cache'[r].tree, node'[r].files} => r \in torn'
  BY <1>1, <1>2, FilesFacts
<1> QED
  BY <1>2, <1>3, FilesKeep

LEMMA HalfDownloadKeeps ==
  ASSUME WorldInv, sandbox \in Runtime, NEW how \in {"failed", "killed"}, HalfDownload(how)
  PROVE  WorldInv'
<1>1. /\ cache' = [cache EXCEPT ![sandbox].archive = Kept(how)]
      /\ torn' = IF how = "killed" THEN torn \cup {sandbox} ELSE torn
      /\ UNCHANGED <<node, hostwide, tenant>>
  BY DEF HalfDownload
<1>2. Kept(how) \in File /\ (Kept(how) = "part" => how = "killed")
  BY DEF Kept, File
<1>3. (torn' = torn \/ torn' = torn \cup {sandbox}) /\ (Kept(how) = "part" => sandbox \in torn')
  BY <1>1, <1>2
<1> QED
  BY <1>1, <1>2, <1>3, CutKeeps

LEMMA HalfUnpackKeeps ==
  ASSUME WorldInv, sandbox \in Runtime, HalfUnpack
  PROVE  WorldInv'
<1>1. /\ cache' = [cache EXCEPT ![sandbox].tree = "part"] /\ torn' = torn \cup {sandbox}
      /\ UNCHANGED <<node, hostwide, tenant>>
  BY DEF HalfUnpack
<1>2. "part" \in File /\ sandbox \in torn'
  BY <1>1 DEF File
<1> QED
  BY <1>1, <1>2, CutKeeps

\* A step of the builder.
LEMMA BuildKeeps ==
  ASSUME WorldInv, cmd \in Command, cluster.by # "nobody", network.settled,
         NEW t \in Tenant, NEW s, s = "declare" => webhooks, Build(t, s)
  PROVE  /\ WorldInv'
         /\ tenant'[t] = After(tenant[t], s)
         /\ \A u \in Tenant \ {t} : tenant'[u] = tenant[u]
         /\ \A r \in DOMAIN releases : releases'[r] \in {releases[r], "up"}
<1>1. /\ WorldOK /\ UNCHANGED <<cluster, network, webhooks, cache, node, torn>>
      /\ tenant' = [tenant EXCEPT ![t] = After(tenant[t], s)]
      /\ releases' = IF s \in DOMAIN releases /\ releases[s] = "none"
                     THEN [releases EXCEPT ![s] = "up"] ELSE releases
  BY DEF WorldInv, Build, runtimes
<1>2. tenant \in [Tenant -> Belongings] /\ tenant[t] \in Belongings
      /\ releases \in [{"kubeovn", "capsule", "proxy", "kamaji"} -> Release]
  BY <1>1 DEF WorldOK
<1>3. /\ After(tenant[t], s) \in Belongings
      /\ (After(tenant[t], s).declared <=> tenant[t].declared \/ s = "declare")
  BY <1>2, AfterFacts
<1>4. /\ tenant' \in [Tenant -> Belongings]
      /\ tenant'[t] = After(tenant[t], s) /\ \A u \in Tenant \ {t} : tenant'[u] = tenant[u]
  BY <1>1, <1>2, <1>3
<1>5. /\ releases' \in [{"kubeovn", "capsule", "proxy", "kamaji"} -> Release]
      /\ \A r \in DOMAIN releases : releases'[r] \in {releases[r], "up"}
  BY <1>1, <1>2 DEF Release
<1>6. WorldOK'
  BY <1>1, <1>4, <1>5 DEF WorldOK
<1>7. TenantsAreGuarded'
  <2>1. ASSUME NEW u \in Tenant, tenant'[u].declared
        PROVE  webhooks
    <3>1. CASE u = t
      BY <1>3, <1>4, <2>1, <3>1 DEF WorldInv, TenantsAreGuarded
    <3>2. CASE u # t
      BY <1>4, <2>1, <3>2 DEF WorldInv, TenantsAreGuarded
    <3> QED
      BY <3>1, <3>2
  <2> QED
    BY <1>1, <2>1 DEF TenantsAreGuarded
<1>8. Emptied' /\ PartsAreTorn'
  BY <1>1 DEF WorldInv, Emptied, PartsAreTorn
<1> QED
  BY <1>4, <1>5, <1>6, <1>7, <1>8 DEF WorldInv

\* A Helm release that failed, or that a process was killed over.
LEMMA HalfReleaseKeeps ==
  ASSUME WorldInv, cmd \in Command, cluster.by # "nobody", pc = "build" => network.settled,
         who \in Tenant, NEW how \in {"failed", "killed"}, HalfRelease(how)
  PROVE  WorldInv'
<1> DEFINE left == IF how = "failed" THEN "failed" ELSE "pending"
<1>1. left \in Release
  BY DEF Release
<1>2. \/ /\ Cni(cmd) = "kubeovn"
         /\ releases' = [releases EXCEPT !["kubeovn"] = left]
         /\ network' = [network EXCEPT !.applied = @ \cup {"kubeovn"}]
         /\ UNCHANGED <<cluster, webhooks, runtimes, tenant>>
      \/ /\ current \in DOMAIN releases
         /\ releases' = [releases EXCEPT ![current] = left]
         /\ UNCHANGED <<cluster, network, webhooks, runtimes, tenant>>
      \/ /\ pc = "build"
         /\ tenant' = [tenant EXCEPT ![who].release = left, ![who].spaces = @ \cup {"host"}]
         /\ UNCHANGED <<hostwide, runtimes>>
  BY DEF HalfRelease
<1> HIDE DEF left
<1>3. WorldOK
  BY DEF WorldInv
<1>4. CASE /\ Cni(cmd) = "kubeovn"
           /\ releases' = [releases EXCEPT !["kubeovn"] = left]
           /\ network' = [network EXCEPT !.applied = @ \cup {"kubeovn"}]
           /\ UNCHANGED <<cluster, webhooks, runtimes, tenant>>
  BY <1>1, <1>4, ApplyCniKeeps
<1>5. CASE /\ current \in DOMAIN releases
           /\ releases' = [releases EXCEPT ![current] = left]
           /\ UNCHANGED <<cluster, network, webhooks, runtimes, tenant>>
  <2>1. releases' \in [{"kubeovn", "capsule", "proxy", "kamaji"} -> Release]
    BY <1>1, <1>3, <1>5 DEF WorldOK
  <2> QED
    BY <1>3, <1>5, <2>1
    DEF WorldInv, WorldOK, TenantsAreGuarded, Emptied, PartsAreTorn, runtimes
<1>6. CASE /\ pc = "build"
           /\ tenant' = [tenant EXCEPT ![who].release = left, ![who].spaces = @ \cup {"host"}]
           /\ UNCHANGED <<hostwide, runtimes>>
  <2>1. tenant \in [Tenant -> Belongings]
    BY <1>3 DEF WorldOK
  <2>2. /\ tenant' \in [Tenant -> Belongings]
        /\ \A u \in Tenant : tenant'[u].declared = tenant[u].declared
    BY <1>1, <1>6, <2>1 DEF Belongings
  <2>3. WorldOK'
    BY <1>3, <1>6, <2>2 DEF WorldOK, hostwide, runtimes
  <2>4. TenantsAreGuarded'
    BY <1>6, <2>2 DEF WorldInv, TenantsAreGuarded, hostwide
  <2>5. Emptied' /\ PartsAreTorn'
    BY <1>6 DEF WorldInv, Emptied, PartsAreTorn, hostwide, runtimes
  <2> QED
    BY <2>3, <2>4, <2>5 DEF WorldInv
<1> QED
  BY <1>2, <1>4, <1>5, <1>6

-----------------------------------------------------------------------------
(***************************************************************************)
(* The invariant.                                                          *)
(***************************************************************************)
Course == ClustersKept /\ Waited /\ RuntimeSoFar /\ MadeSoFar /\ FreshSoFar

LEMMA Parts ==
  /\ IInv <=> ControlOK /\ WorldInv /\ Course
  /\ IInv' <=> ControlOK' /\ WorldInv' /\ Course'
BY DEF IInv, TypeOK, WorldInv, Course

\* Between two commands nothing is under way.
LEMMA IdleFacts ==
  ASSUME pc = "idle"
  PROVE  Waited /\ RuntimeSoFar /\ MadeSoFar /\ FreshSoFar
BY DEF Waited, RuntimeSoFar, MadeSoFar, FreshSoFar, OnCluster, Networked, OnNodes, OnTenant, Building

LEMMA InitInvariant ==
  Init => IInv
<1> SUFFICES ASSUME Init PROVE IInv
  OBVIOUS
<1>1. /\ campaign # <<>> /\ campaign \in Seq(Command) /\ OneCluster(campaign)
      /\ pc = "idle" /\ who = "tenant1" /\ step = 1 /\ found = {} /\ outcome = "none"
      /\ troubled = FALSE /\ mishaps = 0 /\ webhooks = FALSE /\ torn = {}
  BY CampaignsAssumption DEF Init
<1>2. ControlOK
  <2>1. troubled \in BOOLEAN
    BY <1>1
  <2>2. mishaps \in 0 .. Mishaps
    BY <1>1, MishapsAssumption
  <2> QED
    BY <1>1, <2>1, <2>2 DEF ControlOK, Tenant
<1>3. /\ releases = [r \in {"kubeovn", "capsule", "proxy", "kamaji"} |-> "none"]
      /\ cache = [r \in Runtime |-> Absent]
      /\ node = [r \in Runtime |-> [files |-> "none", class |-> FALSE]]
      /\ tenant = [t \in Tenant |-> Blank]
  BY DEF Init
<1>4. /\ cluster \in [by : {"nobody", "kind", "other"}, ports : Port, patched : SUBSET Runtime]
      /\ network \in [applied : SUBSET {"calico", "kubeovn", "other"}, settled : BOOLEAN]
      /\ cluster.by = "nobody" => network.applied = {} /\ ~network.settled
      /\ cluster.by = "other" => cmd.provider = "none"
  <2>0. /\ NoCluster.by = "nobody"
        /\ NoCluster \in [by : {"nobody", "kind", "other"}, ports : Port, patched : SUBSET Runtime]
    BY DEF NoCluster, Port
  <2>1. CASE cluster = NoCluster /\ network = [applied |-> {}, settled |-> FALSE]
    BY <2>0, <2>1
  <2>2. CASE /\ cmd.provider = "none"
             /\ cluster = [NoCluster EXCEPT !.by = "other"]
             /\ network = [applied |-> {"other"}, settled |-> TRUE]
    BY <2>0, <2>2
  <2> QED
    BY <2>1, <2>2 DEF Init
<1>5. WorldOK
  BY <1>1, <1>3, <1>4, BlankFacts DEF WorldOK, Absent, File, Release
<1>6. \A t \in Tenant : tenant[t] = Blank /\ ~tenant[t].declared
  BY <1>3, BlankFacts
<1>7. TenantsAreGuarded /\ Emptied /\ PartsAreTorn
  BY <1>1, <1>3, <1>4, <1>6 DEF TenantsAreGuarded, Emptied, PartsAreTorn, Absent
<1>8. ClustersKept
  <2>1. cmd = campaign[1] /\ 1 \in DOMAIN campaign
    BY <1>1, <1>2, CampaignFacts
  <2> QED
    BY <1>1, <1>4, <2>1 DEF ClustersKept, OneCluster, OnCluster
<1> QED
  BY <1>1, <1>2, <1>5, <1>7, <1>8, IdleFacts, Parts DEF WorldInv, Course

\* The end of a command, with what it leaves.
LEMMA EndKeeps ==
  ASSUME IInv, campaign # <<>>, NEW how \in {"complete", "failed", "killed"}, End(how),
         troubled' \in BOOLEAN, mishaps' \in 0 .. Mishaps, WorldInv',
         cluster'.by = "other" => cluster.by = "other"
  PROVE  IInv'
<1>1. /\ ControlOK /\ ClustersKept /\ pc' = "idle" /\ outcome' = how /\ campaign' = Tail(campaign)
      /\ UNCHANGED <<who, step, found>>
  BY Parts DEF End, Course
<1>2. /\ Tail(campaign) \in Seq(Command)
      /\ \A i \in DOMAIN Tail(campaign) :
           i + 1 \in DOMAIN campaign /\ Tail(campaign)[i] = campaign[i + 1]
  BY <1>1, CampaignFacts
<1>3. ControlOK'
  BY <1>1, <1>2 DEF ControlOK
<1>4. ClustersKept'
  BY <1>1, <1>2 DEF ClustersKept, OnCluster
<1>5. Waited' /\ RuntimeSoFar' /\ MadeSoFar' /\ FreshSoFar'
  BY <1>1
  DEF Waited, RuntimeSoFar, MadeSoFar, FreshSoFar, OnCluster, Networked, OnNodes, OnTenant, Building
<1> QED
  BY <1>3, <1>4, <1>5, Parts DEF Course

\* A command starts, on a cluster that is there or on one that was deleted.
LEMMA StartKeeps ==
  ASSUME IInv, Start
  PROVE  IInv'
<1>1. /\ ControlOK /\ WorldInv /\ ClustersKept
      /\ campaign # <<>> /\ UNCHANGED <<campaign, mishaps, cache, torn>>
      /\ pc' = "cluster" /\ who' = "tenant1" /\ step' = 1
      /\ found' = {} /\ outcome' = "none" /\ troubled' = FALSE
  BY Parts DEF Start, Course
<1>2. ControlOK'
  <2>1. troubled' \in BOOLEAN
    BY <1>1
  <2> QED
    BY <1>1, <2>1 DEF ControlOK, Tenant
<1>3. WorldInv' /\ (cluster'.by = "other" => cluster.by = "other")
  <2>1. CASE cmd.wipe
    <3>1. /\ cluster' = NoCluster /\ network' = [applied |-> {}, settled |-> FALSE]
          /\ releases' = [r \in DOMAIN releases |-> "none"] /\ webhooks' = FALSE
          /\ node' = [r \in Runtime |-> [files |-> "none", class |-> FALSE]]
          /\ tenant' = [t \in Tenant |-> Blank]
      BY <2>1 DEF Start
    <3>2. /\ NoCluster.by = "nobody"
          /\ NoCluster \in [by : {"nobody", "kind", "other"}, ports : Port, patched : SUBSET Runtime]
      BY DEF NoCluster, Port
    <3>3. WorldOK'
      BY <1>1, <3>1, <3>2, BlankFacts DEF WorldInv, WorldOK, File, Release
    <3>4. \A t \in Tenant : tenant'[t] = Blank /\ ~tenant'[t].declared
      BY <3>1, BlankFacts
    <3>5. TenantsAreGuarded' /\ Emptied'
      BY <3>1, <3>4 DEF TenantsAreGuarded, Emptied
    <3>6. PartsAreTorn'
      BY <1>1, <3>1 DEF WorldInv, PartsAreTorn
    <3> QED
      BY <3>1, <3>2, <3>3, <3>5, <3>6 DEF WorldInv
  <2>2. CASE ~cmd.wipe
    <3>1. UNCHANGED world
      BY <1>1, <2>2 DEF Start, world, hostwide, runtimes
    <3> QED
      BY <1>1, <3>1, WorldKept DEF world, hostwide
  <2> QED
    BY <2>1, <2>2
<1>4. ClustersKept'
  BY <1>1, <1>3 DEF ClustersKept, OnCluster
<1>5. Waited' /\ RuntimeSoFar' /\ MadeSoFar' /\ FreshSoFar'
  BY <1>1
  DEF Waited, RuntimeSoFar, MadeSoFar, FreshSoFar, OnCluster, Networked, OnNodes, OnTenant, Building
<1> QED
  BY <1>2, <1>3, <1>4, <1>5, Parts DEF Course

-----------------------------------------------------------------------------
(***************************************************************************)
(* The host cluster, its network and its runtime.                          *)
(***************************************************************************)
\* Whatever is not idle runs a command.
LEMMA RunningFacts ==
  ASSUME IInv, pc # "idle"
  PROVE  /\ ControlOK /\ WorldInv /\ WorldOK
         /\ ClustersKept /\ Waited /\ RuntimeSoFar /\ MadeSoFar /\ FreshSoFar
         /\ campaign # <<>> /\ cmd \in Command /\ cmd = campaign[1] /\ 1 \in DOMAIN campaign
<1>1. ControlOK /\ WorldInv /\ Course
  BY Parts
<1>2. campaign # <<>>
  BY <1>1 DEF ControlOK
<1> QED
  BY <1>1, <1>2, CampaignFacts DEF Course, WorldInv

LEMMA CommandKept ==
  ASSUME UNCHANGED campaign
  PROVE  cmd' = cmd /\ sandbox' = sandbox /\ (RuntimeRefused' <=> RuntimeRefused)
BY DEF cmd, sandbox, RuntimeRefused

LEMMA SandboxedKept ==
  ASSUME UNCHANGED <<campaign, node, torn>>
  PROVE  Sandboxed' <=> Sandboxed
BY DEF Sandboxed, cmd

\* A step of the command that moves on, in this tenant's making or before.
LEMMA GoToFacts ==
  ASSUME IInv, NEW place \in {"cni", "nodes", "download", "unpack", "copy", "publish", "look",
                              "build"},
         GoTo(place), pc # "idle"
  PROVE  /\ pc' = place /\ UNCHANGED <<campaign, who, step, found, outcome, troubled, mishaps>>
         /\ ControlOK' /\ cmd' = cmd /\ sandbox' = sandbox
         /\ (RuntimeRefused' <=> RuntimeRefused)
         /\ (Unspoilt' <=> Unspoilt)
<1>1. pc' = place /\ UNCHANGED <<campaign, who, step, found, outcome, troubled, mishaps>>
  BY DEF GoTo
<1>2. ControlOK'
  BY <1>1, RunningFacts DEF ControlOK
<1>3. cmd' = cmd /\ sandbox' = sandbox /\ (RuntimeRefused' <=> RuntimeRefused)
  BY <1>1, CommandKept
<1>4. Unspoilt' <=> Unspoilt
  BY <1>1, <1>3 DEF Unspoilt
<1> QED
  BY <1>1, <1>2, <1>3, <1>4

LEMMA EnsureClusterKeeps ==
  ASSUME IInv, EnsureCluster
  PROVE  IInv'
<1>1. /\ pc = "cluster" /\ ~ClusterRefused /\ MakeCluster /\ GoTo("cni")
      /\ UNCHANGED <<network, releases, webhooks, runtimes, tenant>>
  BY DEF EnsureCluster, MakeCluster
<1>2. /\ pc' = "cni" /\ UNCHANGED <<campaign, who, step, found, outcome, troubled, mishaps>>
      /\ ControlOK' /\ cmd' = cmd /\ (Unspoilt' <=> Unspoilt)
  BY <1>1, GoToFacts
<1>3. /\ ControlOK /\ WorldInv /\ WorldOK
      /\ ClustersKept /\ Waited /\ RuntimeSoFar /\ MadeSoFar /\ FreshSoFar
      /\ cmd \in Command /\ cmd = campaign[1] /\ 1 \in DOMAIN campaign
  BY <1>1, RunningFacts
<1>4. /\ WorldInv'
      /\ cluster'.by # "nobody" /\ cmd.provider # "k3s"
      /\ cmd.provider = "kind" => cluster'.by = "kind"
      /\ cluster'.by = "other" => cluster.by = "other"
      /\ cmd.provider = "kind" /\ ~cmd.existing => cluster'.ports = cmd.ports
  BY <1>1, <1>3, MakeClusterKeeps
<1>5. ClustersKept'
  BY <1>2, <1>3, <1>4 DEF ClustersKept, OnCluster
<1>6. Waited' /\ RuntimeSoFar'
  BY <1>2 DEF Waited, RuntimeSoFar, OnCluster, Networked, OnNodes, OnTenant, Building
<1>7. MadeSoFar'
  BY <1>1, <1>2, <1>3 DEF MadeSoFar, OnCluster, Networked, OnTenant, Building
<1>8. FreshSoFar'
  <2> SUFFICES ASSUME Unspoilt
               PROVE  /\ cluster'.ports = cmd.ports
                      /\ \A r \in DOMAIN releases : releases[r] \in {"none", "up"}
                      /\ releases["kubeovn"] = "none"
                      /\ \A t \in Tenant : tenant[t] = Blank
    BY <1>1, <1>2 DEF FreshSoFar, OnTenant, Building
  <2>1. cmd.provider = "kind" /\ ~cmd.existing
    BY DEF Unspoilt
  <2>2. cluster.by # "kind" /\ cluster.by # "other"
    BY <1>1, <1>3, <2>1 DEF ClusterRefused, ClustersKept
  <2>3. cluster.by = "nobody" /\ Emptied
    BY <1>3, <2>2 DEF WorldOK, WorldInv
  <2>4. releases["kubeovn"] = "none"
    BY <1>3, <2>3 DEF WorldOK, Emptied
  <2> QED
    BY <1>4, <2>1, <2>3, <2>4 DEF Emptied
<1> QED
  BY <1>2, <1>4, <1>5, <1>6, <1>7, <1>8, Parts DEF Course

LEMMA InstallCniKeeps ==
  ASSUME IInv, InstallCni
  PROVE  IInv'
<1>1. pc = "cni" /\ ~CniRefused /\ ApplyCni /\ GoTo("nodes")
  BY DEF InstallCni
<1>2. /\ pc' = "nodes" /\ UNCHANGED <<campaign, who, step, found, outcome, troubled, mishaps>>
      /\ ControlOK' /\ cmd' = cmd /\ (Unspoilt' <=> Unspoilt)
  BY <1>1, GoToFacts
<1>3. /\ ControlOK /\ WorldInv /\ WorldOK
      /\ ClustersKept /\ Waited /\ RuntimeSoFar /\ MadeSoFar /\ FreshSoFar /\ cmd \in Command
  BY <1>1, RunningFacts
<1>4. /\ network' = [network EXCEPT !.applied = @ \cup {Cni(cmd)}]
      /\ releases' = IF Cni(cmd) = "kubeovn"
                     THEN [releases EXCEPT !["kubeovn"] = "up"] ELSE releases
      /\ UNCHANGED <<cluster, webhooks, runtimes, tenant>>
  BY <1>1 DEF ApplyCni
<1>5. WorldInv' /\ Cni(cmd) \in network'.applied
  <2>1. cluster.by # "nobody"
    BY <1>1, <1>3 DEF ClustersKept, OnCluster
  <2>2. "up" \in Release
    BY DEF Release
  <2>3. \/ releases' = releases
        \/ \E r \in Release : releases' = [releases EXCEPT !["kubeovn"] = r]
    BY <1>4, <2>2
  <2> QED
    BY <1>3, <1>4, <2>1, <2>3, ApplyCniKeeps
<1>6. ClustersKept'
  BY <1>1, <1>2, <1>3, <1>4 DEF ClustersKept, OnCluster
<1>7. Waited' /\ RuntimeSoFar'
  BY <1>2 DEF Waited, RuntimeSoFar, OnCluster, Networked, OnNodes, OnTenant, Building
<1>8. MadeSoFar'
  BY <1>1, <1>2, <1>3, <1>5 DEF MadeSoFar, OnCluster, Networked, OnTenant, Building
<1>9. FreshSoFar'
  <2> SUFFICES ASSUME Unspoilt
               PROVE  /\ cluster.ports = cmd.ports
                      /\ \A r \in DOMAIN releases' : releases'[r] \in {"none", "up"}
                      /\ \A t \in Tenant : tenant[t] = Blank
    BY <1>2, <1>4 DEF FreshSoFar, OnTenant, Building
  <2>1. /\ cluster.ports = cmd.ports
        /\ \A r \in DOMAIN releases : releases[r] \in {"none", "up"}
        /\ \A t \in Tenant : tenant[t] = Blank
    BY <1>1, <1>3 DEF FreshSoFar, OnCluster, OnTenant
  <2>2. \A r \in DOMAIN releases' : releases'[r] \in {"none", "up"}
    BY <1>3, <1>4, <2>1 DEF WorldOK
  <2> QED
    BY <2>1, <2>2
<1> QED
  BY <1>2, <1>5, <1>6, <1>7, <1>8, <1>9, Parts DEF Course

LEMMA WaitForNodesKeeps ==
  ASSUME IInv, WaitForNodes
  PROVE  IInv'
<1> DEFINE place == IF Sandboxes(cmd) = {} THEN "look" ELSE "download"
<1>1. pc = "nodes" /\ network.settled /\ GoTo(place) /\ UNCHANGED world
  BY DEF WaitForNodes
<1>2. /\ pc' = place /\ UNCHANGED <<campaign, who, step, found, outcome, troubled, mishaps>>
      /\ ControlOK' /\ cmd' = cmd /\ (Unspoilt' <=> Unspoilt)
  BY <1>1, GoToFacts
<1>3. /\ ControlOK /\ WorldInv /\ WorldOK
      /\ ClustersKept /\ Waited /\ RuntimeSoFar /\ MadeSoFar /\ FreshSoFar /\ cmd \in Command
  BY <1>1, RunningFacts
<1>4. UNCHANGED <<cluster, network, releases, webhooks, cache, node, torn, tenant>> /\ WorldInv'
  BY <1>1, <1>3, WorldKept DEF world, hostwide, runtimes
<1>5. ClustersKept' /\ Waited'
  BY <1>1, <1>2, <1>3, <1>4
  DEF ClustersKept, Waited, OnCluster, Networked, OnNodes, OnTenant, Building
<1>6. RuntimeSoFar'
  <2>1. CASE Sandboxes(cmd) = {}
    <3>1. Runtimes(cmd) = {} /\ pc' = "look"
      BY <1>2, <1>3, <2>1, CommandFacts
    <3>2. Sandboxed'
      BY <1>2, <3>1 DEF Sandboxed
    <3> QED
      BY <3>1, <3>2 DEF RuntimeSoFar
  <2>2. CASE Sandboxes(cmd) # {}
    <3>1. pc' = "download"
      BY <1>2, <2>2
    <3> QED
      BY <1>2, <2>2, <3>1 DEF RuntimeSoFar, OnTenant
  <2> QED
    BY <2>1, <2>2
<1>7. MadeSoFar'
  BY <1>1, <1>2, <1>3, <1>4 DEF MadeSoFar, OnCluster, Networked, OnTenant, Building
<1>8. FreshSoFar'
  <2>1. \A t \in Tenant : Unspoilt => tenant[t] = Blank
    BY <1>1, <1>3 DEF FreshSoFar, OnCluster, OnTenant
  <2>2. who \in Tenant /\ "tenant2" \in Tenant
    BY <1>3 DEF ControlOK, Tenant
  <2> QED
    BY <1>1, <1>2, <1>3, <1>4, <2>1, <2>2 DEF FreshSoFar, OnCluster, OnTenant, Building
<1> QED
  BY <1>2, <1>4, <1>5, <1>6, <1>7, <1>8, Parts DEF Course

\* A request of install_sandbox_runtime touches the runtime's files alone.
LEMMA RuntimeStepKeeps ==
  ASSUME IInv, pc \in {"download", "unpack", "copy", "publish"},
         NEW place \in {"unpack", "copy", "publish", "look"}, GoTo(place),
         UNCHANGED <<hostwide, tenant>>, WorldInv', RuntimeSoFar'
  PROVE  IInv'
<1>1. pc # "idle"
  OBVIOUS
<1>2. /\ pc' = place /\ UNCHANGED <<campaign, who, step, found, outcome, troubled, mishaps>>
      /\ ControlOK' /\ cmd' = cmd /\ (Unspoilt' <=> Unspoilt)
  BY <1>1, GoToFacts
<1>3. /\ ControlOK /\ WorldOK
      /\ ClustersKept /\ Waited /\ MadeSoFar /\ FreshSoFar /\ cmd \in Command
  BY <1>1, RunningFacts
<1>4. UNCHANGED <<cluster, network, releases, webhooks, tenant>>
  BY DEF hostwide
<1>5. ClustersKept' /\ Waited'
  BY <1>2, <1>3, <1>4
  DEF ClustersKept, Waited, OnCluster, Networked, OnNodes, OnTenant, Building
<1>6. MadeSoFar'
  BY <1>2, <1>3, <1>4 DEF MadeSoFar, OnCluster, Networked, OnTenant, Building
<1>7. FreshSoFar'
  <2>1. \A t \in Tenant : Unspoilt => tenant[t] = Blank
    BY <1>3 DEF FreshSoFar, OnCluster, OnTenant
  <2>2. who \in Tenant /\ "tenant2" \in Tenant
    BY <1>3 DEF ControlOK, Tenant
  <2> QED
    BY <1>2, <1>3, <1>4, <2>1, <2>2 DEF FreshSoFar, OnCluster, OnTenant, Building
<1> QED
  BY <1>2, <1>5, <1>6, <1>7, Parts DEF Course

LEMMA InstallRuntimeKeeps ==
  ASSUME IInv, InstallRuntime
  PROVE  IInv'
<1>1. pc \in {"download", "unpack", "copy", "publish"}
  BY DEF InstallRuntime
<1>2. /\ WorldInv /\ RuntimeSoFar /\ cmd \in Command /\ WorldOK
  BY <1>1, RunningFacts
<1>3. /\ sandbox \in Runtimes(cmd) /\ sandbox \in Runtime /\ Sandboxes(cmd) # {}
      /\ ~RuntimeRefused => Runtimes(cmd) = {sandbox}
  BY <1>1, <1>2, SandboxFacts, CommandFacts DEF RuntimeSoFar
<1>4. CASE pc = "download" /\ ~RuntimeRefused /\ Download /\ GoTo("unpack")
  <2>1. WorldInv' /\ cache'[sandbox].archive # "none"
    BY <1>2, <1>3, <1>4, DownloadKeeps
  <2>2. pc' = "unpack" /\ cmd' = cmd /\ sandbox' = sandbox /\ (RuntimeRefused' <=> RuntimeRefused)
    BY <1>4, GoToFacts
  <2>3. RuntimeSoFar'
    BY <1>3, <1>4, <2>1, <2>2 DEF RuntimeSoFar, OnTenant
  <2> QED
    BY <1>4, <2>1, <2>3, RuntimeStepKeeps DEF Download
<1>5. CASE pc = "unpack" /\ ~UnpackRefused /\ Unpack /\ GoTo("copy")
  <2>1. cache[sandbox].archive # "none" /\ ~RuntimeRefused
    BY <1>2, <1>5 DEF RuntimeSoFar
  <2>2. /\ WorldInv'
        /\ "none" # IF sandbox = "gvisor" THEN cache'[sandbox].archive ELSE cache'[sandbox].tree
    BY <1>2, <1>3, <1>5, <2>1, UnpackKeeps
  <2>3. pc' = "copy" /\ cmd' = cmd /\ sandbox' = sandbox /\ (RuntimeRefused' <=> RuntimeRefused)
    BY <1>5, GoToFacts
  <2>4. RuntimeSoFar'
    BY <1>3, <2>1, <2>2, <2>3 DEF RuntimeSoFar, OnTenant
  <2> QED
    BY <1>5, <2>2, <2>4, RuntimeStepKeeps DEF Unpack
<1>6. CASE pc = "copy" /\ Copy /\ GoTo("publish")
  <2>1. /\ "none" # IF sandbox = "gvisor" THEN cache[sandbox].archive ELSE cache[sandbox].tree
        /\ ~RuntimeRefused
    BY <1>2, <1>6 DEF RuntimeSoFar
  <2>2. /\ WorldInv'
        /\ node'[sandbox].files # "none"
    BY <1>2, <1>3, <1>6, <2>1, CopyKeeps
  <2>3. pc' = "publish" /\ cmd' = cmd /\ sandbox' = sandbox /\ (RuntimeRefused' <=> RuntimeRefused)
    BY <1>6, GoToFacts
  <2>4. RuntimeSoFar'
    BY <1>3, <2>1, <2>2, <2>3 DEF RuntimeSoFar, OnTenant
  <2> QED
    BY <1>6, <2>2, <2>4, RuntimeStepKeeps DEF Copy
<1>7. CASE pc = "publish" /\ Publish /\ GoTo("look")
  <2>1. node[sandbox].files # "none" /\ ~RuntimeRefused
    BY <1>2, <1>7 DEF RuntimeSoFar
  <2>2. WorldInv' /\ node'[sandbox].class /\ node'[sandbox].files = node[sandbox].files
    BY <1>2, <1>3, <1>7, PublishKeeps
  <2>3. pc' = "look" /\ cmd' = cmd
    BY <1>7, GoToFacts
  <2>4. node'[sandbox].files \in File /\ PartsAreTorn'
    BY <1>3, <2>2 DEF WorldInv, WorldOK
  <2>5. node'[sandbox].files = "whole" \/ sandbox \in torn'
    BY <1>3, <2>1, <2>2, <2>4 DEF File, PartsAreTorn
  <2>6. Sandboxed'
    BY <1>3, <2>1, <2>2, <2>3, <2>5 DEF Sandboxed
  <2>7. RuntimeSoFar'
    BY <2>3, <2>6 DEF RuntimeSoFar
  <2> QED
    BY <1>7, <2>2, <2>7, RuntimeStepKeeps DEF Publish
<1> QED
  BY <1>4, <1>5, <1>6, <1>7 DEF InstallRuntime

-----------------------------------------------------------------------------
(***************************************************************************)
(* The tenants.                                                            *)
(***************************************************************************)
\* On to the next tenant, or to the end: the one at hand was taken or is made.
LEMMA NextTenantKeeps ==
  ASSUME IInv, pc \in {"look", "build"}, NextTenant, UNCHANGED world,
         found' = found \/ found' = found \cup {who},
         who \in found' \/ Made(who)
  PROVE  IInv'
<1>1. /\ ControlOK /\ WorldInv
      /\ ClustersKept /\ Waited /\ RuntimeSoFar /\ MadeSoFar /\ FreshSoFar
  BY RunningFacts
<1>2. /\ UNCHANGED <<cluster, network, releases, webhooks, cache, node, torn, tenant>> /\ WorldInv'
      /\ UNCHANGED <<campaign, outcome, troubled, mishaps>> /\ step' = 1
      /\ IF who = "tenant1" THEN pc' = "look" /\ who' = "tenant2"
         ELSE pc' = "ready" /\ who' = who
  BY <1>1, WorldKept DEF NextTenant, world, hostwide, runtimes
<1>3. cmd' = cmd /\ (Sandboxed' <=> Sandboxed) /\ \A t : Made(t)' <=> Made(t)
  BY <1>2, CommandKept, SandboxedKept, MadeKept
<1>4. who \in {"tenant1", "tenant2"} /\ pc' \in {"look", "ready"} /\ who' = "tenant2"
  BY <1>1, <1>2 DEF ControlOK, Tenant
<1>5. ControlOK'
  <2>1. found' \subseteq Tenant
    BY <1>1 DEF ControlOK
  <2>4. who' \in Tenant /\ step' \in Nat \ {0}
    BY <1>2, <1>4 DEF Tenant
  <2>2. campaign' \in Seq(Command) /\ campaign' # <<>>
    BY <1>1, <1>2 DEF ControlOK
  <2>3. troubled' \in BOOLEAN /\ mishaps' \in 0 .. Mishaps
        /\ outcome' \in {"none", "complete", "failed", "killed"}
    BY <1>1, <1>2 DEF ControlOK
  <2> QED
    BY <1>4, <2>1, <2>2, <2>3, <2>4 DEF ControlOK
<1>6. ClustersKept' /\ Waited'
  BY <1>1, <1>2, <1>3, <1>4
  DEF ClustersKept, Waited, OnCluster, Networked, OnNodes, OnTenant, Building
<1>7. RuntimeSoFar'
  BY <1>1, <1>3, <1>4 DEF RuntimeSoFar, OnTenant
<1>8. MadeSoFar'
  <2>1. Cni(cmd) \in network.applied
    BY <1>1 DEF MadeSoFar, OnCluster, Networked
  <2>2. "tenant1" \in found' \/ Made("tenant1")
    BY <1>1, <1>4 DEF MadeSoFar
  <2>3. pc' = "ready" => "tenant2" \in found' \/ Made("tenant2")
    BY <1>2, <1>4
  <2> QED
    BY <1>2, <1>3, <1>4, <2>1, <2>2, <2>3 DEF MadeSoFar, OnCluster, Networked, OnTenant, Building
<1>9. FreshSoFar'
  <2>1. Unspoilt' <=> Unspoilt
    BY <1>2, <1>3 DEF Unspoilt
  <2>2. Unspoilt /\ who = "tenant1" => tenant["tenant2"] = Blank
    BY <1>1 DEF FreshSoFar, OnCluster, OnTenant
  <2>3. Unspoilt => /\ cluster.ports = cmd.ports
                    /\ \A r \in DOMAIN releases : releases[r] \in {"none", "up"}
    BY <1>1 DEF FreshSoFar, OnCluster
  <2> QED
    BY <1>2, <1>3, <1>4, <2>1, <2>2, <2>3 DEF FreshSoFar, OnCluster, OnTenant, Building
<1> QED
  BY <1>2, <1>5, <1>6, <1>7, <1>8, <1>9, Parts DEF Course

LEMMA TakeTenantKeeps ==
  ASSUME IInv, TakeTenant
  PROVE  IInv'
BY NextTenantKeeps DEF TakeTenant

\* A tenant whose plan is done is made.
LEMMA FinishTenantKeeps ==
  ASSUME IInv, FinishTenant
  PROVE  IInv'
<1> DEFINE P == Plan(cmd)
           it == tenant[who]
<1>1. pc = "build" /\ step > Len(P) /\ NextTenant /\ UNCHANGED <<found, world>>
  BY DEF FinishTenant
<1>2. ControlOK /\ MadeSoFar /\ cmd \in Command
  BY <1>1, RunningFacts
<1>3. step \in Nat /\ Len(P) \in Nat
  BY <1>2, PlanFacts DEF ControlOK
<1>4. \A i \in 1 .. Len(P) : Done(cmd, it, P[i]) /\ (P[i] = "inner" => Reached(who))
  BY <1>1, <1>2, <1>3 DEF MadeSoFar, Building
<1>5. /\ cmd.kind = "native" \/ \E j \in 1 .. Len(P) : P[j] = "inner"
      /\ \E j \in 1 .. Len(P) : P[j] \in Configures \cup {"config"}
      /\ \A x \in ToSet(DataPlane(cmd)) : \E j \in 1 .. Len(P) : P[j] = x /\ x \in Strategy
  BY <1>2, PlanFacts
<1> HIDE DEF P
<1>6. it.config.by = cmd.kind
  BY <1>4, <1>5 DEF Done
<1>7. Reached(who) /\ Inner(cmd.kind) \in it.spaces \cup {"native"}
  <2>1. CASE cmd.kind = "native"
    BY <1>6, <2>1 DEF Reached, Inner
  <2>2. CASE \E j \in 1 .. Len(P) : P[j] = "inner"
    BY <1>4, <2>2 DEF Done
  <2> QED
    BY <1>5, <2>1, <2>2
<1>8. ToSet(DataPlane(cmd)) \subseteq it.data
  BY <1>4, <1>5 DEF Done
<1>9. Made(who)
  BY <1>6, <1>7, <1>8 DEF Made
<1> QED
  BY <1>1, <1>9, NextTenantKeeps

\* What a step does is done, and what was done stays done.
LEMMA DoneFacts ==
  ASSUME NEW it \in Belongings, cmd \in Command, NEW j \in 1 .. Len(Plan(cmd))
  PROVE  LET after == After(it, Plan(cmd)[j]) IN
         /\ Done(cmd, after, Plan(cmd)[j])
         /\ \A i \in 1 .. j - 1 : Done(cmd, it, Plan(cmd)[i]) => Done(cmd, after, Plan(cmd)[i])
         /\ Plan(cmd)[j] \in Strategy \cup {"inner"} => after.config = it.config
<1> DEFINE s == Plan(cmd)[j]
           after == After(it, s)
<1>1. /\ after.spaces = it.spaces \cup
           IF s \in Places THEN {"host"} ELSE IF s = "inner" THEN {Inner(cmd.kind)} ELSE {}
      /\ after.config =
           IF s = "config" THEN [by |-> cmd.kind, adjusted |-> FALSE, ports |-> "default"]
           ELSE IF s \in Configures
           THEN [by |-> cmd.kind, adjusted |-> TRUE, ports |-> Mapping(cmd)]
           ELSE it.config
      /\ after.data = it.data \cup ({s} \cap Strategy)
  <2> HIDE DEF s
  <2> QED
    BY AfterFacts
<1>2. \A i \in 1 .. j - 1 : s = "config" => Plan(cmd)[i] \notin Configures
  BY PlanOrder
<1> HIDE DEF s, after
<1>3. Done(cmd, after, s)
  BY <1>1 DEF Done, Places, Configures
<1>4. ASSUME NEW i \in 1 .. j - 1, Done(cmd, it, Plan(cmd)[i])
      PROVE  Done(cmd, after, Plan(cmd)[i])
  <2> DEFINE x == Plan(cmd)[i]
  <2>1. Done(cmd, it, x) /\ (s = "config" => x \notin Configures)
    BY <1>2, <1>4
  <2> HIDE DEF x
  <2>2. x \in Configures \cup {"config"} => after.config.by = cmd.kind
    BY <1>1, <2>1 DEF Done
  <2>3. x \in Configures => after.config.adjusted /\ after.config.ports = Mapping(cmd)
    BY <1>1, <2>1 DEF Done
  <2>4. /\ x \in Places => "host" \in after.spaces
        /\ x = "inner" => Inner(cmd.kind) \in after.spaces
        /\ x \in Strategy => x \in after.data
    BY <1>1, <2>1 DEF Done
  <2>5. Done(cmd, after, x)
    BY <2>2, <2>3, <2>4 DEF Done
  <2> QED
    BY <2>5 DEF x
<1>5. s \in Strategy \cup {"inner"} => after.config = it.config
  BY <1>1 DEF Strategy, Configures
<1> QED
  BY <1>3, <1>4, <1>5 DEF s, after

\* What a tenant has, a step has made, this one at the latest.
LEMMA OwedFacts ==
  ASSUME NEW it \in Belongings, cmd \in Command, NEW j \in 1 .. Len(Plan(cmd)), Owed(cmd, j, it)
  PROVE  Owed(cmd, j + 1, After(it, Plan(cmd)[j]))
<1> DEFINE s == Plan(cmd)[j]
           after == After(it, s)
<1>1. /\ after.spaces = it.spaces \cup
           IF s \in Places THEN {"host"} ELSE IF s = "inner" THEN {Inner(cmd.kind)} ELSE {}
      /\ after.release = IF s = "release" THEN "up" ELSE it.release
      /\ (after.service <=> it.service \/ s = "service")
      /\ after.data = it.data \cup ({s} \cap Strategy)
  BY AfterFacts
<1>2. j \in Int /\ j \in 1 .. j + 1 - 1
  BY PlanFacts
<1>3. \A x : Before(cmd, j, x) \/ x = s => Before(cmd, j + 1, x)
  BY <1>2 DEF Before
<1>4. cmd.kind \in Kind /\ (Inner(cmd.kind) = "host" \/ Inner(cmd.kind) # "host")
  BY CommandFacts
<1> HIDE DEF s, after
<1>5. "host" \in after.spaces =>
        \/ \E x \in Places : Before(cmd, j + 1, x)
        \/ Inner(cmd.kind) = "host" /\ Before(cmd, j + 1, "inner")
  BY <1>1, <1>3 DEF Owed
<1>6. Inner(cmd.kind) \in after.spaces /\ Inner(cmd.kind) # "host" => Before(cmd, j + 1, "inner")
  BY <1>1, <1>3 DEF Owed
<1>7. after.service => Before(cmd, j + 1, "service")
  BY <1>1, <1>3 DEF Owed
<1>8. \A x \in after.data : Before(cmd, j + 1, x)
  BY <1>1, <1>3 DEF Owed
<1>9. after.release # "pending"
  BY <1>1 DEF Owed
<1> QED
  BY <1>5, <1>6, <1>7, <1>8, <1>9 DEF Owed, s, after

\* Where a tenant's making stands.
LEMMA BuildFacts ==
  ASSUME IInv, pc = "build", step <= Len(Plan(cmd))
  PROVE  /\ step \in 1 .. Len(Plan(cmd)) /\ step \in Nat /\ Len(Plan(cmd)) \in Nat
         /\ current = Plan(cmd)[step]
         /\ tenant[who] \in Belongings /\ who \in Tenant
         /\ cluster.by # "nobody" /\ network.settled
         /\ current = "declare" => webhooks
<1>1. /\ ControlOK /\ WorldOK /\ ClustersKept /\ Waited /\ cmd \in Command
  BY RunningFacts
<1>2. Len(Plan(cmd)) \in Nat
  BY <1>1, PlanFacts
<1>3. step \in Nat \ {0} /\ who \in Tenant /\ tenant[who] \in Belongings
  BY <1>1 DEF ControlOK, WorldOK
<1>4. step \in 1 .. Len(Plan(cmd)) /\ current = Plan(cmd)[step]
  BY <1>2, <1>3 DEF current
<1>5. cluster.by # "nobody" /\ network.settled
  BY <1>1 DEF ClustersKept, Waited, OnNodes, Networked, OnCluster
<1>6. current = "declare" => \E i \in 1 .. step - 1 : Plan(cmd)[i] = "webhooks"
  BY <1>1, <1>4, PlanOrder
<1>7. current = "declare" => webhooks
  BY <1>1, <1>6 DEF Waited, Building
<1> QED
  BY <1>2, <1>3, <1>4, <1>5, <1>7

LEMMA TakeStepKeeps ==
  ASSUME IInv, TakeStep
  PROVE  IInv'
<1> DEFINE P == Plan(cmd)
           it == tenant[who]
<1>1. /\ pc = "build" /\ step <= Len(P) /\ ~Obstacle(who, current) /\ Awaited(who, current)
      /\ Build(who, current) /\ step' = step + 1
      /\ UNCHANGED <<campaign, pc, who, found, outcome, troubled, mishaps>>
  BY DEF TakeStep
<1>2. /\ ControlOK /\ WorldInv /\ WorldOK
      /\ ClustersKept /\ Waited /\ RuntimeSoFar /\ MadeSoFar /\ FreshSoFar
      /\ campaign # <<>> /\ cmd \in Command
  BY <1>1, RunningFacts
<1>3. /\ step \in 1 .. Len(P) /\ step \in Nat /\ Len(P) \in Nat
      /\ current = P[step] /\ it \in Belongings /\ who \in Tenant
      /\ cluster.by # "nobody" /\ network.settled
      /\ current = "declare" => webhooks
  BY <1>1, BuildFacts
<1>4. /\ WorldInv'
      /\ tenant'[who] = After(it, current)
      /\ \A u \in Tenant \ {who} : tenant'[u] = tenant[u]
      /\ \A r \in DOMAIN releases : releases'[r] \in {releases[r], "up"}
  BY <1>1, <1>2, <1>3, BuildKeeps
<1>5. /\ UNCHANGED <<cluster, network, webhooks, cache, node, torn>>
      /\ DOMAIN releases' = DOMAIN releases
  BY <1>1, <1>2 DEF Build, runtimes, WorldOK
<1>6. /\ cmd' = cmd /\ sandbox' = sandbox /\ (RuntimeRefused' <=> RuntimeRefused)
      /\ (Sandboxed' <=> Sandboxed) /\ (Unspoilt' <=> Unspoilt)
  BY <1>1, <1>5, CommandKept, SandboxedKept DEF Unspoilt
<1>7. \A i \in 1 .. step' - 1 : i \in 1 .. step - 1 \/ i = step
  BY <1>1, <1>3
<1>8. ControlOK'
  <2>1. step' \in Nat \ {0}
    BY <1>1, <1>3
  <2> QED
    BY <1>1, <1>2, <2>1 DEF ControlOK
<1>9. ClustersKept'
  BY <1>1, <1>2, <1>5, <1>6 DEF ClustersKept, OnCluster
<1>10. Waited'
  <2>1. current = "webhooks" => webhooks
    BY <1>1 DEF Awaited
  <2>2. \A i \in 1 .. step - 1 : P[i] = "webhooks" => webhooks
    BY <1>1, <1>2 DEF Waited, Building
  <2>3. \A i \in 1 .. step' - 1 : Plan(cmd')[i] = "webhooks" => webhooks'
    BY <1>3, <1>5, <1>6, <1>7, <2>1, <2>2
  <2> QED
    BY <1>3, <1>5, <2>3 DEF Waited
<1>11. RuntimeSoFar'
  BY <1>1, <1>2, <1>6 DEF RuntimeSoFar, OnTenant
<1>12. \A i \in 1 .. step' - 1 :
         /\ Done(cmd, tenant'[who], P[i])
         /\ P[i] = "inner" => Reached(who)'
  <2> SUFFICES ASSUME NEW i \in 1 .. step' - 1
               PROVE  Done(cmd, tenant'[who], P[i]) /\ (P[i] = "inner" => Reached(who)')
    OBVIOUS
  <2>1. /\ Done(cmd, tenant'[who], P[step])
        /\ \A k \in 1 .. step - 1 : Done(cmd, it, P[k]) => Done(cmd, tenant'[who], P[k])
        /\ P[step] \in Strategy \cup {"inner"} => tenant'[who].config = it.config
    BY <1>2, <1>3, <1>4, DoneFacts
  <2>2. \A k \in 1 .. step - 1 : Done(cmd, it, P[k]) /\ (P[k] = "inner" => Reached(who))
    BY <1>1, <1>2 DEF MadeSoFar, Building
  <2>3. P[i] = "inner" => Reached(who) /\ P[step] \in Strategy \cup {"inner"}
    <3>1. CASE i = step
      BY <1>1, <1>3, <3>1 DEF Obstacle
    <3>2. CASE i \in 1 .. step - 1
      BY <1>2, <1>3, <2>2, <3>2, PlanOrder
    <3> QED
      BY <1>7, <3>1, <3>2
  <2>4. P[i] = "inner" => Reached(who)'
    BY <1>1, <1>5, <2>1, <2>3 DEF Reached
  <2>5. Done(cmd, tenant'[who], P[i])
    BY <1>7, <2>1, <2>2
  <2> QED
    BY <2>4, <2>5
<1>13. MadeSoFar'
  <2>1. who = "tenant2" => "tenant1" \in found \/ Made("tenant1")
    BY <1>1, <1>2 DEF MadeSoFar
  <2>2. who = "tenant2" => (Made("tenant1")' <=> Made("tenant1"))
    <3>1. who = "tenant2" => tenant'["tenant1"] = tenant["tenant1"]
      BY <1>4 DEF Tenant
    <3> QED
      BY <1>1, <1>5, <3>1, MadeKept
  <2>3. Cni(cmd) \in network.applied
    BY <1>1, <1>2 DEF MadeSoFar, Networked, OnCluster
  <2>4. step' <= Len(P) + 1
    BY <1>1, <1>3
  <2>5. pc' = "build" /\ who' = who /\ found' = found /\ network' = network
    BY <1>1, <1>5
  <2> QED
    BY <1>6, <1>12, <2>1, <2>2, <2>3, <2>4, <2>5
    DEF MadeSoFar, OnCluster, Networked, OnTenant, Building
<1>14. FreshSoFar'
  <2> SUFFICES ASSUME Unspoilt
               PROVE  /\ cluster.ports = cmd.ports
                      /\ \A r \in DOMAIN releases' : releases'[r] \in {"none", "up"}
                      /\ who = "tenant1" => tenant'["tenant2"] = Blank
                      /\ Owed(cmd, step', tenant'[who])
    BY <1>1, <1>5, <1>6 DEF FreshSoFar, OnTenant, Building
  <2>1. /\ cluster.ports = cmd.ports
        /\ \A r \in DOMAIN releases : releases[r] \in {"none", "up"}
        /\ who = "tenant1" => tenant["tenant2"] = Blank
        /\ Owed(cmd, step, it)
    BY <1>1, <1>2 DEF FreshSoFar, OnCluster, OnTenant, Building
  <2>2. Owed(cmd, step', tenant'[who])
    BY <1>1, <1>2, <1>3, <1>4, <2>1, OwedFacts
  <2>3. who = "tenant1" => tenant'["tenant2"] = tenant["tenant2"]
    BY <1>4 DEF Tenant
  <2> QED
    BY <1>4, <1>5, <2>1, <2>2, <2>3
<1> QED
  BY <1>4, <1>8, <1>9, <1>10, <1>11, <1>13, <1>14, Parts DEF Course

\* A tenant's making begins.
LEMMA BeginKeeps ==
  ASSUME IInv, pc = "look", pc' = "build", UNCHANGED <<campaign, who, step, found, outcome, world>>,
         troubled' \in BOOLEAN, troubled => troubled', mishaps' \in 0 .. Mishaps
  PROVE  IInv'
<1>1. /\ ControlOK /\ WorldInv
      /\ ClustersKept /\ Waited /\ RuntimeSoFar /\ MadeSoFar /\ FreshSoFar /\ cmd \in Command
      /\ campaign # <<>>
  BY RunningFacts
<1>2. UNCHANGED <<cluster, network, releases, webhooks, cache, node, torn, tenant>> /\ WorldInv'
  BY <1>1, WorldKept DEF world, hostwide, runtimes
<1>3. /\ cmd' = cmd /\ (Sandboxed' <=> Sandboxed) /\ (Unspoilt' => Unspoilt)
      /\ \A t : Made(t)' <=> Made(t)
  BY <1>2, CommandKept, SandboxedKept, MadeKept DEF Unspoilt
<1>4. step = 1 /\ step' = 1
  BY <1>1 DEF MadeSoFar, Building
<1>5. ControlOK'
  BY <1>1 DEF ControlOK
<1>6. ClustersKept'
  BY <1>1, <1>2, <1>3 DEF ClustersKept, OnCluster
<1>7. Waited'
  BY <1>1, <1>2, <1>4 DEF Waited, OnCluster, Networked, OnNodes, Building
<1>8. RuntimeSoFar'
  BY <1>1, <1>3 DEF RuntimeSoFar, OnTenant
<1>9. MadeSoFar'
  <2>1. Cni(cmd) \in network.applied
    BY <1>1 DEF MadeSoFar, OnCluster, Networked
  <2>2. who = "tenant2" => "tenant1" \in found \/ Made("tenant1")
    BY <1>1 DEF MadeSoFar
  <2>3. 1 <= Len(Plan(cmd)) + 1
    BY <1>1, PlanFacts
  <2> QED
    BY <1>2, <1>3, <1>4, <2>1, <2>2, <2>3 DEF MadeSoFar, OnCluster, Networked, OnTenant, Building
<1>10. FreshSoFar'
  <2> SUFFICES ASSUME Unspoilt
               PROVE  /\ cluster.ports = cmd.ports
                      /\ \A r \in DOMAIN releases : releases[r] \in {"none", "up"}
                      /\ who = "tenant1" => tenant["tenant2"] = Blank
                      /\ Owed(cmd, 1, tenant[who])
    BY <1>2, <1>3, <1>4 DEF FreshSoFar, OnTenant, Building
  <2>1. /\ cluster.ports = cmd.ports
        /\ \A r \in DOMAIN releases : releases[r] \in {"none", "up"}
        /\ who = "tenant1" => tenant["tenant2"] = Blank
        /\ tenant[who] = Blank
    BY <1>1 DEF FreshSoFar, OnCluster, OnTenant
  <2>2. Owed(cmd, 1, Blank)
    BY BlankFacts DEF Owed
  <2> QED
    BY <2>1, <2>2
<1> QED
  BY <1>2, <1>5, <1>6, <1>7, <1>8, <1>9, <1>10, Parts DEF Course

LEMMA MakeTenantKeeps ==
  ASSUME IInv, MakeTenant
  PROVE  IInv'
<1>1. pc = "look" /\ GoTo("build") /\ UNCHANGED world
  BY DEF MakeTenant
<1>2. ControlOK
  BY <1>1, RunningFacts
<1>3. /\ pc' = "build" /\ UNCHANGED <<campaign, who, step, found, outcome, world>>
      /\ troubled' = troubled /\ mishaps' = mishaps
  BY <1>1 DEF GoTo
<1>4. troubled' \in BOOLEAN /\ mishaps' \in 0 .. Mishaps
  BY <1>2, <1>3 DEF ControlOK
<1> QED
  BY <1>1, <1>3, <1>4, BeginKeeps

LEMMA MissTenantKeeps ==
  ASSUME IInv, MissTenant
  PROVE  IInv'
<1>1. /\ pc = "look" /\ pc' = "build" /\ UNCHANGED <<campaign, who, step, found, outcome, world>>
      /\ mishaps < Mishaps /\ mishaps' = mishaps + 1 /\ troubled' = TRUE
  BY DEF MissTenant, Mishap
<1>2. mishaps \in 0 .. Mishaps
  BY <1>1, RunningFacts DEF ControlOK
<1>3. mishaps' \in 0 .. Mishaps
  BY <1>1, <1>2, MishapsAssumption
<1> QED
  BY <1>1, <1>3, BeginKeeps

\* The pod of a virtual cluster is looked for.
LEMMA PodStepKeeps ==
  ASSUME IInv, Building, step <= Len(Plan(cmd)), current = "pod",
         UNCHANGED <<campaign, who, found, outcome, troubled, mishaps, world>>,
         \/ pc' = "build" /\ step' = step + 1
         \/ pc' = "poll" /\ step' = step
         \/ pc' = "build" /\ step' = step
  PROVE  IInv'
<1> DEFINE P == Plan(cmd)
           it == tenant[who]
<1>1. pc \in {"build", "poll"} /\ pc # "idle" /\ pc' \in {"build", "poll"}
  BY DEF Building
<1>2. /\ ControlOK /\ WorldInv
      /\ ClustersKept /\ Waited /\ RuntimeSoFar /\ MadeSoFar /\ FreshSoFar /\ cmd \in Command
      /\ campaign # <<>>
  BY <1>1, RunningFacts
<1>3. UNCHANGED <<cluster, network, releases, webhooks, cache, node, torn, tenant>> /\ WorldInv'
  BY <1>2, WorldKept DEF world, hostwide, runtimes
<1>4. /\ cmd' = cmd /\ (Sandboxed' <=> Sandboxed) /\ (Unspoilt' <=> Unspoilt)
      /\ \A t : Made(t)' <=> Made(t)
      /\ \A t : Reached(t)' <=> Reached(t)
  BY <1>3, CommandKept, SandboxedKept, MadeKept DEF Unspoilt
<1>5. /\ step \in Nat \ {0} /\ Len(P) \in Nat /\ step \in 1 .. Len(P) /\ P[step] = "pod"
  BY <1>2, PlanFacts DEF ControlOK, current
<1>6. /\ \A i \in 1 .. step' - 1 : i \in 1 .. step - 1 \/ i = step
      /\ \A i \in 1 .. step - 1 : i \in 1 .. step' - 1
      /\ step' \in Nat \ {0} /\ step' <= Len(P) + 1 /\ (pc' = "poll" => step' = step)
  BY <1>5
<1>7. ControlOK'
  BY <1>1, <1>2, <1>6 DEF ControlOK
<1>8. ClustersKept'
  BY <1>1, <1>2, <1>3, <1>4 DEF ClustersKept, OnCluster
<1>9. Waited'
  <2>1. network.settled /\ \A i \in 1 .. step - 1 : P[i] = "webhooks" => webhooks
    BY <1>1, <1>2 DEF Waited, OnNodes, Networked, OnCluster, Building
  <2>2. \A i \in 1 .. step' - 1 : P[i] = "webhooks" => webhooks
    BY <1>5, <1>6, <2>1
  <2> QED
    BY <1>3, <1>4, <2>1, <2>2 DEF Waited
<1>10. RuntimeSoFar'
  BY <1>1, <1>2, <1>4 DEF RuntimeSoFar, OnTenant
<1>11. MadeSoFar'
  <2>1. /\ Cni(cmd) \in network.applied
        /\ who = "tenant2" => "tenant1" \in found \/ Made("tenant1")
        /\ \A i \in 1 .. step - 1 : Done(cmd, it, P[i]) /\ (P[i] = "inner" => Reached(who))
    BY <1>1, <1>2 DEF MadeSoFar, OnCluster, Networked, Building
  <2>2. Done(cmd, it, P[step]) /\ P[step] # "inner"
    BY <1>5 DEF Done, Configures, Places, Strategy
  <2>3. \A i \in 1 .. step' - 1 : Done(cmd, it, P[i]) /\ (P[i] = "inner" => Reached(who))
    BY <1>6, <2>1, <2>2
  <2>4. pc' = "poll" => step' <= Len(P) /\ P[step'] = "pod"
    BY <1>5, <1>6
  <2>5. pc' = "poll" => current' = "pod"
    BY <1>4, <2>4 DEF current
  <2> QED
    BY <1>1, <1>3, <1>4, <1>6, <2>1, <2>3, <2>4, <2>5
    DEF MadeSoFar, OnCluster, Networked, OnTenant, Building
<1>12. FreshSoFar'
  <2> SUFFICES ASSUME Unspoilt
               PROVE  /\ cluster.ports = cmd.ports
                      /\ \A r \in DOMAIN releases : releases[r] \in {"none", "up"}
                      /\ who = "tenant1" => tenant["tenant2"] = Blank
                      /\ Owed(cmd, step', it)
    BY <1>1, <1>3, <1>4 DEF FreshSoFar, OnTenant, Building
  <2>1. /\ cluster.ports = cmd.ports
        /\ \A r \in DOMAIN releases : releases[r] \in {"none", "up"}
        /\ who = "tenant1" => tenant["tenant2"] = Blank
        /\ Owed(cmd, step, it)
    BY <1>1, <1>2 DEF FreshSoFar, OnCluster, OnTenant, Building
  <2>2. \A s : Before(cmd, step, s) => Before(cmd, step', s)
    BY <1>6 DEF Before
  <2>3. Owed(cmd, step', it)
    BY <2>1, <2>2 DEF Owed
  <2> QED
    BY <2>1, <2>3
<1> QED
  BY <1>3, <1>7, <1>8, <1>9, <1>10, <1>11, <1>12, Parts DEF Course

LEMMA FindPodKeeps ==
  ASSUME IInv, FindPod
  PROVE  IInv'
BY PodStepKeeps DEF FindPod, Building

LEMMA PollPodKeeps ==
  ASSUME IInv, PollPod
  PROVE  IInv'
<1>1. pc = "poll"
  BY DEF PollPod
<1>2. step <= Len(Plan(cmd)) /\ current = "pod"
  BY <1>1, RunningFacts DEF MadeSoFar, Building
<1> QED
  BY <1>1, <1>2, PodStepKeeps DEF PollPod, Building

-----------------------------------------------------------------------------
(***************************************************************************)
(* The ends of a command.                                                  *)
(***************************************************************************)
LEMMA CompleteKeeps ==
  ASSUME IInv, Complete
  PROVE  IInv'
<1>1. pc = "ready" /\ End("complete") /\ UNCHANGED <<troubled, mishaps, world>>
  BY DEF Complete
<1>2. ControlOK /\ WorldInv /\ campaign # <<>>
  BY <1>1, RunningFacts
<1>3. WorldInv' /\ cluster' = cluster
  BY <1>1, <1>2, WorldKept DEF world, hostwide
<1>4. troubled' \in BOOLEAN /\ mishaps' \in 0 .. Mishaps
  BY <1>1, <1>2 DEF ControlOK
<1> QED
  BY <1>1, <1>2, <1>3, <1>4, EndKeeps

LEMMA FailKeeps ==
  ASSUME IInv, Fail
  PROVE  IInv'
<1>1. pc # "idle" /\ End("failed") /\ UNCHANGED <<troubled, mishaps, world>>
  BY DEF Fail
<1>2. ControlOK /\ WorldInv /\ campaign # <<>>
  BY <1>1, RunningFacts
<1>3. WorldInv' /\ cluster' = cluster
  BY <1>1, <1>2, WorldKept DEF world, hostwide
<1>4. troubled' \in BOOLEAN /\ mishaps' \in 0 .. Mishaps
  BY <1>1, <1>2 DEF ControlOK
<1> QED
  BY <1>1, <1>2, <1>3, <1>4, EndKeeps

LEMMA SandboxKnown ==
  ASSUME IInv, pc \in {"download", "unpack", "copy", "publish"}
  PROVE  sandbox \in Runtime
<1>1. RuntimeSoFar /\ cmd \in Command
  BY RunningFacts
<1> QED
  BY <1>1, SandboxFacts, CommandFacts DEF RuntimeSoFar

LEMMA FailUnpackingKeeps ==
  ASSUME IInv, FailUnpacking
  PROVE  IInv'
<1>1. pc = "unpack" /\ End("failed") /\ UNCHANGED <<troubled, mishaps, node, hostwide, tenant>>
      /\ torn' = torn \cup {sandbox}
  BY DEF FailUnpacking
<1>2. PICK left \in {"none", "part"} : cache' = [cache EXCEPT ![sandbox].tree = left]
  BY DEF FailUnpacking
<1>3. ControlOK /\ WorldInv /\ campaign # <<>>
  BY <1>1, RunningFacts
<1>4. sandbox \in Runtime /\ left \in File /\ sandbox \in torn'
  BY <1>1, SandboxKnown DEF File
<1>5. WorldInv'
  BY <1>1, <1>2, <1>3, <1>4, CutKeeps
<1>6. troubled' \in BOOLEAN /\ mishaps' \in 0 .. Mishaps /\ cluster' = cluster
  BY <1>1, <1>3 DEF ControlOK, hostwide
<1> QED
  BY <1>1, <1>3, <1>5, <1>6, EndKeeps

\* What a request that was cut short may have done.
LEMMA EffectKeeps ==
  ASSUME IInv, Effect
  PROVE  WorldInv' /\ (cluster'.by = "other" => cluster.by = "other")
<1>1. pc # "idle"
  BY DEF Effect
<1>2. /\ WorldInv /\ WorldOK /\ ClustersKept /\ cmd \in Command
  BY <1>1, RunningFacts
<1>3. CASE pc = "cluster" /\ ~ClusterRefused /\ MakeCluster
  BY <1>2, <1>3, MakeClusterKeeps
<1>4. CASE pc = "cni" /\ ~CniRefused /\ ApplyCni
  <2>1. /\ network' = [network EXCEPT !.applied = @ \cup {Cni(cmd)}]
        /\ releases' = IF Cni(cmd) = "kubeovn"
                       THEN [releases EXCEPT !["kubeovn"] = "up"] ELSE releases
        /\ UNCHANGED <<cluster, webhooks, runtimes, tenant>>
    BY <1>4 DEF ApplyCni
  <2>2. cluster.by # "nobody" /\ "up" \in Release
    BY <1>2, <1>4 DEF ClustersKept, OnCluster, Release
  <2>3. \/ releases' = releases
        \/ \E r \in Release : releases' = [releases EXCEPT !["kubeovn"] = r]
    BY <2>1, <2>2
  <2> QED
    BY <1>2, <2>1, <2>2, <2>3, ApplyCniKeeps
<1>5. CASE pc = "copy" /\ Copy
  <2>1. sandbox \in Runtime /\ cluster' = cluster
    BY <1>5, SandboxKnown DEF Copy, hostwide
  <2> QED
    BY <1>2, <1>5, <2>1, CopyKeeps
<1>6. CASE pc = "publish" /\ Publish
  <2>1. sandbox \in Runtime /\ cluster' = cluster
    BY <1>6, SandboxKnown DEF Publish, hostwide
  <2> QED
    BY <1>2, <1>6, <2>1, PublishKeeps
<1>7. CASE /\ pc = "build" /\ step <= Len(Plan(cmd)) /\ current # "pod"
           /\ ~Obstacle(who, current) /\ Awaited(who, current)
           /\ Build(who, current)
  <2>1. /\ who \in Tenant /\ cluster.by # "nobody" /\ network.settled
        /\ current = "declare" => webhooks
    BY <1>7, BuildFacts
  <2>2. WorldInv'
    BY <1>2, <1>7, <2>1, BuildKeeps
  <2> QED
    BY <1>7, <2>2 DEF Build
<1> QED
  BY <1>3, <1>4, <1>5, <1>6, <1>7 DEF Effect

LEMMA InterruptKeeps ==
  ASSUME IInv, Interrupt
  PROVE  IInv'
<1>1. PICK how \in {"failed", "killed"} :
         /\ End(how)
         /\ UNCHANGED world \/ Effect \/ HalfDownload(how) \/ HalfUnpack \/ HalfRelease(how)
  BY DEF Interrupt
<1>2. pc # "idle" /\ mishaps < Mishaps /\ mishaps' = mishaps + 1 /\ troubled' = TRUE
  BY DEF Interrupt, Mishap
<1>3. ControlOK /\ WorldInv /\ WorldOK /\ ClustersKept /\ Waited /\ cmd \in Command /\ campaign # <<>>
  BY <1>2, RunningFacts
<1>4. troubled' \in BOOLEAN
  BY <1>2
<1>5. mishaps' \in 0 .. Mishaps
  BY <1>2, <1>3, MishapsAssumption DEF ControlOK
<1>6. WorldInv' /\ (cluster'.by = "other" => cluster.by = "other")
  <2>1. CASE UNCHANGED world
    BY <1>3, <2>1, WorldKept DEF world, hostwide
  <2>2. CASE Effect
    BY <2>2, EffectKeeps
  <2>3. CASE HalfDownload(how)
    <3>1. sandbox \in Runtime /\ cluster' = cluster
      BY <2>3, SandboxKnown DEF HalfDownload, hostwide
    <3> QED
      BY <1>1, <1>3, <2>3, <3>1, HalfDownloadKeeps
  <2>4. CASE HalfUnpack
    <3>1. sandbox \in Runtime /\ cluster' = cluster
      BY <2>4, SandboxKnown DEF HalfUnpack, hostwide
    <3> QED
      BY <1>3, <2>4, <3>1, HalfUnpackKeeps
  <2>5. CASE HalfRelease(how)
    <3>1. pc \in {"cni", "build"} /\ cluster' = cluster
      BY <2>5 DEF HalfRelease, hostwide
    <3>2. cluster.by # "nobody" /\ (pc = "build" => network.settled) /\ who \in Tenant
      BY <1>3, <3>1 DEF ClustersKept, Waited, OnCluster, Networked, OnNodes, ControlOK
    <3> QED
      BY <1>1, <1>3, <2>5, <3>1, <3>2, HalfReleaseKeeps
  <2> QED
    BY <1>1, <2>1, <2>2, <2>3, <2>4, <2>5
<1> QED
  BY <1>1, <1>3, <1>4, <1>5, <1>6, EndKeeps

-----------------------------------------------------------------------------
(***************************************************************************)
(* The cluster's own components.                                           *)
(***************************************************************************)
\* They put nothing into a tenant that the command relies on, and take nothing.
LEMMA EnvironmentKeeps ==
  ASSUME IInv, WorldInv', UNCHANGED <<control, cluster, releases, cache, node, torn>>,
         network'.applied = network.applied, network.settled => network'.settled,
         webhooks => webhooks',
         \A t \in Tenant :
           /\ tenant'[t].spaces = tenant[t].spaces /\ tenant'[t].release = tenant[t].release
           /\ tenant'[t].config = tenant[t].config /\ tenant'[t].data = tenant[t].data
           /\ tenant'[t].service <=> tenant[t].service
           /\ tenant[t] = Blank => tenant'[t] = Blank
  PROVE  IInv'
<1>1. /\ ControlOK /\ ClustersKept /\ UNCHANGED <<campaign, pc, who, step, found, outcome, troubled, mishaps>>
  BY Parts DEF Course, control
<1>2. ControlOK'
  BY <1>1 DEF ControlOK
<1>3. cmd' = cmd /\ sandbox' = sandbox /\ (RuntimeRefused' <=> RuntimeRefused)
  BY <1>1, CommandKept
<1>4. /\ Sandboxed' <=> Sandboxed
      /\ Unspoilt' <=> Unspoilt
  BY <1>1, <1>3, SandboxedKept DEF Unspoilt
<1>5. ClustersKept'
  BY <1>1, <1>3 DEF ClustersKept, OnCluster
<1>6. CASE pc = "idle"
  <2>1. Waited' /\ RuntimeSoFar' /\ MadeSoFar' /\ FreshSoFar'
    BY <1>1, <1>6
    DEF Waited, RuntimeSoFar, MadeSoFar, FreshSoFar, OnCluster, Networked, OnNodes, OnTenant, Building
  <2> QED
    BY <1>2, <1>5, <2>1, Parts DEF Course
<1>7. CASE pc # "idle"
  <2>1. /\ Waited /\ RuntimeSoFar /\ MadeSoFar /\ FreshSoFar /\ who \in Tenant
        /\ "tenant1" \in Tenant /\ "tenant2" \in Tenant
    BY <1>7, RunningFacts DEF ControlOK, Tenant
  <2>2. \A t \in Tenant : (Reached(t)' <=> Reached(t)) /\ (Made(t)' <=> Made(t))
    BY <1>1, MadeKept
  <2>3. Waited'
    BY <1>1, <1>3, <2>1 DEF Waited, OnNodes, Networked, OnCluster, Building
  <2>4. RuntimeSoFar'
    BY <1>1, <1>3, <1>4, <2>1 DEF RuntimeSoFar, OnTenant
  <2>5. MadeSoFar'
    <3>1. \A s : Done(cmd, tenant[who], s) => Done(cmd, tenant'[who], s)
      BY <2>1 DEF Done
    <3>2. current' = current
      BY <1>1, <1>3 DEF current
    <3>3. Networked' => Cni(cmd) \in network'.applied
      BY <1>1, <2>1 DEF MadeSoFar, Networked, OnCluster
    <3>4. Building' =>
            /\ step <= Len(Plan(cmd)) + 1
            /\ pc = "poll" => step <= Len(Plan(cmd)) /\ current = "pod"
            /\ \A i \in 1 .. step - 1 :
                 /\ Done(cmd, tenant'[who], Plan(cmd)[i])
                 /\ Plan(cmd)[i] = "inner" => Reached(who)'
      BY <1>1, <2>1, <2>2, <3>1 DEF MadeSoFar, Building
    <3>5. pc # "idle" /\ ~Building' => step = 1
      BY <1>1, <2>1 DEF MadeSoFar, Building
    <3>6. who = "tenant2" /\ pc # "idle" => OnTenant' /\ ("tenant1" \in found \/ Made("tenant1")')
      BY <1>1, <2>1, <2>2 DEF MadeSoFar, OnTenant
    <3>7. pc = "ready" => who = "tenant2" /\ ("tenant2" \in found \/ Made("tenant2")')
      BY <1>1, <2>1, <2>2 DEF MadeSoFar
    <3> QED
      BY <1>1, <1>3, <3>2, <3>3, <3>4, <3>5, <3>6, <3>7 DEF MadeSoFar
  <2>6. FreshSoFar'
    <3>1. \A n : Owed(cmd, n, tenant[who]) => Owed(cmd, n, tenant'[who])
      BY <2>1 DEF Owed
    <3> QED
      BY <1>1, <1>3, <1>4, <2>1, <3>1 DEF FreshSoFar, OnCluster, OnTenant, Building
  <2> QED
    BY <1>2, <1>5, <2>3, <2>4, <2>5, <2>6, Parts DEF Course
<1> QED
  BY <1>6, <1>7

LEMMA NodesSettleKeeps ==
  ASSUME IInv, NodesSettle
  PROVE  IInv'
<1>1. WorldInv /\ network.applied # {}
  BY Parts DEF NodesSettle
<1>2. /\ UNCHANGED <<control, cluster, releases, webhooks, cache, node, torn, tenant>>
      /\ network' = [network EXCEPT !.settled = TRUE]
  BY DEF NodesSettle, runtimes
<1>3. /\ network' \in [applied : SUBSET {"calico", "kubeovn", "other"}, settled : BOOLEAN]
      /\ network'.applied = network.applied /\ network'.settled
  BY <1>1, <1>2 DEF WorldInv, WorldOK
<1>4. WorldOK' /\ TenantsAreGuarded' /\ PartsAreTorn'
  BY <1>1, <1>2, <1>3 DEF WorldInv, WorldOK, TenantsAreGuarded, PartsAreTorn
<1>5. Emptied'
  BY <1>1, <1>2, <1>3 DEF WorldInv, Emptied
<1> QED
  BY <1>2, <1>3, <1>4, <1>5, EnvironmentKeeps DEF WorldInv

LEMMA WebhooksRegisterKeeps ==
  ASSUME IInv, WebhooksRegister
  PROVE  IInv'
<1>1. WorldInv /\ releases["capsule"] # "none" /\ network.settled
  BY Parts DEF WebhooksRegister
<1>2. /\ UNCHANGED <<control, cluster, network, releases, cache, node, torn, tenant>>
      /\ webhooks' = TRUE
  BY DEF WebhooksRegister, runtimes
<1>3. webhooks' \in BOOLEAN
  BY <1>2
<1>4. WorldOK' /\ TenantsAreGuarded' /\ PartsAreTorn'
  BY <1>1, <1>2, <1>3 DEF WorldInv, WorldOK, TenantsAreGuarded, PartsAreTorn
<1>5. Emptied'
  BY <1>1, <1>2 DEF WorldInv, WorldOK, Emptied
<1> QED
  BY <1>2, <1>4, <1>5, EnvironmentKeeps DEF WorldInv

LEMMA PodStartsKeeps ==
  ASSUME IInv, NEW t \in Tenant, PodStarts(t)
  PROVE  IInv'
<1>1. WorldInv /\ WorldOK /\ tenant[t].release # "none"
  BY Parts DEF PodStarts, WorldInv
<1>2. /\ UNCHANGED <<control, cluster, network, releases, webhooks, cache, node, torn>>
      /\ tenant' = [tenant EXCEPT ![t].pod = IF @ = "none" THEN "starting" ELSE "running"]
  BY DEF PodStarts, hostwide, runtimes
<1>3. tenant \in [Tenant -> Belongings] /\ tenant[t] \in Belongings
  BY <1>1 DEF WorldOK
<1>4. PICK place \in {"starting", "running"} : tenant' = [tenant EXCEPT ![t].pod = place]
  BY <1>2, <1>3
<1>5. /\ tenant' \in [Tenant -> Belongings]
      /\ \A u \in Tenant \ {t} : tenant'[u] = tenant[u]
      /\ tenant'[t] = [tenant[t] EXCEPT !.pod = place]
  BY <1>3, <1>4 DEF Belongings
<1>6. \A u \in Tenant :
        /\ tenant'[u].spaces = tenant[u].spaces /\ tenant'[u].release = tenant[u].release
        /\ tenant'[u].config = tenant[u].config /\ tenant'[u].data = tenant[u].data
        /\ tenant'[u].service <=> tenant[u].service
        /\ tenant'[u].declared <=> tenant[u].declared
  BY <1>3, <1>5 DEF Belongings
<1>7. tenant[t] # Blank
  BY <1>1, BlankFacts
<1>8. WorldOK' /\ PartsAreTorn'
  BY <1>1, <1>2, <1>5 DEF WorldInv, WorldOK, PartsAreTorn
<1>9. TenantsAreGuarded'
  BY <1>1, <1>2, <1>5, <1>6, <1>7 DEF WorldInv, TenantsAreGuarded
<1>10. Emptied'
  BY <1>1, <1>2, <1>5, <1>7 DEF WorldInv, Emptied
<1> QED
  BY <1>2, <1>5, <1>6, <1>7, <1>8, <1>9, <1>10, EnvironmentKeeps DEF WorldInv

LEMMA StutterKeeps ==
  ASSUME IInv, UNCHANGED vars
  PROVE  IInv'
<1>1. /\ UNCHANGED <<control, cluster, network, releases, webhooks, cache, node, torn, tenant>>
      /\ WorldInv' 
  BY Parts, WorldKept DEF vars, world, hostwide, runtimes
<1> QED
  BY <1>1, EnvironmentKeeps

-----------------------------------------------------------------------------
(***************************************************************************)
(* The invariant, and what it gives.                                       *)
(***************************************************************************)
LEMMA NextKeeps ==
  IInv /\ [Next]_vars => IInv'
<1> SUFFICES ASSUME IInv, [Next]_vars
             PROVE  IInv'
  OBVIOUS
<1>1. CASE Start
  BY <1>1, StartKeeps
<1>2. CASE EnsureCluster
  BY <1>2, EnsureClusterKeeps
<1>3. CASE InstallCni
  BY <1>3, InstallCniKeeps
<1>4. CASE WaitForNodes
  BY <1>4, WaitForNodesKeeps
<1>5. CASE InstallRuntime
  BY <1>5, InstallRuntimeKeeps
<1>6. CASE TakeTenant
  BY <1>6, TakeTenantKeeps
<1>7. CASE MakeTenant
  BY <1>7, MakeTenantKeeps
<1>8. CASE TakeStep
  BY <1>8, TakeStepKeeps
<1>9. CASE FinishTenant
  BY <1>9, FinishTenantKeeps
<1>10. CASE FindPod
  BY <1>10, FindPodKeeps
<1>11. CASE PollPod
  BY <1>11, PollPodKeeps
<1>12. CASE Complete
  BY <1>12, CompleteKeeps
<1>13. CASE Fail
  BY <1>13, FailKeeps
<1>14. CASE FailUnpacking
  BY <1>14, FailUnpackingKeeps
<1>15. CASE Interrupt
  BY <1>15, InterruptKeeps
<1>16. CASE MissTenant
  BY <1>16, MissTenantKeeps
<1>17. CASE NodesSettle
  BY <1>17, NodesSettleKeeps
<1>18. CASE WebhooksRegister
  BY <1>18, WebhooksRegisterKeeps
<1>19. CASE \E t \in Tenant : PodStarts(t)
  BY <1>19, PodStartsKeeps
<1>20. CASE Over \/ UNCHANGED vars
  BY <1>20, StutterKeeps DEF Over
<1> QED
  BY <1>1, <1>2, <1>3, <1>4, <1>5, <1>6, <1>7, <1>8, <1>9, <1>10, <1>11, <1>12, <1>13, <1>14,
     <1>15, <1>16, <1>17, <1>18, <1>19, <1>20 DEF Next

\* The inductive invariant: what there is agrees with where the command is, on
\* every cluster an earlier command may have left.
THEOREM Invariant ==
  Spec => []IInv
<1>1. Init => IInv
  BY InitInvariant
<1>2. IInv /\ [Next]_vars => IInv'
  BY NextKeeps
<1> QED
  BY <1>1, <1>2, PTL DEF Spec

\* Every variable has its type.
THEOREM TypeCorrect ==
  Spec => []TypeOK
<1>1. IInv => TypeOK
  BY DEF IInv
<1> QED
  BY <1>1, Invariant, PTL

\* Nothing is put into a tenant before the nodes are Ready, and no Capsule
\* tenant is declared before Capsule's webhooks enforce it.
THEOREM Guarded ==
  Spec => []TenantsAreGuarded
<1>1. IInv => TenantsAreGuarded
  BY DEF IInv
<1> QED
  BY <1>1, Invariant, PTL

-----------------------------------------------------------------------------
(***************************************************************************)
(* How a command ends.                                                     *)
(***************************************************************************)
LEMMA Endings ==
  ASSUME [Next]_vars, outcome' # outcome, outcome' # "none"
  PROVE  \/ Complete /\ outcome' = "complete"
         \/ Fail /\ outcome' = "failed"
         \/ FailUnpacking /\ outcome' = "failed"
         \/ Interrupt /\ outcome' # "complete"
<1>1. /\ ~Start /\ ~EnsureCluster /\ ~InstallCni /\ ~WaitForNodes /\ ~InstallRuntime
      /\ ~MakeTenant
  BY DEF Start, EnsureCluster, InstallCni, WaitForNodes, InstallRuntime, MakeTenant, GoTo
<1>2. ~TakeTenant /\ ~FinishTenant /\ ~TakeStep /\ ~FindPod /\ ~PollPod /\ ~MissTenant
  BY DEF TakeTenant, FinishTenant, NextTenant, TakeStep, FindPod, PollPod, MissTenant
<1>3. ~NodesSettle /\ ~WebhooksRegister /\ ~(\E t \in Tenant : PodStarts(t)) /\ ~Over
      /\ ~UNCHANGED vars
  BY DEF NodesSettle, WebhooksRegister, PodStarts, Over, vars, control
<1>4. Complete \/ Fail \/ FailUnpacking \/ Interrupt
  BY <1>1, <1>2, <1>3 DEF Next
<1>5. /\ Complete => outcome' = "complete"
      /\ Fail => outcome' = "failed"
      /\ FailUnpacking => outcome' = "failed"
      /\ Interrupt => outcome' # "complete"
  BY DEF Complete, Fail, FailUnpacking, Interrupt, End
<1> QED
  BY <1>4, <1>5

\* A command that reports the set-up complete has made every tenant that it
\* did not find healthy, on a network that carries traffic, and has the
\* sandboxed runtime in place, whatever earlier commands had left behind.
THEOREM Whole ==
  Spec => SetupIsWhole
<1> DEFINE Real ==
      outcome' = "complete" /\ outcome = "none" =>
        /\ \A t \in Tenant \ found : Made(t)
        /\ network.settled /\ Cni(cmd) \in network.applied
        /\ Sandboxed
<1>1. IInv /\ [Next]_vars => [Real]_vars
  <2> SUFFICES ASSUME IInv, [Next]_vars, outcome' = "complete", outcome = "none"
               PROVE  /\ \A t \in Tenant \ found : Made(t)
                      /\ network.settled /\ Cni(cmd) \in network.applied
                      /\ Sandboxed
    OBVIOUS
  <2>1. pc = "ready"
    BY Endings DEF Complete
  <2>2. Waited /\ RuntimeSoFar /\ MadeSoFar
    BY <2>1, RunningFacts
  <2>3. network.settled /\ Cni(cmd) \in network.applied /\ Sandboxed
    BY <2>1, <2>2
    DEF Waited, RuntimeSoFar, MadeSoFar, OnNodes, Networked, OnCluster, OnTenant
  <2>4. ("tenant1" \in found \/ Made("tenant1")) /\ ("tenant2" \in found \/ Made("tenant2"))
    BY <2>1, <2>2 DEF MadeSoFar
  <2>5. \A t \in Tenant \ found : Made(t)
    BY <2>4 DEF Tenant
  <2> QED
    BY <2>3, <2>5
<1> QED
  BY <1>1, Invariant, PTL DEF Spec, SetupIsWhole

\* Nothing stands in the way of a step of a set-up that made all there is.
LEMMA FreshBuilds ==
  ASSUME IInv, pc = "build", step <= Len(Plan(cmd)), Unspoilt, ~Impossible(cmd)
  PROVE  ~Obstacle(who, current)
<1> DEFINE P == Plan(cmd)
           it == tenant[who]
<1>1. /\ step \in 1 .. Len(P) /\ step \in Nat /\ current = P[step]
      /\ it \in Belongings /\ who \in Tenant
  BY BuildFacts
<1>2. WorldOK /\ MadeSoFar /\ FreshSoFar /\ cmd \in Command
  BY RunningFacts
<1>3. /\ cluster.ports = cmd.ports /\ Owed(cmd, step, it)
      /\ \A r \in DOMAIN releases : releases[r] # "pending"
  BY <1>2 DEF FreshSoFar, OnCluster, Building
<1>4. \A i \in 1 .. step - 1 : Done(cmd, it, P[i])
  BY <1>2 DEF MadeSoFar, Building
<1>5. \A i \in 1 .. step - 1 : i \in 1 .. Len(P)
  BY <1>1
<1>6. /\ cmd.provider = "kind" /\ Mapping(cmd) = cmd.ports
      /\ cmd.kind \in Kind
  BY <1>2, CommandFacts DEF Unspoilt
<1>7. /\ P[step] \notin Strategy => \A i \in 1 .. step - 1 : P[i] # "inner"
      /\ \A i \in 1 .. step - 1 : P[step] = "space" => P[i] \notin Places
      /\ \A i \in 1 .. step - 1 : P[step] = "service" => P[i] # "service"
      /\ P[step] = "inner" =>
           \E i \in 1 .. step - 1 : \/ P[i] \in Configures
                                    \/ cmd.kind = "capsule" /\ P[i] = "config"
      /\ cmd.kind # "kubezoo" /\ P[step] \in Strategy =>
           \E i \in 1 .. step - 1 : \/ P[i] \in Places
                                    \/ Inner(cmd.kind) = "host" /\ P[i] = "inner"
      /\ P[step] \in Strategy => \A i \in 1 .. step - 1 : P[i] # P[step]
  BY <1>1, <1>2, <1>6, PlanOrder DEF Impossible
<1>8. Inner(cmd.kind) = "host" => \A i \in 1 .. step - 1 : P[i] \notin Places
  BY <1>2, <1>5, PlanOrder
<1>9. P[step] \in Strategy => P[step] \in ToSet(DataPlane(cmd))
  BY <1>1, <1>2, PlanFacts
<1>10. current = "space" => "host" \notin it.spaces
  BY <1>1, <1>3, <1>7 DEF Owed, Before, Strategy
<1>11. current = "inner" => Inner(cmd.kind) \notin it.spaces
  BY <1>1, <1>3, <1>7, <1>8 DEF Owed, Before, Strategy
<1>12. current = "inner" => Reached(who)
  BY <1>1, <1>3, <1>4, <1>6, <1>7 DEF Done, Reached
<1>13. Mapping(cmd) = cluster.ports
  BY <1>3, <1>6
<1>14. current = "service" => ~it.service
  BY <1>1, <1>3, <1>7 DEF Owed, Before
<1>15. current \in Strategy => current \notin it.data
  BY <1>1, <1>3, <1>7 DEF Owed, Before
<1>16. current \in {"deny", "allow", "dns"} => "host" \in it.spaces
  <2> SUFFICES ASSUME current \in {"deny", "allow", "dns"}
               PROVE  "host" \in it.spaces
    OBVIOUS
  <2>1. P[step] \in Strategy /\ cmd.kind # "kubezoo"
    BY <1>1, <1>9 DEF Strategy, Impossible
  <2> QED
    BY <1>4, <1>7, <2>1 DEF Done
<1>17. ~(current = "admission" /\ cmd.kind = "kubezoo")
  BY <1>1, <1>9 DEF Strategy, Impossible
<1>18. current = "release" => it.release # "pending"
  BY <1>3 DEF Owed
<1> QED
  BY <1>3, <1>10, <1>11, <1>12, <1>13, <1>14, <1>15, <1>16, <1>17, <1>18 DEF Obstacle, Strategy

\* A set-up on a cluster it made, which meets no mishap, fails only when it is
\* an impossible one, over a runtime's file cut short earlier, or in the poll of
\* deploy_vcluster that takes another tenant's pod for its own.
THEOREM FreshSucceed ==
  Spec => FreshSetupsSucceed
<1> DEFINE Real ==
      outcome' = "failed" /\ outcome = "none" =>
        \/ troubled' \/ pc = "cluster"
        \/ cmd.existing \/ cmd.provider = "none"
        \/ Impossible(cmd)
        \/ torn # {} /\ pc = "unpack"
        \/ pc = "poll" /\ who = "tenant2"
<1>1. IInv /\ [Next]_vars => [Real]_vars
  <2> SUFFICES ASSUME IInv, [Next]_vars, outcome' = "failed", outcome = "none",
                      ~troubled', pc # "cluster", ~cmd.existing, cmd.provider # "none",
                      ~Impossible(cmd)
               PROVE  \/ torn # {} /\ pc = "unpack"
                      \/ pc = "poll" /\ who = "tenant2"
    OBVIOUS
  <2>1. ~Interrupt
    BY DEF Interrupt, Mishap
  <2>2. CASE FailUnpacking
    <3>1. pc = "unpack" /\ cache[sandbox].archive = "part"
      BY <2>2 DEF FailUnpacking, UnpackRefused
    <3>2. sandbox \in Runtime /\ WorldInv
      BY <3>1, SandboxKnown, RunningFacts
    <3> QED
      BY <3>1, <3>2 DEF WorldInv, PartsAreTorn
  <2>3. CASE Fail
    <3>1. pc \in {"cni", "download", "build", "poll"} /\ pc # "idle" /\ OnCluster /\ ~troubled
      BY <2>3 DEF Fail, OnCluster
    <3>2. ControlOK /\ ClustersKept /\ MadeSoFar /\ FreshSoFar /\ cmd \in Command
      BY <3>1, RunningFacts
    <3>3. cmd.provider = "kind"
      BY <3>1, <3>2, CommandFacts DEF ClustersKept
    <3>4. Unspoilt
      BY <3>1, <3>3 DEF Unspoilt
    <3>5. ~(pc = "cni" /\ CniRefused)
      BY <3>1, <3>2, <3>4 DEF FreshSoFar, CniRefused
    <3>6. ~(pc = "download" /\ RuntimeRefused)
      BY <3>3 DEF RuntimeRefused, Impossible
    <3>7. ~(pc = "build" /\ step <= Len(Plan(cmd)) /\ Obstacle(who, current))
      BY <3>4, FreshBuilds
    <3>8. pc = "poll" /\ tenant[FirstPod].pod # "none" /\ FirstPod # who
      BY <2>3, <3>5, <3>6, <3>7 DEF Fail
    <3>9. who # "tenant1"
      <4> SUFFICES ASSUME who = "tenant1"
                   PROVE  FALSE
        OBVIOUS
      <4>1. tenant["tenant2"] = Blank
        BY <3>1, <3>2, <3>4, <3>8 DEF FreshSoFar, OnTenant
      <4> QED
        BY <3>8, <4>1, BlankFacts DEF FirstPod
    <3> QED
      BY <3>2, <3>8, <3>9 DEF ControlOK, Tenant
  <2> QED
    BY <2>1, <2>2, <2>3, Endings
<1> QED
  BY <1>1, Invariant, PTL DEF Spec, FreshSetupsSucceed

=============================================================================
