----------------------- MODULE ControlPlaneLoadProofs -----------------------
(***************************************************************************)
(* Theorems about ControlPlaneLoad, for every length of a phase, every     *)
(* rate, every time a request may take and any number of failures.         *)
(***************************************************************************)
EXTENDS ControlPlaneLoad, TLAPS

-----------------------------------------------------------------------------
(***************************************************************************)
(* The constants and the scenarios.                                        *)
(***************************************************************************)
LEMMA LongestFacts ==
  /\ Longest \in Nat /\ Interval <= Longest /\ MaxService <= Longest
  /\ Horizon \in Nat /\ Horizon = Duration + 7 * Longest
  /\ Duration \in Nat \ {0} /\ MaxService \in Nat /\ Interval \in Nat \ {0} /\ Mishaps \in Nat
BY TickAssumption DEF Longest, Horizon

\* The requests of a round leave room for one more before the horizon.
LEMMA ReachFacts ==
  ASSUME NEW k \in 0 .. 6
  PROVE  Reach(k) \in Nat /\ Duration <= Reach(k) /\ Reach(k) + Longest <= Horizon
<1>1. k = 0 \/ k = 1 \/ k = 2 \/ k = 3 \/ k = 4 \/ k = 5 \/ k = 6
  OBVIOUS
<1> QED
  BY <1>1, LongestFacts DEF Reach

LEMMA ReachNext ==
  ASSUME NEW k \in 0 .. 6
  PROVE  k > 0 => Reach(k) = Reach(k - 1) + Longest
BY LongestFacts DEF Reach

LEMMA ScenarioFacts ==
  ASSUME NEW k \in Kinds
  PROVE  /\ Len(Scenario(k)) \in 1 .. 6
         /\ \A i \in 1 .. Len(Scenario(k)) :
              /\ Scenario(k)[i] \in {"create", "get", "update", "list", "delete"}
              /\ i = Len(Scenario(k)) <=> Scenario(k)[i] = "delete"
<1>1. CASE k = "pod"
  <2> DEFINE sc == <<"create", "update", "list", "delete">>
  <2>1. Scenario(k) = sc
    BY <1>1 DEF Scenario
  <2>2. Len(sc) = 4 /\ sc[1] = "create" /\ sc[2] = "update" /\ sc[3] = "list" /\ sc[4] = "delete"
    OBVIOUS
  <2>3. \A i \in 1 .. 4 : i = 1 \/ i = 2 \/ i = 3 \/ i = 4
    OBVIOUS
  <2> HIDE DEF sc
  <2> QED
    BY <2>1, <2>2, <2>3
<1>2. CASE k # "pod"
  <2> DEFINE sc == <<"create", "get", "update", "get", "list", "delete">>
  <2>1. Scenario(k) = sc
    BY <1>2 DEF Scenario
  <2>2. /\ Len(sc) = 6 /\ sc[1] = "create" /\ sc[2] = "get" /\ sc[3] = "update"
        /\ sc[4] = "get" /\ sc[5] = "list" /\ sc[6] = "delete"
    OBVIOUS
  <2>3. \A i \in 1 .. 6 : i = 1 \/ i = 2 \/ i = 3 \/ i = 4 \/ i = 5 \/ i = 6
    OBVIOUS
  <2> HIDE DEF sc
  <2> QED
    BY <2>1, <2>2, <2>3
<1> QED
  BY <1>1, <1>2

LEMMA FirstStep ==
  ASSUME NEW k \in Kinds
  PROVE  1 \in 1 .. Len(Scenario(k))
<1> DEFINE n == Len(Scenario(k))
<1>1. n \in 1 .. 6
  BY ScenarioFacts
<1> HIDE DEF n
<1>2. 1 \in 1 .. n
  BY <1>1
<1> QED
  BY <1>2 DEF n

LEMMA PaceFacts ==
  ASSUME limiter \in Limiter
  PROVE  Pace \in Nat /\ Pace <= Longest
BY LongestFacts DEF Pace

LEMMA DivisionFacts ==
  ASSUME NEW n \in Nat, NEW p \in Nat, p # 0, NEW q \in Nat, q * p <= n, n < (q + 1) * p
  PROVE  n \div p = q
<1> QED
  BY SMT

\* What is left of a step on the schedule.
LEMMA SlotFacts ==
  ASSUME NEW n \in Nat \ {0}, NEW p \in Nat
  PROVE  n * p = (n - 1) * p + p
BY SMT

-----------------------------------------------------------------------------
(***************************************************************************)
(* The beginning, and the steps between two rounds.                        *)
(***************************************************************************)
LEMMA InitInvariant == Init => IInv
<1> SUFFICES ASSUME Init PROVE IInv
  OBVIOUS
<1> USE DEF Init
<1>1. TypeOK
  BY LongestFacts DEF TypeOK, Names, NoPoint
<1>2. InScenario
  <2>1. 1 \in 1 .. Len(Scenario(kind))
    BY FirstStep
  <2> QED
    BY <2>1 DEF InScenario
<1>3. Counted /\ InTime /\ OnSchedule
  BY LongestFacts DEF Counted, InRound, InTime, OnSchedule
<1>4. LoadIsOffered /\ LitterIsExplained
  BY DEF LoadIsOffered, Asleep, LitterIsExplained, NoPoint
<1> QED
  BY <1>1, <1>2, <1>3, <1>4 DEF IInv

\* A sweep takes objects away, and keeps on record those it leaves.
LEMMA SweptFacts ==
  ASSUME TypeOK, Swept
  PROVE  /\ objects' \in [Names -> {"absent", "present", "leaving"}]
         /\ kept' \subseteq Names /\ mishaps' \in 0 .. Mishaps
         /\ \A c \in Names : objects'[c] = "present" =>
              objects[c] = "present" /\ (c \in kept => c \in kept')
<1> USE DEF TypeOK
<1>1. CASE /\ objects' = IF kind = "configmap" THEN [c \in Names |-> "absent"] ELSE objects
           /\ kept' = IF kind = "configmap" THEN {} ELSE kept
           /\ UNCHANGED mishaps
  BY <1>1
<1>2. CASE /\ GoesWrong
           /\ \E gone \in SUBSET (IF kind = "configmap" THEN kept ELSE {}) :
                /\ objects' = [c \in Names |-> IF c \in gone THEN "absent" ELSE objects[c]]
                /\ kept' = kept \ gone
  <2>1. PICK gone \in SUBSET (IF kind = "configmap" THEN kept ELSE {}) :
          /\ objects' = [c \in Names |-> IF c \in gone THEN "absent" ELSE objects[c]]
          /\ kept' = kept \ gone
    BY <1>2
  <2>2. mishaps' \in 0 .. Mishaps
    BY <1>2, LongestFacts DEF GoesWrong
  <2> QED
    BY <2>1, <2>2
<1> QED
  BY <1>1, <1>2 DEF Swept

LEMMA SweepStep == IInv /\ Sweep => IInv'
<1> SUFFICES ASSUME IInv, Sweep PROVE IInv'
  OBVIOUS
<1>1. TypeOK /\ Swept /\ pc = "sweep" /\ pc' = "begin" /\ Pace' = Pace
  BY DEF IInv, Sweep, Goto, Pace, Setting
<1>2. TypeOK'
  <2> HIDE DEF IInv, Sweep
  <2>1. UNCHANGED <<kind, limiter, phase, now, issued, slot, sent, step, counter, last>>
    BY DEF Sweep, Setting
  <2> QED
    BY <1>1, <2>1, SweptFacts DEF TypeOK
<1>3. InScenario'
  BY DEF IInv, InScenario, Sweep, Setting, Scenario
<1>4. Counted' /\ InTime' /\ OnSchedule'
  BY <1>1 DEF Counted, InRound, InTime, OnSchedule, IInv, Sweep
<1>5. LoadIsOffered'
  BY <1>1 DEF LoadIsOffered, Asleep, IInv, Sweep
<1>6. LitterIsExplained'
  BY <1>1, SweptFacts DEF LitterIsExplained, IInv, Sweep
<1> QED
  BY <1>2, <1>3, <1>4, <1>5, <1>6 DEF IInv

LEMMA TidyStep == IInv /\ Tidy => IInv'
<1> SUFFICES ASSUME IInv, Tidy PROVE IInv'
  OBVIOUS
<1>1. TypeOK /\ Swept /\ pc = "tidy" /\ pc' = "sweep" /\ Pace' = Pace
  BY DEF IInv, Tidy, Goto, Pace, Setting
<1>2. TypeOK'
  <2>1. UNCHANGED <<kind, limiter, now, issued, slot, sent, step, counter, last>>
    BY DEF Tidy, Setting
  <2>2. phase' \in {"baseline", "unbalanced", "done"}
    BY DEF Tidy
  <2> QED
    BY <1>1, <2>1, <2>2, SweptFacts DEF TypeOK
<1>3. InScenario'
  BY DEF IInv, InScenario, Tidy, Setting, Scenario
<1>4. Counted' /\ InTime' /\ OnSchedule'
  BY <1>1 DEF Counted, InRound, InTime, OnSchedule, IInv, Tidy
<1>5. LoadIsOffered'
  BY <1>1 DEF LoadIsOffered, Asleep, IInv, Tidy
<1>6. LitterIsExplained'
  BY <1>1, SweptFacts DEF LitterIsExplained, IInv, Tidy
<1> QED
  BY <1>2, <1>3, <1>4, <1>5, <1>6 DEF IInv

LEMMA BeginStep == IInv /\ Begin => IInv'
<1> SUFFICES ASSUME IInv, Begin PROVE IInv'
  OBVIOUS
<1>1. pc = "begin" /\ pc' = "round" /\ Pace' = Pace
  BY DEF Begin, Goto, Pace, Setting
<1>2. TypeOK'
  BY <1>1, LongestFacts DEF IInv, TypeOK, Begin, Setting, Names, NoPoint
<1>3. InScenario'
  <2>1. kind' = kind /\ kind \in Kinds /\ step' = 1
    BY DEF IInv, TypeOK, Begin, Setting
  <2>2. 1 \in 1 .. Len(Scenario(kind))
    BY <2>1, FirstStep
  <2> QED
    BY <2>1, <2>2 DEF InScenario, Scenario
<1>4. Counted' /\ InTime' /\ OnSchedule'
  BY <1>1 DEF Counted, InRound, InTime, OnSchedule, Begin
<1>5. LoadIsOffered'
  BY <1>1 DEF LoadIsOffered, Asleep, Begin, NoPoint
<1>6. LitterIsExplained'
  BY <1>1 DEF LitterIsExplained, IInv, Begin
<1> QED
  BY <1>2, <1>3, <1>4, <1>5, <1>6 DEF IInv

\* A round begins before the deadline only, with the scenario from its start.
LEMMA RoundStep == IInv /\ Round => IInv'
<1> SUFFICES ASSUME IInv, Round PROVE IInv'
  OBVIOUS
<1>1. /\ pc = "round" /\ Pace' = Pace /\ step' = 1
      /\ pc' = IF now < Duration THEN "ask" ELSE "tidy"
      /\ UNCHANGED <<kind, limiter, phase, now, issued, slot, sent, counter, objects, last, kept, mishaps>>
  BY DEF Round, Goto, Pace, Setting, Due
<1>2. TypeOK'
  BY <1>1 DEF IInv, TypeOK
<1>3. InScenario'
  <2>1. kind \in Kinds
    BY DEF IInv, TypeOK
  <2>2. 1 \in 1 .. Len(Scenario(kind))
    BY <2>1, FirstStep
  <2> QED
    BY <1>1, <2>2 DEF InScenario, Scenario
<1>4. now \in Nat /\ sent \in Nat /\ slot \in Nat /\ counter \in Nat /\ Pace \in Nat
  BY LongestFacts, PaceFacts DEF IInv, TypeOK, Names
<1>5. Counted'
  BY <1>1, <1>4, LongestFacts DEF Counted, InRound, IInv
<1>6. InTime'
  BY <1>1, <1>4, LongestFacts DEF InTime, IInv, Reach
<1>7. OnSchedule'
  BY <1>1, <1>4 DEF OnSchedule, IInv
<1>8. LoadIsOffered'
  BY <1>1 DEF LoadIsOffered, Asleep, IInv
<1>9. LitterIsExplained'
  BY <1>1 DEF LitterIsExplained, IInv
<1> QED
  BY <1>2, <1>3, <1>5, <1>6, <1>7, <1>8, <1>9 DEF IInv

-----------------------------------------------------------------------------
(***************************************************************************)
(* The steps of an operation.                                              *)
(***************************************************************************)
\* What holds of a worker between the slot and the answer.
LEMMA RoundFacts ==
  ASSUME IInv, InRound
  PROVE  /\ kind \in Kinds /\ step \in 1 .. 6 /\ step \in 1 .. Len(Scenario(kind))
         /\ now \in Nat /\ sent \in Nat /\ slot \in Nat /\ issued \in Nat /\ counter \in Nat
         /\ Pace \in Nat /\ Pace <= Longest
         /\ Reach(step) \in Nat /\ Reach(step) + Longest <= Horizon
         /\ Reach(step) = Reach(step - 1) + Longest /\ counter < Duration
<1>1. step \in 1 .. 6
  BY DEF IInv, TypeOK
<1>2. Reach(step) \in Nat /\ Reach(step) + Longest <= Horizon
  BY <1>1, ReachFacts
<1>3. Reach(step) = Reach(step - 1) + Longest
  BY <1>1, ReachNext
<1>4. Pace \in Nat /\ Pace <= Longest
  BY PaceFacts DEF IInv, TypeOK
<1>5. counter < Duration
  BY DEF IInv, Counted
<1> QED
  BY <1>1, <1>2, <1>3, <1>4, <1>5, LongestFacts DEF IInv, TypeOK, InScenario, Names

\* The slot of an operation is one pace after the last, and so no more than one pace ahead.
LEMMA AskStep == IInv /\ Ask => IInv'
<1> SUFFICES ASSUME IInv, Ask PROVE IInv'
  OBVIOUS
<1>1. /\ pc = "ask" /\ pc' = "sleep" /\ Pace' = Pace /\ issued' = issued + 1
      /\ slot' = IF Pace = 0 THEN now ELSE issued * Pace
      /\ UNCHANGED <<kind, limiter, phase, now, sent, step, counter, objects, last, kept, mishaps>>
  BY DEF Ask, Goto, Pace, Setting, Slot
<1>2. InRound
  BY <1>1 DEF InRound
<1>3. /\ now \in Nat /\ sent \in Nat /\ slot \in Nat /\ issued \in Nat /\ Pace \in Nat
      /\ Pace <= Longest /\ Reach(step) = Reach(step - 1) + Longest /\ step \in 1 .. 6
      /\ Longest \in Nat
  BY <1>2, RoundFacts, LongestFacts
<1>4. slot <= sent /\ sent <= now /\ sent <= Reach(step - 1) /\ now <= Reach(step)
  BY <1>1 DEF IInv, InTime
<1>5. Reach(step - 1) \in Nat
  BY <1>3, ReachFacts
<1>6. Pace # 0 /\ issued # 0 => slot' = slot + Pace /\ slot = (issued - 1) * Pace
  <2>1. Pace # 0 /\ issued # 0 => slot = (issued - 1) * Pace
    BY <1>1 DEF IInv, OnSchedule
  <2>2. Pace # 0 /\ issued # 0 => issued * Pace = (issued - 1) * Pace + Pace
    BY <1>3, SlotFacts
  <2> QED
    BY <2>1, <2>2, <1>1
<1>7. Pace # 0 /\ issued = 0 => slot' = 0
  BY <1>1, <1>3
<1>8. slot' \in Nat /\ slot' <= now + Pace /\ slot' <= Reach(step)
  <2>1. slot + Pace <= Reach(step - 1) + Longest
    BY <1>3, <1>4, <1>5
  <2> QED
    BY <2>1, <1>1, <1>3, <1>4, <1>5, <1>6, <1>7
<1>9. TypeOK'
  BY <1>1, <1>3, <1>8 DEF IInv, TypeOK
<1>10. InScenario'
  BY <1>1 DEF IInv, InScenario, Scenario
<1>11. Counted'
  BY <1>1 DEF IInv, Counted, InRound
<1>12. InTime'
  <2>1. Reach(step)' = Reach(step)
    BY <1>1 DEF Reach, Longest
  <2> QED
    BY <1>1, <1>4, <1>8, <2>1 DEF InTime
<1>13. OnSchedule'
  <2>1. issued' # 0 /\ issued' - 1 = issued
    BY <1>1, <1>3
  <2> QED
    BY <1>1, <1>8, <2>1 DEF OnSchedule
<1>14. LoadIsOffered'
  <2>1. Pace = 0 => last'.late = 0
    BY <1>1 DEF IInv, LoadIsOffered
  <2>2. slot' > now => Pace # 0 /\ issued = now \div Pace + 1
    <3>1. SUFFICES ASSUME slot' > now PROVE Pace # 0 /\ issued = now \div Pace + 1
      OBVIOUS
    <3>2. Pace # 0 /\ issued # 0
      BY <3>1, <1>1, <1>3, <1>7
    <3>3. (issued - 1) * Pace <= now /\ now < (issued - 1 + 1) * Pace /\ issued - 1 \in Nat
      BY <3>1, <3>2, <1>1, <1>3, <1>4, <1>6
    <3>4. now \div Pace = issued - 1
      BY <3>2, <3>3, <1>3, DivisionFacts
    <3> QED
      BY <3>2, <3>4, <1>3
  <2>3. issued' - 1 = issued
    BY <1>1, <1>3
  <2> QED
    BY <1>1, <2>1, <2>2, <2>3 DEF LoadIsOffered, Asleep
<1>15. LitterIsExplained'
  BY <1>1 DEF IInv, LitterIsExplained
<1> QED
  BY <1>9, <1>10, <1>11, <1>12, <1>13, <1>14, <1>15 DEF IInv

LEMMA SendStep == IInv /\ Send => IInv'
<1> SUFFICES ASSUME IInv, Send PROVE IInv'
  OBVIOUS
<1>1. /\ pc = "sleep" /\ pc' = "call" /\ Pace' = Pace /\ sent' = now /\ ~(slot > now)
      /\ UNCHANGED <<kind, limiter, phase, now, issued, slot, step, counter, objects, last, kept, mishaps>>
  BY DEF Send, Goto, Pace, Setting, Asleep
<1>2. InRound
  BY <1>1 DEF InRound
<1>3. now \in Nat /\ slot \in Nat /\ Pace \in Nat
  BY <1>2, RoundFacts
<1>4. now <= Reach(step) /\ counter <= now
  BY <1>1 DEF IInv, InTime, Counted
<1>5. TypeOK'
  BY <1>1 DEF IInv, TypeOK
<1>6. InScenario'
  BY <1>1 DEF IInv, InScenario, Scenario
<1>7. Counted'
  BY <1>1, <1>4 DEF IInv, Counted, InRound
<1>8. InTime'
  <2>1. Reach(step)' = Reach(step)
    BY <1>1 DEF Reach, Longest
  <2> QED
    BY <1>1, <1>3, <1>4, <2>1, LongestFacts DEF InTime
<1>9. OnSchedule'
  BY <1>1, <1>3 DEF IInv, OnSchedule
<1>10. LoadIsOffered'
  BY <1>1 DEF IInv, LoadIsOffered, Asleep
<1>11. LitterIsExplained'
  BY <1>1 DEF IInv, LitterIsExplained
<1> QED
  BY <1>5, <1>6, <1>7, <1>8, <1>9, <1>10, <1>11 DEF IInv

\* A tick brings a sleeping worker no further than its slot, and a request no further than
\* the longest a request takes.
LEMMA TickStep == IInv /\ Tick => IInv'
<1> SUFFICES ASSUME IInv, Tick PROVE IInv'
  OBVIOUS
<1>1. /\ now' = now + 1 /\ Pace' = Pace
      /\ (pc = "sleep" /\ slot > now) \/ (pc = "call" /\ now < sent + MaxService)
      /\ UNCHANGED <<kind, limiter, phase, pc, issued, slot, sent, step, counter, objects, last,
                    kept, mishaps>>
  BY DEF Tick, Pace, Setting, Asleep
<1>2. InRound
  BY <1>1 DEF InRound
<1>3. /\ now \in Nat /\ sent \in Nat /\ slot \in Nat /\ issued \in Nat /\ Pace \in Nat
      /\ counter \in Nat /\ Reach(step) \in Nat /\ Reach(step) + Longest <= Horizon
      /\ step \in 1 .. 6
  BY <1>2, RoundFacts
<1>4. now + 1 \in 0 .. Horizon
  <2>1. pc = "sleep" => slot <= Reach(step)
    BY DEF IInv, InTime
  <2>2. pc = "call" => sent <= Reach(step)
    BY DEF IInv, InTime
  <2> QED
    BY <2>1, <2>2, <1>1, <1>3, LongestFacts
<1>5. TypeOK'
  BY <1>1, <1>4 DEF IInv, TypeOK
<1>6. InScenario'
  BY <1>1 DEF IInv, InScenario, Scenario
<1>7. Counted'
  BY <1>1, <1>3 DEF IInv, Counted, InRound
<1>8. InTime'
  <2>1. Reach(step)' = Reach(step)
    BY <1>1 DEF Reach, Longest
  <2>2. CASE pc = "sleep" /\ slot > now
    <3>1. slot <= Reach(step)
      BY <2>2 DEF IInv, InTime
    <3> QED
      BY <1>1, <1>3, <2>1, <2>2, <3>1 DEF InTime
  <2>3. CASE pc = "call" /\ now < sent + MaxService
    <3>1. slot <= sent /\ sent <= Reach(step) /\ sent <= now
      BY <2>3 DEF IInv, InTime
    <3> QED
      BY <1>1, <1>3, <2>1, <2>3, <3>1, LongestFacts DEF InTime
  <2> QED
    BY <1>1, <2>2, <2>3
<1>9. pc = "sleep" /\ Pace # 0 => issued # 0 /\ slot = (issued - 1) * Pace /\ slot <= now + Pace
  BY DEF IInv, OnSchedule
<1>10. pc = "sleep" => Pace # 0
  BY <1>1, <1>3 DEF IInv, OnSchedule
<1>11. OnSchedule'
  <2>1. CASE pc = "sleep"
    <3>1. slot <= now + 1 + Pace
      BY <2>1, <1>3, <1>9, <1>10
    <3> QED
      BY <1>1, <1>9, <1>10, <2>1, <3>1 DEF OnSchedule
  <2>2. CASE pc = "call"
    BY <1>1, <2>2 DEF IInv, OnSchedule
  <2> QED
    BY <1>1, <2>1, <2>2
<1>12. LoadIsOffered'
  <2>1. Pace = 0 => last'.late = 0
    BY <1>1 DEF IInv, LoadIsOffered
  <2>2. pc = "sleep" /\ slot > now + 1 => Pace # 0 /\ issued - 1 = (now + 1) \div Pace + 1
    <3>1. SUFFICES ASSUME pc = "sleep", slot > now + 1
                   PROVE  Pace # 0 /\ issued - 1 = (now + 1) \div Pace + 1
      OBVIOUS
    <3>2. Pace # 0 /\ issued # 0 /\ slot = (issued - 1) * Pace /\ slot <= now + Pace
      BY <3>1, <1>9, <1>10
    <3>3. issued - 1 \in Nat /\ issued - 1 # 0
      <4>1. issued - 1 = 0 => slot = 0
        BY <3>2, <1>3
      <4> QED
        BY <4>1, <3>1, <3>2, <1>3
    <3>4. slot = (issued - 1 - 1) * Pace + Pace
      BY <3>2, <3>3, <1>3, SlotFacts
    <3> DEFINE q == issued - 1 - 1
    <3>5. q \in Nat /\ q + 1 = issued - 1
      BY <3>3, <1>3
    <3>6. q * Pace <= now + 1 /\ now + 1 < (q + 1) * Pace
      <4>1. q * Pace \in Nat /\ slot = q * Pace + Pace
        BY <3>4, <3>5, <1>3
      <4>2. slot = (q + 1) * Pace
        BY <3>2, <3>5
      <4> HIDE DEF q
      <4> QED
        BY <4>1, <4>2, <3>1, <3>2, <1>3
    <3> HIDE DEF q
    <3>7. (now + 1) \div Pace = q
      BY <3>2, <3>5, <3>6, <1>3, DivisionFacts
    <3> QED
      BY <3>2, <3>5, <3>7
  <2> QED
    BY <1>1, <2>1, <2>2 DEF LoadIsOffered, Asleep
<1>13. LitterIsExplained'
  BY <1>1 DEF IInv, LitterIsExplained
<1> QED
  BY <1>5, <1>6, <1>7, <1>8, <1>11, <1>12, <1>13 DEF IInv

-----------------------------------------------------------------------------
(***************************************************************************)
(* The answer.                                                             *)
(***************************************************************************)
LEMMA EffectFacts ==
  ASSUME TypeOK, NEW op
  PROVE  /\ Effect(op) \in {"absent", "present", "leaving"}
         /\ op = "delete" => Effect(op) # "present"
BY DEF Effect, Here, TypeOK

\* Whichever way a request ends: the object of the round has changed at most, and if it is
\* there after its deletion, then the deletion has failed.
LEMMA AnswerFacts ==
  ASSUME IInv, Answer
  PROVE  /\ objects' \in [Names -> {"absent", "present", "leaving"}]
         /\ kept' \subseteq Names /\ mishaps' \in 0 .. Mishaps
         /\ last'.late = sent - slot /\ last' \in [late : {sent - slot}, error : BOOLEAN]
         /\ \E error \in BOOLEAN : Advance(error)
         /\ \A c \in Names \ {counter} : objects'[c] = objects[c] /\ (c \in kept => c \in kept')
         /\ Op = "delete" /\ objects'[counter] = "present" => counter \in kept'
<1>1. TypeOK /\ counter \in Names
  BY DEF IInv, TypeOK
<1>2. Effect(Op) \in {"absent", "present", "leaving"} /\ (Op = "delete" => Effect(Op) # "present")
  BY <1>1, EffectFacts
<1>3. CASE /\ objects' = [objects EXCEPT ![counter] = Effect(Op)]
           /\ Recorded(Refused(Op)) /\ Advance(Refused(Op))
           /\ kept' = IF Op = "delete" THEN kept \ {counter} ELSE kept
           /\ UNCHANGED mishaps
  <2>1. Refused(Op) \in BOOLEAN
    BY DEF Refused
  <2>2. last' = [late |-> sent - slot, error |-> Refused(Op)]
    BY <1>3 DEF Recorded
  <2>3. \E error \in BOOLEAN : Advance(error)
    BY <1>3, <2>1
  <2>4. last' \in [late : {sent - slot}, error : BOOLEAN] /\ last'.late = sent - slot
    BY <2>1, <2>2
  <2>5. objects' \in [Names -> {"absent", "present", "leaving"}] /\ objects'[counter] = Effect(Op)
    BY <1>1, <1>2, <1>3 DEF TypeOK
  <2>6. kept' \subseteq Names /\ mishaps' \in 0 .. Mishaps
    BY <1>1, <1>3 DEF TypeOK
  <2>7. \A c \in Names \ {counter} : objects'[c] = objects[c] /\ (c \in kept => c \in kept')
    BY <1>1, <1>3 DEF TypeOK
  <2> QED
    BY <1>2, <2>3, <2>4, <2>5, <2>6, <2>7
<1>4. CASE /\ GoesWrong
           /\ objects' \in {objects, [objects EXCEPT ![counter] = Effect(Op)]}
           /\ Recorded(TRUE) /\ Advance(TRUE)
           /\ kept' = IF Op = "delete" THEN kept \union {counter} ELSE kept
  <2>1. last' = [late |-> sent - slot, error |-> TRUE]
    BY <1>4 DEF Recorded
  <2>2. last' \in [late : {sent - slot}, error : BOOLEAN] /\ last'.late = sent - slot
    BY <2>1
  <2>3. \E error \in BOOLEAN : Advance(error)
    BY <1>4
  <2>4. objects' \in [Names -> {"absent", "present", "leaving"}]
    BY <1>1, <1>2, <1>4 DEF TypeOK
  <2>5. kept' \subseteq Names /\ (Op = "delete" => counter \in kept')
    BY <1>1, <1>4 DEF TypeOK
  <2>6. mishaps' \in 0 .. Mishaps
    BY <1>1, <1>4, LongestFacts DEF GoesWrong, TypeOK
  <2>7. \A c \in Names \ {counter} : objects'[c] = objects[c] /\ (c \in kept => c \in kept')
    BY <1>1, <1>4 DEF TypeOK
  <2> QED
    BY <2>2, <2>3, <2>4, <2>5, <2>6, <2>7
<1> QED
  BY <1>3, <1>4 DEF Answer

LEMMA AnswerStep == IInv /\ Answer => IInv'
<1> SUFFICES ASSUME IInv, Answer PROVE IInv'
  OBVIOUS
<1>1. /\ pc = "call" /\ now > sent /\ Pace' = Pace
      /\ UNCHANGED <<kind, limiter, phase, now, issued, slot, sent>>
  BY DEF Answer, Pace, Setting
<1>2. InRound
  BY <1>1 DEF InRound
<1>3. /\ kind \in Kinds /\ step \in 1 .. 6 /\ step \in 1 .. Len(Scenario(kind))
      /\ now \in Nat /\ sent \in Nat /\ slot \in Nat /\ issued \in Nat /\ counter \in Nat
      /\ Pace \in Nat /\ counter < Duration
  BY <1>2, RoundFacts
<1>4. /\ slot <= sent /\ sent <= Reach(step) /\ now <= sent + MaxService /\ counter <= sent
      /\ sent <= Horizon
  BY <1>1 DEF IInv, InTime, Counted, TypeOK
<1>5. /\ Len(Scenario(kind)) \in 1 .. 6
      /\ step = Len(Scenario(kind)) <=> Op = "delete"
  BY <1>3, ScenarioFacts DEF Op
<1>6. \/ pc' = "round" /\ counter' = counter + 1 /\ step' = step /\ Op = "delete"
      \/ pc' = "ask" /\ counter' = counter /\ step' = step + 1 /\ step # Len(Scenario(kind))
  <2>1. \E error \in BOOLEAN : Advance(error)
    BY AnswerFacts
  <2> QED
    BY <2>1, <1>5 DEF Advance, Goto
<1>7. step' \in 1 .. 6 /\ step' \in 1 .. Len(Scenario(kind))
  <2> DEFINE n == Len(Scenario(kind))
  <2>1. n \in 1 .. 6 /\ step \in 1 .. n /\ (step' = step \/ (step' = step + 1 /\ step # n))
    BY <1>3, <1>5, <1>6
  <2> HIDE DEF n
  <2>2. step' \in 1 .. 6 /\ step' \in 1 .. n
    BY <2>1
  <2> QED
    BY <2>2 DEF n
<1>8. TypeOK'
  <2>1. counter' \in Names
    BY <1>3, <1>6, LongestFacts DEF Names
  <2>2. last' \in [late : 0 .. Horizon, error : BOOLEAN]
    <3>1. last' \in [late : {sent - slot}, error : BOOLEAN]
      BY AnswerFacts
    <3>2. sent - slot \in 0 .. Horizon
      BY <1>3, <1>4, LongestFacts
    <3> QED
      BY <3>1, <3>2
  <2>3. /\ objects' \in [Names -> {"absent", "present", "leaving"}]
        /\ kept' \subseteq Names /\ mishaps' \in 0 .. Mishaps
    BY AnswerFacts
  <2>4. pc' \in {"ask", "round"}
    BY <1>6
  <2>5. /\ kind \in Kinds /\ limiter \in Limiter /\ phase \in {"baseline", "unbalanced", "done"}
        /\ now \in 0 .. Horizon /\ issued \in Nat /\ slot \in Nat /\ sent \in 0 .. Horizon
    BY DEF IInv, TypeOK
  <2> QED
    BY <1>1, <1>7, <2>1, <2>2, <2>3, <2>4, <2>5 DEF TypeOK
<1>9. InScenario'
  BY <1>1, <1>7 DEF InScenario, Scenario
<1>10. Counted'
  BY <1>1, <1>3, <1>4, <1>6 DEF Counted, InRound
<1>11. InTime'
  <2>1. CASE pc' = "round"
    BY <1>1, <1>3, <1>4, <2>1 DEF InTime
  <2>2. CASE pc' = "ask" /\ step' = step + 1 /\ step # Len(Scenario(kind))
    <3>1. step + 1 \in 0 .. 6 /\ step + 1 > 0 /\ step + 1 - 1 = step
      BY <2>2, <1>3, <1>7
    <3>2. Reach(step + 1) = Reach(step) + Longest
      <4> DEFINE k == step + 1
      <4>1. k \in 0 .. 6 /\ k > 0 /\ k - 1 = step
        BY <3>1, <1>3
      <4> HIDE DEF k
      <4>2. Reach(k) = Reach(k - 1) + Longest
        BY <4>1, ReachNext
      <4> QED
        BY <4>1, <4>2 DEF k
    <3>3. Reach(step) \in Nat
      BY <1>3, ReachFacts
    <3>4. now <= Reach(step + 1)
      BY <3>2, <3>3, <1>3, <1>4, LongestFacts
    <3>5. Reach(step)' = Reach(step + 1) /\ Reach(step - 1)' = Reach(step)
      <4>1. Reach(step)' = Duration + step' * Longest /\ Reach(step - 1)' = Duration + (step' - 1) * Longest
        BY DEF Reach, Longest
      <4>2. step' = step + 1 /\ step' - 1 = step
        BY <2>2, <1>3
      <4> QED
        BY <4>1, <4>2 DEF Reach
    <3> QED
      BY <1>1, <1>3, <1>4, <2>2, <3>4, <3>5 DEF InTime
  <2> QED
    BY <1>6, <2>1, <2>2
<1>12. OnSchedule'
  BY <1>1, <1>6 DEF IInv, OnSchedule
<1>13. LoadIsOffered'
  <2>1. last'.late = sent - slot
    BY AnswerFacts
  <2>2. Pace = 0 => slot = sent
    BY <1>1 DEF IInv, OnSchedule
  <2> QED
    BY <1>1, <1>3, <1>6, <2>1, <2>2 DEF LoadIsOffered, Asleep
<1>14. LitterIsExplained'
  <2>1. SUFFICES ASSUME NEW c \in Names, objects'[c] = "present",
                        ~(c = counter' /\ pc' \in {"ask", "sleep", "call"})
                 PROVE  c \in kept'
    BY DEF LitterIsExplained, Names
  <2>2. CASE c = counter
    <3>1. Op = "delete"
      BY <1>6, <2>1, <2>2
    <3> QED
      BY <2>1, <2>2, <3>1, AnswerFacts
  <2>3. CASE c # counter
    <3>1. objects[c] = "present" /\ (c \in kept => c \in kept')
      BY <2>1, <2>3, AnswerFacts
    <3>2. c \in kept
      BY <2>3, <3>1 DEF IInv, LitterIsExplained
    <3> QED
      BY <3>1, <3>2
  <2> QED
    BY <2>2, <2>3
<1> QED
  BY <1>8, <1>9, <1>10, <1>11, <1>12, <1>13, <1>14 DEF IInv

\* A pod that leaves was on its way out, and so nobody's litter.
LEMMA VanishStep == IInv /\ Vanish => IInv'
<1> SUFFICES ASSUME IInv, Vanish PROVE IInv'
  OBVIOUS
<1>1. /\ Pace' = Pace
      /\ UNCHANGED <<kind, limiter, phase, pc, now, issued, slot, sent, step, counter, last, kept, mishaps>>
  BY DEF Vanish, Pace, Setting
<1>2. /\ objects' \in [Names -> {"absent", "present", "leaving"}]
      /\ \A c \in Names : objects'[c] = "present" => objects[c] = "present"
  BY DEF Vanish, IInv, TypeOK
<1>3. TypeOK'
  BY <1>1, <1>2 DEF IInv, TypeOK
<1>4. InScenario'
  BY <1>1 DEF IInv, InScenario, Scenario
<1>5. Counted'
  BY <1>1 DEF IInv, Counted, InRound
<1>6. InTime'
  BY <1>1 DEF IInv, InTime, Reach, Longest
<1>7. OnSchedule'
  BY <1>1 DEF IInv, OnSchedule
<1>8. LoadIsOffered'
  BY <1>1 DEF IInv, LoadIsOffered, Asleep
<1>9. LitterIsExplained'
  BY <1>1, <1>2 DEF IInv, LitterIsExplained
<1> QED
  BY <1>3, <1>4, <1>5, <1>6, <1>7, <1>8, <1>9 DEF IInv

LEMMA StutterStep == IInv /\ UNCHANGED vars => IInv'
<1> SUFFICES ASSUME IInv, UNCHANGED vars PROVE IInv'
  OBVIOUS
<1>1. /\ Pace' = Pace
      /\ UNCHANGED <<kind, limiter, phase, pc, now, issued, slot, sent, step, counter, objects, last,
                    kept, mishaps>>
  BY DEF vars, Pace
<1>2. TypeOK' /\ InScenario' /\ Counted'
  BY <1>1 DEF IInv, TypeOK, InScenario, Scenario, Counted, InRound
<1>3. InTime' /\ OnSchedule'
  BY <1>1 DEF IInv, InTime, Reach, Longest, OnSchedule
<1>4. LoadIsOffered' /\ LitterIsExplained'
  BY <1>1 DEF IInv, LoadIsOffered, Asleep, LitterIsExplained
<1> QED
  BY <1>2, <1>3, <1>4 DEF IInv

-----------------------------------------------------------------------------
(***************************************************************************)
(* The theorems.                                                           *)
(***************************************************************************)
\* The invariant the others are parts of holds in every state of the load.
THEOREM Invariant == Spec => []IInv
<1>1. Init => IInv
  BY InitInvariant
<1>2. IInv /\ [Next]_vars => IInv'
  BY SweepStep, BeginStep, RoundStep, TidyStep, AskStep, SendStep, TickStep, AnswerStep,
     VanishStep, StutterStep DEF Next, Done
<1> QED
  BY <1>1, <1>2, PTL DEF Spec

\* The types; and however long requests take and whatever fails, a phase of the load is over
\* at most a round after its deadline (run_load in fairness.rs looks at it between rounds).
THEOREM TypeCorrect == Spec => []TypeOK
<1>1. IInv => TypeOK
  BY DEF IInv
<1> QED
  BY <1>1, Invariant, PTL

\* A worker that sleeps has begun exactly the operations whose slots had come, at every rate
\* and with every service time (next_slot and the loop of a worker).
THEOREM Offered == Spec => []LoadIsOffered
<1>1. IInv => LoadIsOffered
  BY DEF IInv
<1> QED
  BY <1>1, Invariant, PTL

\* What a worker leaves behind it leaves by a deletion that failed, and by nothing else.
THEOREM LitterExplained == Spec => []LitterIsExplained
<1>1. IInv => LitterIsExplained
  BY DEF IInv
<1> QED
  BY <1>1, Invariant, PTL

=============================================================================
