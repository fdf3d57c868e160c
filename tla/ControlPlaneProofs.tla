------------------------- MODULE ControlPlaneProofs -------------------------
(***************************************************************************)
(* Theorems about ControlPlane, for any number of looks at the nodes.      *)
(***************************************************************************)
EXTENDS ControlPlane, TLAPS

-----------------------------------------------------------------------------
(***************************************************************************)
(* What is said.                                                           *)
(***************************************************************************)
LEMMA Given ==
  ASSUME NEW autonomy \in BOOLEAN, NEW isolation \in Level, Verdict(autonomy, isolation)
  PROVE  /\ result' \in Finding /\ result'.isolation = isolation
         /\ outcome' = outcome
BY DEF Verdict, Finding

LEMMA Blinded ==
  ASSUME NEW hidden \in BOOLEAN, blind' = hidden
  PROVE  blind' \in BOOLEAN /\ (blind' <=> hidden)
OBVIOUS

\* What a deletion that was answered, or not, makes of the object.
LEMMA Removal ==
  ASSUME TypeOK, NEW done \in BOOLEAN, object' \in IF done THEN Deleted(object) ELSE {object}
  PROVE  /\ object' \in [is : Status, owner : {"tenant1", "tenant2"}, label : {"tenant1", "tenant2"}]
         /\ object'.owner = object.owner /\ object'.label = object.label
         /\ object'.is = "present" => ~done /\ object.is = "present"
         /\ object'.is = "terminating" => object.is = "terminating" \/ Graceful(kind)
         /\ object.is = "absent" => object'.is = "absent"
         /\ ~done => object'.is = object.is
<1>1. CASE ~done
  BY <1>1 DEF TypeOK
<1>2. CASE done /\ object.is = "absent"
  BY <1>2 DEF TypeOK, Deleted
<1>3. CASE done /\ object.is # "absent"
  <2>1. PICK s \in {"absent"} \union (IF Graceful(kind) THEN {"terminating"} ELSE {}) :
               object' = [object EXCEPT !.is = s]
    BY <1>3 DEF Deleted
  <2> QED
    BY <1>3, <2>1 DEF TypeOK, Status
<1> QED
  BY <1>1, <1>2, <1>3

LEMMA Refusal ==
  ASSUME NEW answer, TypeOK, Denial(answer)
  PROVE  denied' \in BOOLEAN /\ (denied' <=> (denied \/ answer = "refused"))
BY Zenon DEF Denial, TypeOK

-----------------------------------------------------------------------------
(***************************************************************************)
(* The platform.                                                           *)
(***************************************************************************)
LEMMA DiscardStep == IInv /\ Discard => IInv'
<1> SUFFICES ASSUME IInv, Discard
             PROVE  IInv'
  OBVIOUS
<1>1. /\ kind = "Node" /\ pc \notin {"over", "aborted", "conclude"} /\ object.is = "present"
      /\ object' \in [is : Status, owner : {"tenant1", "tenant2"}, label : {"tenant1", "tenant2"}]
      /\ object'.is = "absent" /\ object'.owner = object.owner /\ object'.label = object.label
      /\ woes' = woes \union {"discarded"}
      /\ UNCHANGED <<kind, op, shared, phase, pc, target, copy, claim, real, marks, saved,
                     trigger, polls, moved, outcome, result, took, ok, blind, denied, litter>>
  BY DEF Discard, Others, scene, Woe, Probing, Status, IInv, TypeOK
<1>2. TypeOK'
  BY <1>1 DEF IInv, TypeOK, Kinds, Operations, Status, Labels, Level, Authorization, HasClaim
<1>3. Paths'
  BY <1>1 DEF IInv, Paths, TypeOK, Operations, RequiresExisting, HasClaim
<1>4. Said'
  BY <1>1 DEF IInv, Said, TypeOK, Paths, Pending, Finding, Fresh, Open
<1>5. Victim'
  BY <1>1 DEF IInv, Victim, TypeOK, Paths, Said, Fresh, There, Marked, Graceful, HasClaim
<1>6. Breached'
  BY <1>1 DEF IInv, Breached, TypeOK, Said, Victim, Pending, Fresh, Open, There, Marked
<1>7. Unmade'
  BY <1>1 DEF IInv, Unmade, TypeOK, Paths, Victim, RequiresExisting
<1>8. LabelsLeft'
  BY <1>1 DEF IInv, LabelsLeft, TypeOK, Paths, Said, Victim, Fresh, There, Marked
<1>9. LeftSoFar'
  BY <1>1 DEF IInv, LeftSoFar, Kept, TypeOK, Paths, Said, Victim, Open, Fresh, There,
              RequiresExisting, HasClaim
<1> QED
  BY <1>2, <1>3, <1>4, <1>5, <1>6, <1>7, <1>8, <1>9 DEF IInv
LEMMA VanishStep == IInv /\ Vanish => IInv'
<1> SUFFICES ASSUME IInv, Vanish
             PROVE  IInv'
  OBVIOUS
<1>1. /\ pc \notin {"over", "aborted", "conclude"} /\ object.is = "terminating"
      /\ object' \in [is : Status, owner : {"tenant1", "tenant2"}, label : {"tenant1", "tenant2"}]
      /\ object'.is = "absent" /\ object'.owner = object.owner /\ object'.label = object.label
      /\ UNCHANGED <<kind, op, shared, phase, pc, target, copy, claim, real, marks, saved,
                     trigger, polls, moved, outcome, result, took, ok, blind, denied, woes, litter>>
  BY DEF Vanish, Others, scene, Woe, Probing, Status, IInv, TypeOK
<1>2. TypeOK'
  BY <1>1 DEF IInv, TypeOK, Kinds, Operations, Status, Labels, Level, Authorization, HasClaim
<1>3. Paths'
  BY <1>1 DEF IInv, Paths, TypeOK, Operations, RequiresExisting, HasClaim
<1>4. Said'
  BY <1>1 DEF IInv, Said, TypeOK, Paths, Pending, Finding, Fresh, Open
<1>5. Victim'
  BY <1>1 DEF IInv, Victim, TypeOK, Paths, Said, Fresh, There, Marked, Graceful, HasClaim
<1>6. Breached'
  BY <1>1 DEF IInv, Breached, TypeOK, Said, Victim, Pending, Fresh, Open, There, Marked
<1>7. Unmade'
  BY <1>1 DEF IInv, Unmade, TypeOK, Paths, Victim, RequiresExisting
<1>8. LabelsLeft'
  BY <1>1 DEF IInv, LabelsLeft, TypeOK, Paths, Said, Victim, Fresh, There, Marked
<1>9. LeftSoFar'
  BY <1>1 DEF IInv, LeftSoFar, Kept, TypeOK, Paths, Said, Victim, Open, Fresh, There,
              RequiresExisting, HasClaim
<1> QED
  BY <1>2, <1>3, <1>4, <1>5, <1>6, <1>7, <1>8, <1>9 DEF IInv
LEMMA MakeClaimStep == IInv /\ MakeClaim => IInv'
<1> SUFFICES ASSUME IInv, MakeClaim
             PROVE  IInv'
  OBVIOUS
<1>1. /\ claim = "due" /\ claim' = "made"
      /\ woes' = IF pc = "conclude" THEN woes \union {"late"} ELSE woes
      /\ UNCHANGED <<kind, op, shared, phase, pc, target, object, copy, real, marks, saved,
                     trigger, polls, moved, outcome, result, took, ok, blind, denied, litter>>
  BY DEF MakeClaim, Others, scene, Woe, Probing, IInv, TypeOK
<1>2. TypeOK'
  BY <1>1 DEF IInv, TypeOK, Kinds, Operations, Status, Labels, Level, Authorization, HasClaim
<1>3. Paths'
  BY <1>1 DEF IInv, Paths, TypeOK, Operations, RequiresExisting, HasClaim
<1>4. Said'
  BY <1>1 DEF IInv, Said, TypeOK, Paths, Pending, Finding, Fresh, Open
<1>5. Victim'
  BY <1>1 DEF IInv, Victim, TypeOK, Paths, Said, Fresh, There, Marked, Graceful, HasClaim
<1>6. Breached'
  BY <1>1 DEF IInv, Breached, TypeOK, Said, Victim, Pending, Fresh, Open, There, Marked
<1>7. Unmade'
  BY <1>1 DEF IInv, Unmade, TypeOK, Paths, Victim, RequiresExisting
<1>8. LabelsLeft'
  BY <1>1 DEF IInv, LabelsLeft, TypeOK, Paths, Said, Victim, Fresh, There, Marked
<1>9. LeftSoFar'
  BY <1>1 DEF IInv, LeftSoFar, Kept, TypeOK, Paths, Said, Victim, Open, Fresh, There,
              RequiresExisting, HasClaim
<1> QED
  BY <1>2, <1>3, <1>4, <1>5, <1>6, <1>7, <1>8, <1>9 DEF IInv
LEMMA ForgetClaimStep == IInv /\ ForgetClaim => IInv'
<1> SUFFICES ASSUME IInv, ForgetClaim
             PROVE  IInv'
  OBVIOUS
<1>1. /\ claim = "due" /\ claim' = "none"
      /\ UNCHANGED <<kind, op, shared, phase, pc, target, object, copy, real, marks, saved,
                     trigger, polls, moved, outcome, result, took, ok, blind, denied, woes, litter>>
  BY DEF ForgetClaim, Others, scene, Woe, Probing, IInv, TypeOK
<1>2. TypeOK'
  BY <1>1 DEF IInv, TypeOK, Kinds, Operations, Status, Labels, Level, Authorization, HasClaim
<1>3. Paths'
  BY <1>1 DEF IInv, Paths, TypeOK, Operations, RequiresExisting, HasClaim
<1>4. Said'
  BY <1>1 DEF IInv, Said, TypeOK, Paths, Pending, Finding, Fresh, Open
<1>5. Victim'
  BY <1>1 DEF IInv, Victim, TypeOK, Paths, Said, Fresh, There, Marked, Graceful, HasClaim
<1>6. Breached'
  BY <1>1 DEF IInv, Breached, TypeOK, Said, Victim, Pending, Fresh, Open, There, Marked
<1>7. Unmade'
  BY <1>1 DEF IInv, Unmade, TypeOK, Paths, Victim, RequiresExisting
<1>8. LabelsLeft'
  BY <1>1 DEF IInv, LabelsLeft, TypeOK, Paths, Said, Victim, Fresh, There, Marked
<1>9. LeftSoFar'
  BY <1>1 DEF IInv, LeftSoFar, Kept, TypeOK, Paths, Said, Victim, Open, Fresh, There,
              RequiresExisting, HasClaim
<1> QED
  BY <1>2, <1>3, <1>4, <1>5, <1>6, <1>7, <1>8, <1>9 DEF IInv
LEMMA ShowNodeStep == IInv /\ ShowNode => IInv'
<1> SUFFICES ASSUME IInv, ShowNode
             PROVE  IInv'
  OBVIOUS
<1>1. /\ real = "hidden" /\ real' = "present"
      /\ UNCHANGED <<kind, op, shared, phase, pc, target, object, copy, claim, marks, saved,
                     trigger, polls, moved, outcome, result, took, ok, blind, denied, woes, litter>>
  BY DEF ShowNode, Others, scene, Woe, Probing, IInv, TypeOK
<1>2. TypeOK'
  BY <1>1 DEF IInv, TypeOK, Kinds, Operations, Status, Labels, Level, Authorization, HasClaim
<1>3. Paths'
  BY <1>1 DEF IInv, Paths, TypeOK, Operations, RequiresExisting, HasClaim
<1>4. Said'
  BY <1>1 DEF IInv, Said, TypeOK, Paths, Pending, Finding, Fresh, Open
<1>5. Victim'
  BY <1>1 DEF IInv, Victim, TypeOK, Paths, Said, Fresh, There, Marked, Graceful, HasClaim
<1>6. Breached'
  BY <1>1 DEF IInv, Breached, TypeOK, Said, Victim, Pending, Fresh, Open, There, Marked
<1>7. Unmade'
  BY <1>1 DEF IInv, Unmade, TypeOK, Paths, Victim, RequiresExisting
<1>8. LabelsLeft'
  BY <1>1 DEF IInv, LabelsLeft, TypeOK, Paths, Said, Victim, Fresh, There, Marked
<1>9. LeftSoFar'
  BY <1>1 DEF IInv, LeftSoFar, Kept, TypeOK, Paths, Said, Victim, Open, Fresh, There,
              RequiresExisting, HasClaim
<1> QED
  BY <1>2, <1>3, <1>4, <1>5, <1>6, <1>7, <1>8, <1>9 DEF IInv
LEMMA MoveNodeStep == IInv /\ MoveNode => IInv'
<1> SUFFICES ASSUME IInv, MoveNode
             PROVE  IInv'
  OBVIOUS
<1>1. /\ pc \in {"attempt", "verify"} /\ moved' = TRUE
      /\ UNCHANGED <<kind, op, shared, phase, pc, target, object, copy, claim, real, marks, saved,
                     trigger, polls, outcome, result, took, ok, blind, denied, woes, litter>>
  BY DEF MoveNode, Others, scene, Woe, Probing, IInv, TypeOK
<1>2. TypeOK'
  BY <1>1 DEF IInv, TypeOK, Kinds, Operations, Status, Labels, Level, Authorization, HasClaim
<1>3. Paths'
  BY <1>1 DEF IInv, Paths, TypeOK, Operations, RequiresExisting, HasClaim
<1>4. Said'
  BY <1>1 DEF IInv, Said, TypeOK, Paths, Pending, Finding, Fresh, Open
<1>5. Victim'
  BY <1>1 DEF IInv, Victim, TypeOK, Paths, Said, Fresh, There, Marked, Graceful, HasClaim
<1>6. Breached'
  BY <1>1 DEF IInv, Breached, TypeOK, Said, Victim, Pending, Fresh, Open, There, Marked
<1>7. Unmade'
  BY <1>1 DEF IInv, Unmade, TypeOK, Paths, Victim, RequiresExisting
<1>8. LabelsLeft'
  BY <1>1 DEF IInv, LabelsLeft, TypeOK, Paths, Said, Victim, Fresh, There, Marked
<1>9. LeftSoFar'
  BY <1>1 DEF IInv, LeftSoFar, Kept, TypeOK, Paths, Said, Victim, Open, Fresh, There,
              RequiresExisting, HasClaim
<1> QED
  BY <1>2, <1>3, <1>4, <1>5, <1>6, <1>7, <1>8, <1>9 DEF IInv
-----------------------------------------------------------------------------
(***************************************************************************)
(* The object to try the operation on.                                     *)
(***************************************************************************)
LEMMA SetUpStep == IInv /\ SetUp => IInv'
<1> SUFFICES ASSUME IInv, SetUp
             PROVE  IInv'
  OBVIOUS
<1>1. PICK answer \in Creates("tenant1") :
        /\ object' = IF answer \in Effective THEN [Nothing EXCEPT !.is = "present"] ELSE object
        /\ claim' = IF answer \in Effective /\ HasClaim(kind) THEN "due" ELSE claim
        /\ Denial(answer)
        /\ IF answer \in Accepted
             THEN WithObject /\ Woe("discarded", answer = "inert")
             ELSE /\ WithoutObject(answer)
                  /\ woes' = woes \union {"unmade"} \union ({answer} \intersect {"lost"})
  BY DEF SetUp
<1>2. /\ pc = "setup" /\ answer \in {"done", "inert", "refused", "error", "lost", "taken"}
      /\ object' = IF answer \in {"done", "lost"}
                   THEN [is |-> "present", owner |-> "tenant1", label |-> "tenant1"] ELSE object
      /\ claim' = IF answer \in {"done", "lost"} /\ HasClaim(kind) THEN "due" ELSE claim
      /\ Denial(answer)
      /\ UNCHANGED <<kind, op, shared, phase, target, copy, real, marks, saved, trigger, polls,
                     moved, took, ok, blind, litter>>
  BY <1>1 DEF SetUp, Creates, Accepted, Errors, Effective, Reaches, Nothing, scene, IInv, TypeOK
<1>3. /\ object' \in [is : Status, owner : {"tenant1", "tenant2"}, label : {"tenant1", "tenant2"}]
      /\ answer \in {"done", "lost"} => object'.is = "present"
      /\ answer \notin {"done", "lost"} => object'.is = object.is
      /\ object'.owner \in {"tenant1", object.owner} /\ object'.label \in {"tenant1", object.label}
      /\ claim' \in {"none", "due", "made"} /\ (claim' # claim => claim' = "due" /\ HasClaim(kind))
      /\ claim' # claim => answer \in {"done", "lost"}
      /\ denied' \in BOOLEAN /\ (denied' <=> (denied \/ answer = "refused"))
  BY <1>1, <1>2, Refusal DEF Status, IInv, TypeOK
<1>4. /\ answer \in {"done", "inert"} =>
         /\ woes' = IF answer = "inert" THEN woes \union {"discarded"} ELSE woes
         /\ UNCHANGED result
         /\ IF phase = "authorize" /\ op = "Create" THEN pc' = "cleanup" /\ outcome' = "allowed"
            ELSE /\ UNCHANGED outcome
                 /\ pc' = IF phase = "authorize" /\ op = "Delete" THEN "exists" ELSE "attempt"
  BY <1>1, <1>2, <1>3 DEF WithObject, Accepted, Woe, Goto, Answer, Verdict, Undecided, IInv,
                          TypeOK
<1>5. /\ answer \notin {"done", "inert"} =>
         /\ woes' = woes \union {"unmade"} \union (IF answer = "lost" THEN {"lost"} ELSE {})
         /\ \/ /\ phase = "authorize" /\ op \in {"Get", "Update"} /\ pc' = "list"
               /\ UNCHANGED <<outcome, result>>
            \/ /\ phase = "authorize" /\ op \in {"Create", "Delete"} /\ pc' = "conclude"
               /\ outcome' = IF op = "Create" \/ answer = "refused" THEN "forbidden" ELSE "undetermined"
               /\ UNCHANGED result
            \/ /\ phase = "cross" /\ RequiresExisting(kind) /\ op \in {"Update", "Delete"}
               /\ pc' = "existing" /\ UNCHANGED <<outcome, result>>
            \/ /\ phase = "cross" /\ ~(RequiresExisting(kind) /\ op \in {"Update", "Delete"})
               /\ pc' = "conclude" /\ UNCHANGED outcome
               /\ result' \in Finding /\ result'.isolation \in {"Soft", "Unknown"}
  BY <1>1, <1>2, <1>3, <1>4, Given DEF WithoutObject, Accepted, Level, Goto, Answer, Undecided,
                                       IInv, TypeOK
<1>6. TypeOK'
  BY <1>1, <1>2, <1>3, <1>4, <1>5 DEF IInv, TypeOK, Kinds, Operations, Status, Labels, Level,
                                      Authorization, HasClaim
<1>7. Paths'
  BY <1>1, <1>2, <1>3, <1>4, <1>5 DEF IInv, Paths, TypeOK, Operations, RequiresExisting, HasClaim
<1>8. Said'
  BY <1>1, <1>2, <1>3, <1>4, <1>5 DEF IInv, Said, TypeOK, Paths, Pending, Finding, Fresh, Open
<1>9. Victim'
  BY <1>1, <1>2, <1>3, <1>4, <1>5 DEF IInv, Victim, TypeOK, Paths, Said, Fresh, There, Marked,
                                      Graceful, HasClaim
<1>10. Breached'
  BY <1>1, <1>2, <1>3, <1>4, <1>5 DEF IInv, Breached, TypeOK, Said, Victim, Pending, Fresh, Open,
                                      There, Marked
<1>11. Unmade'
  BY <1>1, <1>2, <1>3, <1>4, <1>5 DEF IInv, Unmade, TypeOK, Paths, Victim, RequiresExisting
<1>12. LabelsLeft'
  BY <1>1, <1>2, <1>3, <1>4, <1>5 DEF IInv, LabelsLeft, TypeOK, Paths, Said, Victim, Fresh, There,
                                      Marked
<1>13. LeftSoFar'
  BY <1>1, <1>2, <1>3, <1>4, <1>5 DEF IInv, LeftSoFar, Kept, TypeOK, Paths, Said, Victim, Open,
                                      Fresh, There, RequiresExisting, HasClaim
<1> QED
  BY <1>6, <1>7, <1>8, <1>9, <1>10, <1>11, <1>12, <1>13 DEF IInv
LEMMA ListFirstStep == IInv /\ ListFirst => IInv'
<1> SUFFICES ASSUME IInv, ListFirst
             PROVE  IInv'
  OBVIOUS
<1>1. /\ pc = "list"
      /\ \/ /\ pc' = "attempt" /\ UNCHANGED <<outcome, denied>>
            /\ \/ target' = "real" /\ real = "present"
               \/ target' = "found" /\ object.is = "present"
         \/ /\ UNCHANGED target
            /\ denied' \in BOOLEAN
            /\ \/ op = "Get" /\ pc' = "attempt" /\ UNCHANGED outcome
               \/ op # "Get" /\ pc' = "conclude" /\ outcome' = "forbidden"
      /\ UNCHANGED <<kind, op, shared, phase, object, copy, claim, real, marks, saved, trigger,
                     polls, moved, result, took, ok, blind, woes, litter>>
  BY Refusal DEF ListFirst, Searching, scene, Items, Errors, Goto, Answer, Undecided, Woe, IInv,
                 TypeOK
<1>2. TypeOK'
  BY <1>1 DEF IInv, TypeOK, Kinds, Operations, Status, Labels, Level, Authorization, HasClaim
<1>3. Paths'
  BY <1>1 DEF IInv, Paths, TypeOK, Operations, RequiresExisting, HasClaim
<1>4. Said'
  BY <1>1 DEF IInv, Said, TypeOK, Paths, Pending, Finding, Fresh, Open
<1>5. Victim'
  BY <1>1 DEF IInv, Victim, TypeOK, Paths, Said, Fresh, There, Marked, Graceful, HasClaim
<1>6. Breached'
  BY <1>1 DEF IInv, Breached, TypeOK, Said, Victim, Pending, Fresh, Open, There, Marked
<1>7. Unmade'
  BY <1>1 DEF IInv, Unmade, TypeOK, Paths, Victim, RequiresExisting
<1>8. LabelsLeft'
  BY <1>1 DEF IInv, LabelsLeft, TypeOK, Paths, Said, Victim, Fresh, There, Marked
<1>9. LeftSoFar'
  BY <1>1 DEF IInv, LeftSoFar, Kept, TypeOK, Paths, Said, Victim, Open, Fresh, There,
              RequiresExisting, HasClaim
<1> QED
  BY <1>2, <1>3, <1>4, <1>5, <1>6, <1>7, <1>8, <1>9 DEF IInv
LEMMA FindNodeStep == IInv /\ FindNode => IInv'
<1> SUFFICES ASSUME IInv, FindNode
             PROVE  IInv'
  OBVIOUS
<1>1. /\ pc = "existing"
      /\ \/ /\ \/ target' = "real" /\ real = "present"
               \/ target' = "found" /\ object.is = "present"
            /\ pc' = IF phase = "authorize" \/ op = "Get" THEN "attempt"
                     ELSE IF op = "Delete" THEN "review" ELSE "snapshot"
         \/ pc' = "trigger" /\ UNCHANGED target
      /\ UNCHANGED <<kind, op, shared, phase, object, copy, claim, real, marks, saved, trigger,
                     polls, moved, outcome, result, took, ok, blind, denied, woes, litter>>
  BY DEF FindNode, Searching, scene, Items, Errors, Goto, Answer, Undecided, Woe, Found, IInv,
         TypeOK
<1>2. TypeOK'
  BY <1>1 DEF IInv, TypeOK, Kinds, Operations, Status, Labels, Level, Authorization, HasClaim
<1>3. Paths'
  BY <1>1 DEF IInv, Paths, TypeOK, Operations, RequiresExisting, HasClaim
<1>4. Said'
  BY <1>1 DEF IInv, Said, TypeOK, Paths, Pending, Finding, Fresh, Open
<1>5. Victim'
  BY <1>1 DEF IInv, Victim, TypeOK, Paths, Said, Fresh, There, Marked, Graceful, HasClaim
<1>6. Breached'
  BY <1>1 DEF IInv, Breached, TypeOK, Said, Victim, Pending, Fresh, Open, There, Marked
<1>7. Unmade'
  BY <1>1 DEF IInv, Unmade, TypeOK, Paths, Victim, RequiresExisting
<1>8. LabelsLeft'
  BY <1>1 DEF IInv, LabelsLeft, TypeOK, Paths, Said, Victim, Fresh, There, Marked
<1>9. LeftSoFar'
  BY <1>1 DEF IInv, LeftSoFar, Kept, TypeOK, Paths, Said, Victim, Open, Fresh, There,
              RequiresExisting, HasClaim
<1> QED
  BY <1>2, <1>3, <1>4, <1>5, <1>6, <1>7, <1>8, <1>9 DEF IInv
LEMMA NothingFound ==
  ASSUME TypeOK, NotFound
  PROVE
  \/ /\ phase = "authorize" /\ outcome' = "forbidden" /\ pc' = "conclude" /\ UNCHANGED result
  \/ phase = "cross" /\ op = "List" /\ pc' = "snapshot" /\ UNCHANGED <<outcome, result>>
  \/ /\ phase = "cross" /\ op # "List" /\ pc' = "conclude" /\ UNCHANGED outcome
     /\ result' \in Finding /\ result'.isolation = "Unknown"
BY Given DEF NotFound, Answer, Undecided, Goto, TypeOK, Level
LEMMA CreateTriggerStep == IInv /\ CreateTrigger => IInv'
<1> SUFFICES ASSUME IInv, CreateTrigger
             PROVE  IInv'
  OBVIOUS
<1>1. PICK answer \in Creates("tenant1") \ {"taken"} :
        /\ trigger' = IF answer \in Effective THEN "present" ELSE trigger
        /\ Woe("lost", answer = "lost")
        /\ Denial(answer)
        /\ IF answer \in Accepted THEN Goto("poll") /\ Undecided ELSE NotFound
  BY DEF CreateTrigger
<1>2. /\ pc = "trigger"
      /\ trigger' \in {"present", trigger}
      /\ woes' = IF answer = "lost" THEN woes \union {"lost"} ELSE woes
      /\ denied' \in BOOLEAN
      /\ trigger' = "present" => trigger = "present" \/ pc' = "poll" \/ "lost" \in woes'
      /\ \/ pc' = "poll" /\ UNCHANGED <<outcome, result>>
         \/ /\ phase = "authorize" /\ outcome' = "forbidden" /\ pc' = "conclude" /\ UNCHANGED result
         \/ phase = "cross" /\ op = "List" /\ pc' = "snapshot" /\ UNCHANGED <<outcome, result>>
         \/ /\ phase = "cross" /\ op # "List" /\ pc' = "conclude" /\ UNCHANGED outcome
            /\ result' \in Finding /\ result'.isolation = "Unknown"
      /\ UNCHANGED <<kind, op, shared, phase, target, object, copy, claim, real, marks, saved,
                     polls, moved, took, ok, blind, litter>>
  BY <1>1, Refusal, NothingFound DEF CreateTrigger, Searching, scene, Creates, Accepted,
                                     Effective, Goto, Undecided, Woe, IInv, TypeOK
<1>3. TypeOK'
  BY <1>1, <1>2 DEF IInv, TypeOK, Kinds, Operations, Status, Labels, Level, Authorization,
                    HasClaim
<1>4. Paths'
  BY <1>1, <1>2 DEF IInv, Paths, TypeOK, Operations, RequiresExisting, HasClaim
<1>5. Said'
  BY <1>1, <1>2 DEF IInv, Said, TypeOK, Paths, Pending, Finding, Fresh, Open
<1>6. Victim'
  BY <1>1, <1>2 DEF IInv, Victim, TypeOK, Paths, Said, Fresh, There, Marked, Graceful, HasClaim
<1>7. Breached'
  BY <1>1, <1>2 DEF IInv, Breached, TypeOK, Said, Victim, Pending, Fresh, Open, There, Marked
<1>8. Unmade'
  BY <1>1, <1>2 DEF IInv, Unmade, TypeOK, Paths, Victim, RequiresExisting
<1>9. LabelsLeft'
  BY <1>1, <1>2 DEF IInv, LabelsLeft, TypeOK, Paths, Said, Victim, Fresh, There, Marked
<1>10. LeftSoFar'
  BY <1>1, <1>2 DEF IInv, LeftSoFar, Kept, TypeOK, Paths, Said, Victim, Open, Fresh, There,
                    RequiresExisting, HasClaim
<1> QED
  BY <1>3, <1>4, <1>5, <1>6, <1>7, <1>8, <1>9, <1>10 DEF IInv
LEMMA PollNodesStep == IInv /\ PollNodes => IInv'
<1> SUFFICES ASSUME IInv, PollNodes
             PROVE  IInv'
  OBVIOUS
<1>1. /\ pc = "poll"
      /\ \/ /\ \/ target' = "real" /\ real = "present"
               \/ target' = "found" /\ object.is = "present"
            /\ pc' = "untrigger" /\ UNCHANGED polls
         \/ polls < PollAttempts /\ polls' = polls + 1 /\ UNCHANGED <<target, pc>>
         \/ pc' = "untrigger" /\ UNCHANGED <<target, polls>>
      /\ UNCHANGED <<kind, op, shared, phase, object, copy, claim, real, marks, saved, trigger,
                     moved, outcome, result, took, ok, blind, denied, woes, litter>>
  BY DEF PollNodes, Searching, scene, Items, Errors, Goto, Answer, Undecided, Woe, IInv, TypeOK
<1>2. TypeOK'
  BY <1>1, PollAssumption DEF IInv, TypeOK, Kinds, Operations, Status, Labels, Level,
                              Authorization, HasClaim
<1>3. Paths'
  BY <1>1 DEF IInv, Paths, TypeOK, Operations, RequiresExisting, HasClaim
<1>4. Said'
  BY <1>1 DEF IInv, Said, TypeOK, Paths, Pending, Finding, Fresh, Open
<1>5. Victim'
  BY <1>1 DEF IInv, Victim, TypeOK, Paths, Said, Fresh, There, Marked, Graceful, HasClaim
<1>6. Breached'
  BY <1>1 DEF IInv, Breached, TypeOK, Said, Victim, Pending, Fresh, Open, There, Marked
<1>7. Unmade'
  BY <1>1 DEF IInv, Unmade, TypeOK, Paths, Victim, RequiresExisting
<1>8. LabelsLeft'
  BY <1>1 DEF IInv, LabelsLeft, TypeOK, Paths, Said, Victim, Fresh, There, Marked
<1>9. LeftSoFar'
  BY <1>1 DEF IInv, LeftSoFar, Kept, TypeOK, Paths, Said, Victim, Open, Fresh, There,
              RequiresExisting, HasClaim
<1> QED
  BY <1>2, <1>3, <1>4, <1>5, <1>6, <1>7, <1>8, <1>9 DEF IInv
LEMMA DeleteTriggerStep == IInv /\ DeleteTrigger => IInv'
<1> SUFFICES ASSUME IInv, DeleteTrigger
             PROVE  IInv'
  OBVIOUS
<1>1. /\ pc = "untrigger"
      /\ \/ trigger' = "absent" /\ UNCHANGED woes
         \/ UNCHANGED trigger /\ woes' = woes \union {"undeleted"}
      /\ \/ /\ target # "test" /\ UNCHANGED <<outcome, result>>
            /\ pc' = IF phase = "authorize" \/ op = "Get" THEN "attempt"
                     ELSE IF op = "Delete" THEN "review" ELSE "snapshot"
         \/ target = "test" /\ (
             \/ /\ phase = "authorize" /\ outcome' = "forbidden" /\ pc' = "conclude" /\ UNCHANGED result
             \/ phase = "cross" /\ op = "List" /\ pc' = "snapshot" /\ UNCHANGED <<outcome, result>>
             \/ /\ phase = "cross" /\ op # "List" /\ pc' = "conclude" /\ UNCHANGED outcome
                /\ result' \in Finding /\ result'.isolation = "Unknown")
      /\ UNCHANGED <<kind, op, shared, phase, target, object, copy, claim, real, marks, saved,
                     polls, moved, took, ok, blind, denied, litter>>
  BY NothingFound DEF DeleteTrigger, Searching, scene, Goto, Undecided, Found, Woe, IInv, TypeOK
<1>2. /\ pc' \in Labels /\ outcome' \in Authorization \union {"pending"} /\ result' \in Finding
      /\ trigger' \in Status /\ woes' \subseteq woes \union {"undeleted"}
  BY <1>1 DEF Labels, Authorization, Status, IInv, TypeOK
<1>3. TypeOK'
  BY <1>1, <1>2 DEF IInv, TypeOK, Kinds, Operations, Status, Labels, Level, Authorization,
                    HasClaim
<1>4. Paths'
  BY <1>1, <1>2 DEF IInv, Paths, TypeOK, Operations, RequiresExisting, HasClaim
<1>5. Said'
  BY <1>1, <1>2 DEF IInv, Said, TypeOK, Paths, Pending, Finding, Fresh, Open
<1>6. Victim'
  BY <1>1, <1>2 DEF IInv, Victim, TypeOK, Paths, Said, Fresh, There, Marked, Graceful, HasClaim
<1>7. Breached'
  BY <1>1, <1>2 DEF IInv, Breached, TypeOK, Said, Victim, Pending, Fresh, Open, There, Marked
<1>8. Unmade'
  BY <1>1, <1>2 DEF IInv, Unmade, TypeOK, Paths, Victim, RequiresExisting
<1>9. LabelsLeft'
  BY <1>1, <1>2 DEF IInv, LabelsLeft, TypeOK, Paths, Said, Victim, Fresh, There, Marked
<1>10. LeftSoFar'
  BY <1>1, <1>2 DEF IInv, LeftSoFar, Kept, TypeOK, Paths, Said, Victim, Open, Fresh, There,
                    RequiresExisting, HasClaim
<1> QED
  BY <1>3, <1>4, <1>5, <1>6, <1>7, <1>8, <1>9, <1>10 DEF IInv
-----------------------------------------------------------------------------
(***************************************************************************)
(* Tenant 1 on its own.                                                    *)
(***************************************************************************)
LEMMA TryGetStep == IInv /\ TryGet => IInv'
<1> SUFFICES ASSUME IInv, TryGet
             PROVE  IInv'
  OBVIOUS
<1>1. /\ pc = "attempt" /\ phase = "authorize" /\ op = "Get"
      /\ outcome' \in {"allowed", "forbidden"} /\ denied' \in BOOLEAN
      /\ pc' = IF target = "test" THEN "cleanup" ELSE "conclude"
      /\ UNCHANGED <<kind, op, shared, phase, target, object, copy, claim, real, marks, saved,
                     trigger, polls, moved, result, took, ok, blind, woes, litter>>
  BY Refusal DEF TryGet, Alone, scene, Goto, Answer, Undecided, Allow, AfterVerdict, AfterDelete,
                 Woe, IInv, TypeOK
<1>2. TypeOK'
  BY <1>1 DEF IInv, TypeOK, Kinds, Operations, Status, Labels, Level, Authorization, HasClaim
<1>3. Paths'
  BY <1>1 DEF IInv, Paths, TypeOK, Operations, RequiresExisting, HasClaim
<1>4. Said'
  BY <1>1 DEF IInv, Said, TypeOK, Paths, Pending, Finding, Fresh, Open
<1>5. Victim'
  BY <1>1 DEF IInv, Victim, TypeOK, Paths, Said, Fresh, There, Marked, Graceful, HasClaim
<1>6. Breached'
  BY <1>1 DEF IInv, Breached, TypeOK, Said, Victim, Pending, Fresh, Open, There, Marked
<1>7. Unmade'
  BY <1>1 DEF IInv, Unmade, TypeOK, Paths, Victim, RequiresExisting
<1>8. LabelsLeft'
  BY <1>1 DEF IInv, LabelsLeft, TypeOK, Paths, Said, Victim, Fresh, There, Marked
<1>9. LeftSoFar'
  BY <1>1 DEF IInv, LeftSoFar, Kept, TypeOK, Paths, Said, Victim, Open, Fresh, There,
              RequiresExisting, HasClaim
<1> QED
  BY <1>2, <1>3, <1>4, <1>5, <1>6, <1>7, <1>8, <1>9 DEF IInv
LEMMA TryListStep == IInv /\ TryList => IInv'
<1> SUFFICES ASSUME IInv, TryList
             PROVE  IInv'
  OBVIOUS
<1>1. /\ pc = "attempt" /\ phase = "authorize" /\ op = "List"
      /\ outcome' \in {"allowed", "forbidden"} /\ denied' \in BOOLEAN
      /\ pc' = "conclude"
      /\ UNCHANGED <<kind, op, shared, phase, target, object, copy, claim, real, marks, saved,
                     trigger, polls, moved, result, took, ok, blind, woes, litter>>
  BY Refusal DEF TryList, Alone, scene, Goto, Answer, Undecided, Allow, AfterVerdict, AfterDelete,
                 Woe, IInv, TypeOK
<1>2. TypeOK'
  BY <1>1 DEF IInv, TypeOK, Kinds, Operations, Status, Labels, Level, Authorization, HasClaim
<1>3. Paths'
  BY <1>1 DEF IInv, Paths, TypeOK, Operations, RequiresExisting, HasClaim
<1>4. Said'
  BY <1>1 DEF IInv, Said, TypeOK, Paths, Pending, Finding, Fresh, Open
<1>5. Victim'
  BY <1>1 DEF IInv, Victim, TypeOK, Paths, Said, Fresh, There, Marked, Graceful, HasClaim
<1>6. Breached'
  BY <1>1 DEF IInv, Breached, TypeOK, Said, Victim, Pending, Fresh, Open, There, Marked
<1>7. Unmade'
  BY <1>1 DEF IInv, Unmade, TypeOK, Paths, Victim, RequiresExisting
<1>8. LabelsLeft'
  BY <1>1 DEF IInv, LabelsLeft, TypeOK, Paths, Said, Victim, Fresh, There, Marked
<1>9. LeftSoFar'
  BY <1>1 DEF IInv, LeftSoFar, Kept, TypeOK, Paths, Said, Victim, Open, Fresh, There,
              RequiresExisting, HasClaim
<1> QED
  BY <1>2, <1>3, <1>4, <1>5, <1>6, <1>7, <1>8, <1>9 DEF IInv
LEMMA TryUpdateStep == IInv /\ TryUpdate => IInv'
<1> SUFFICES ASSUME IInv, TryUpdate
             PROVE  IInv'
  OBVIOUS
<1>1. /\ pc = "attempt" /\ phase = "authorize" /\ op = "Update"
      /\ outcome' \in {"allowed", "forbidden"} /\ denied' \in BOOLEAN
      /\ marks' \in {marks, marks \union {"autonomy"}}
      /\ woes' \in {woes, woes \union {"unreverted"}}
      /\ marks' # marks =>
            target = "real" /\ (pc' = "revert" \/ "unreverted" \in woes')
      /\ pc' = "revert" => target # "test"
      /\ pc' \in {"revert", IF target = "test" THEN "cleanup" ELSE "conclude"}
      /\ UNCHANGED <<kind, op, shared, phase, target, object, copy, claim, real, saved, trigger,
                     polls, moved, result, took, ok, blind, litter>>
  BY Refusal DEF TryUpdate, Alone, scene, Goto, Answer, Undecided, Allow, AfterVerdict,
                 AfterDelete, Woe, Writes, Accepted, Effective, Errors, IInv, TypeOK
<1>2. TypeOK'
  BY <1>1 DEF IInv, TypeOK, Kinds, Operations, Status, Labels, Level, Authorization, HasClaim
<1>3. Paths'
  BY <1>1 DEF IInv, Paths, TypeOK, Operations, RequiresExisting, HasClaim
<1>4. Said'
  BY <1>1 DEF IInv, Said, TypeOK, Paths, Pending, Finding, Fresh, Open
<1>5. Victim'
  BY <1>1 DEF IInv, Victim, TypeOK, Paths, Said, Fresh, There, Marked, Graceful, HasClaim
<1>6. Breached'
  BY <1>1 DEF IInv, Breached, TypeOK, Said, Victim, Pending, Fresh, Open, There, Marked
<1>7. Unmade'
  BY <1>1 DEF IInv, Unmade, TypeOK, Paths, Victim, RequiresExisting
<1>8. LabelsLeft'
  BY <1>1 DEF IInv, LabelsLeft, TypeOK, Paths, Said, Victim, Fresh, There, Marked
<1>9. LeftSoFar'
  BY <1>1 DEF IInv, LeftSoFar, Kept, TypeOK, Paths, Said, Victim, Open, Fresh, There,
              RequiresExisting, HasClaim
<1> QED
  BY <1>2, <1>3, <1>4, <1>5, <1>6, <1>7, <1>8, <1>9 DEF IInv
LEMMA FindVictimStep == IInv /\ FindVictim => IInv'
<1> SUFFICES ASSUME IInv, FindVictim
             PROVE  IInv'
  OBVIOUS
<1>1. /\ pc = "exists"
      /\ \/ pc' = "attempt" /\ UNCHANGED <<outcome, blind>>
         \/ /\ pc' = (IF HasClaim(kind) THEN "claim" ELSE "conclude")
            /\ outcome' = "ineffective" /\ blind' \in BOOLEAN /\ (There => blind')
      /\ UNCHANGED <<kind, op, shared, phase, target, object, copy, claim, real, marks, saved,
                     trigger, polls, moved, result, took, ok, denied, woes, litter>>
  BY Blinded DEF FindVictim, Alone, scene, Goto, Answer, Undecided, Allow, AfterVerdict,
                 AfterDelete, Woe, There, IInv, TypeOK
<1>2. TypeOK'
  BY <1>1 DEF IInv, TypeOK, Kinds, Operations, Status, Labels, Level, Authorization, HasClaim
<1>3. Paths'
  BY <1>1 DEF IInv, Paths, TypeOK, Operations, RequiresExisting, HasClaim
<1>4. Said'
  BY <1>1 DEF IInv, Said, TypeOK, Paths, Pending, Finding, Fresh, Open, There
<1>5. Victim'
  BY <1>1 DEF IInv, Victim, TypeOK, Paths, Said, Fresh, There, Marked, Graceful, HasClaim
<1>6. Breached'
  BY <1>1 DEF IInv, Breached, TypeOK, Said, Victim, Pending, Fresh, Open, There, Marked
<1>7. Unmade'
  BY <1>1 DEF IInv, Unmade, TypeOK, Paths, Victim, RequiresExisting
<1>8. LabelsLeft'
  BY <1>1 DEF IInv, LabelsLeft, TypeOK, Paths, Said, Victim, Fresh, There, Marked
<1>9. LeftSoFar'
  BY <1>1 DEF IInv, LeftSoFar, Kept, TypeOK, Paths, Said, Victim, Open, Fresh, There,
              RequiresExisting, HasClaim
<1> QED
  BY <1>2, <1>3, <1>4, <1>5, <1>6, <1>7, <1>8, <1>9 DEF IInv
LEMMA TryDeleteStep == IInv /\ TryDelete => IInv'
<1> SUFFICES ASSUME IInv, TryDelete
             PROVE  IInv'
  OBVIOUS
<1>1. PICK answer \in Writes("tenant1") :
        /\ object' \in IF answer \in Effective THEN Deleted(object) ELSE {object}
        /\ Woe("undeleted", There /\ answer \notin Effective)
        /\ Denial(answer)
        /\ Answer(IF answer \in Accepted THEN "allowed"
                  ELSE IF answer = "refused" THEN "forbidden" ELSE "undetermined")
  BY DEF TryDelete
<1>2. /\ pc = "attempt" /\ phase = "authorize" /\ op = "Delete"
      /\ pc' = IF HasClaim(kind) THEN "claim" ELSE "conclude"
      /\ object' \in [is : Status, owner : {"tenant1", "tenant2"}, label : {"tenant1", "tenant2"}]
      /\ object'.owner = object.owner /\ object'.label = object.label
      /\ object'.is = "present" => answer \notin {"done", "lost"} /\ object.is = "present"
      /\ object'.is = "terminating" => object.is = "terminating" \/ Graceful(kind)
      /\ object.is = "absent" => object'.is = "absent"
      /\ answer \notin {"done", "lost"} => object'.is = object.is
      /\ woes' = IF There /\ answer \notin {"done", "lost"} THEN woes \union {"undeleted"} ELSE woes
      /\ outcome' \in {"allowed", "forbidden", "undetermined"}
      /\ outcome' = "forbidden" <=> answer = "refused"
      /\ denied' \in BOOLEAN /\ (denied' <=> (denied \/ answer = "refused"))
      /\ UNCHANGED <<kind, op, shared, phase, target, copy, claim, real, marks, saved, trigger,
                     polls, moved, result, took, ok, blind, litter>>
  BY <1>1, Refusal, Removal DEF TryDelete, Alone, scene, Goto, Answer, Undecided, Allow,
                                AfterVerdict, AfterDelete, Woe, Accepted, Effective, IInv, TypeOK
<1>3. TypeOK'
  BY <1>1, <1>2 DEF IInv, TypeOK, Kinds, Operations, Status, Labels, Level, Authorization,
                    HasClaim
<1>4. Paths'
  BY <1>1, <1>2 DEF IInv, Paths, TypeOK, Operations, RequiresExisting, HasClaim
<1>5. Said'
  BY <1>1, <1>2 DEF IInv, Said, TypeOK, Paths, Pending, Finding, Fresh, Open
<1>6. Victim'
  BY <1>1, <1>2 DEF IInv, Victim, TypeOK, Paths, Said, Fresh, There, Marked, Graceful, HasClaim
<1>7. Breached'
  BY <1>1, <1>2 DEF IInv, Breached, TypeOK, Said, Victim, Pending, Fresh, Open, There, Marked
<1>8. Unmade'
  BY <1>1, <1>2 DEF IInv, Unmade, TypeOK, Paths, Victim, RequiresExisting
<1>9. LabelsLeft'
  BY <1>1, <1>2 DEF IInv, LabelsLeft, TypeOK, Paths, Said, Victim, Fresh, There, Marked
<1>10. LeftSoFar'
  BY <1>1, <1>2 DEF IInv, LeftSoFar, Kept, TypeOK, Paths, Said, Victim, Open, Fresh, There,
                    RequiresExisting, HasClaim
<1> QED
  BY <1>3, <1>4, <1>5, <1>6, <1>7, <1>8, <1>9, <1>10 DEF IInv
-----------------------------------------------------------------------------
(***************************************************************************)
(* Tenant 2 on the object of tenant 1.                                     *)
(***************************************************************************)
LEMMA Taken ==
  ASSUME NEW answer, NEW effective \in BOOLEAN, Intrude(answer, effective)
  PROVE  /\ took' \in BOOLEAN /\ (took' <=> effective)
         /\ ok' \in BOOLEAN /\ (ok' <=> answer \in {"done", "inert"})
<1>1. took' = effective /\ ok' = (answer \in {"done", "inert"})
  BY DEF Intrude, Accepted
<1>2. CASE answer \in {"done", "inert"}
  BY <1>1, <1>2
<1>3. CASE answer \notin {"done", "inert"}
  <2>1. (answer \in {"done", "inert"}) = FALSE
    BY <1>3
  <2>2. ok' = FALSE
    BY <1>1, <2>1
  <2> QED
    BY <1>1, <1>3, <2>2
<1> QED
  BY <1>2, <1>3

LEMMA TakenIfEffective ==
  ASSUME NEW answer, Intrude(answer, answer \in Effective)
  PROVE  took' \in BOOLEAN /\ ok' \in BOOLEAN /\ (ok' <=> answer \in {"done", "inert"})
<1> DEFINE effective == answer \in Effective
<1>1. effective \in BOOLEAN /\ Intrude(answer, effective)
  OBVIOUS
<1> HIDE DEF effective
<1> QED
  BY <1>1, Taken

LEMMA Copied ==
  ASSUME NEW answer, TypeOK, copy' = (~shared /\ answer \in Effective)
  PROVE  copy' \in BOOLEAN /\ (copy' => ~shared)
<1>1. CASE ~shared /\ answer \in Effective
  BY <1>1 DEF TypeOK
<1>2. CASE ~(~shared /\ answer \in Effective)
  BY <1>2 DEF TypeOK
<1> QED
  BY <1>1, <1>2

LEMMA Levels ==
  /\ \A answer : InferIsolation(answer) \in {"Soft", "Hard"}
  /\ {"Soft", "Hard", "None", "Unknown"} \subseteq Level
BY DEF InferIsolation, Level

LEMMA Inferred ==
  ASSUME NEW answer, Verdict(TRUE, InferIsolation(answer))
  PROVE  result' \in Finding /\ result'.isolation \in {"Soft", "Hard"} /\ UNCHANGED outcome
BY Given, Levels
LEMMA IntrudeCreateStep == IInv /\ IntrudeCreate => IInv'
<1> SUFFICES ASSUME IInv, IntrudeCreate
             PROVE  IInv'
  OBVIOUS
<1>1. PICK answer \in Creates("tenant2") :
        /\ Intrude(answer, shared /\ answer \in Effective)
        /\ object' = IF took' THEN [object EXCEPT !.is = "present", !.owner = "tenant2"] ELSE object
        /\ copy' = (~shared /\ answer \in Effective)
        /\ IF answer \in Accepted THEN Goto("verify") /\ Undecided
           ELSE Verdict(TRUE, InferIsolation(answer)) /\ Goto("cleanup")
  BY DEF IntrudeCreate
<1>2. /\ pc = "attempt" /\ phase = "cross" /\ op = "Create" /\ target = "test"
      /\ UNCHANGED <<kind, op, shared, phase, target, claim, real, marks, saved, trigger, polls,
                     moved, blind, denied, woes, litter>>
  BY <1>1 DEF IntrudeCreate, Intruding, scene, Paths, IInv, TypeOK
<1>3. /\ took' \in BOOLEAN /\ ok' \in BOOLEAN /\ (ok' <=> answer \in {"done", "inert"})
      /\ copy' \in BOOLEAN /\ (copy' => ~shared)
  BY <1>1, <1>2, Taken, Copied DEF IInv, TypeOK
<1>4. /\ object' \in [is : Status, owner : {"tenant1", "tenant2"}, label : {"tenant1", "tenant2"}]
      /\ took' => object'.is = "present" /\ object'.owner = "tenant2"
      /\ ~took' => object'.is = object.is /\ object'.owner = object.owner
      /\ object'.label = object.label
  BY <1>1, <1>2, <1>3 DEF Status, IInv, TypeOK
<1>5. /\ \/ /\ pc' = "verify" /\ UNCHANGED <<outcome, result>>
         \/ /\ pc' = (IF target = "test" THEN "cleanup" ELSE "conclude") /\ UNCHANGED outcome
            /\ ~ok' /\ result' \in Finding /\ result'.isolation \in {"Soft", "Hard"}
  BY <1>1, <1>2, <1>3, <1>4, Inferred DEF Accepted, Goto, Undecided, AfterVerdict, IInv, TypeOK
<1>6. TypeOK'
  BY <1>1, <1>2, <1>3, <1>4, <1>5 DEF IInv, TypeOK, Kinds, Operations, Status, Labels, Level,
                                      Authorization, HasClaim
<1>7. Paths'
  BY <1>1, <1>2, <1>3, <1>4, <1>5 DEF IInv, Paths, TypeOK, Operations, RequiresExisting, HasClaim
<1>8. Said'
  BY <1>1, <1>2, <1>3, <1>4, <1>5 DEF IInv, Said, TypeOK, Paths, Pending, Finding, Fresh, Open
<1>9. Victim'
  BY <1>1, <1>2, <1>3, <1>4, <1>5 DEF IInv, Victim, TypeOK, Paths, Said, Fresh, There, Marked,
                                      Graceful, HasClaim
<1>10. Breached'
  BY <1>1, <1>2, <1>3, <1>4, <1>5 DEF IInv, Breached, TypeOK, Said, Victim, Pending, Fresh, Open,
                                      There, Marked
<1>11. Unmade'
  BY <1>1, <1>2, <1>3, <1>4, <1>5 DEF IInv, Unmade, TypeOK, Paths, Victim, RequiresExisting
<1>12. LabelsLeft'
  BY <1>1, <1>2, <1>3, <1>4, <1>5 DEF IInv, LabelsLeft, TypeOK, Paths, Said, Victim, Fresh, There,
                                      Marked
<1>13. LeftSoFar'
  BY <1>1, <1>2, <1>3, <1>4, <1>5 DEF IInv, LeftSoFar, Kept, TypeOK, Paths, Said, Victim, Open,
                                      Fresh, There, RequiresExisting, HasClaim
<1> QED
  BY <1>6, <1>7, <1>8, <1>9, <1>10, <1>11, <1>12, <1>13 DEF IInv
LEMMA IntrudeReadEffect ==
  ASSUME IInv, IntrudeRead
  PROVE  /\ pc = "attempt" /\ phase = "cross" /\ target = "test" /\ pc' = "cleanup"
         /\ took' \in BOOLEAN /\ ok' \in BOOLEAN /\ result' \in Finding
         /\ result'.isolation \in {"None", "Soft", "Hard"}
         /\ took' <=> result'.isolation = "None"
         /\ UNCHANGED <<kind, op, shared, phase, target, object, copy, claim, real, marks, saved,
                        trigger, polls, moved, outcome, blind, denied, woes, litter>>
<1>1. PICK answer \in Reads("tenant2") :
             /\ Intrude(answer, answer = "done")
             /\ Verdict(TRUE, IF answer = "done" THEN "None"
                              ELSE IF answer = "inert" THEN "Hard" ELSE InferIsolation(answer))
  BY DEF IntrudeRead
<1>2. /\ took' \in BOOLEAN /\ ok' \in BOOLEAN
      /\ took' <=> answer = "done"
  BY <1>1, Taken
<1>3. /\ result' \in Finding /\ UNCHANGED outcome
      /\ result'.isolation \in {"None", "Soft", "Hard"}
      /\ result'.isolation = "None" <=> answer = "done"
  BY <1>1, Given, Levels
<1> QED
  BY <1>2, <1>3 DEF IntrudeRead, Intruding, scene, Goto
LEMMA IntrudeGetStep == IInv /\ IntrudeGet => IInv'
<1> SUFFICES ASSUME IInv, IntrudeGet
             PROVE  IInv'
  OBVIOUS
<1>1. /\ pc = "attempt" /\ phase = "cross" /\ target = "test" /\ pc' = "cleanup"
      /\ op \in {"Get", "List"} /\ (op = "List" => ~RequiresExisting(kind))
      /\ took' \in BOOLEAN /\ ok' \in BOOLEAN /\ result' \in Finding
      /\ result'.isolation \in {"None", "Soft", "Hard"}
      /\ took' <=> result'.isolation = "None"
      /\ UNCHANGED <<kind, op, shared, phase, target, object, copy, claim, real, marks, saved,
                     trigger, polls, moved, outcome, blind, denied, woes, litter>>
  BY IntrudeReadEffect DEF IntrudeGet, IInv, TypeOK
<1>2. TypeOK'
  BY <1>1 DEF IInv, TypeOK, Kinds, Operations, Status, Labels, Level, Authorization, HasClaim
<1>3. Paths'
  BY <1>1 DEF IInv, Paths, TypeOK, Operations, RequiresExisting, HasClaim
<1>4. Said'
  BY <1>1 DEF IInv, Said, TypeOK, Paths, Pending, Finding, Fresh, Open
<1>5. Victim'
  BY <1>1 DEF IInv, Victim, TypeOK, Paths, Said, Fresh, There, Marked, Graceful, HasClaim
<1>6. Breached'
  BY <1>1 DEF IInv, Breached, TypeOK, Said, Victim, Pending, Fresh, Open, There, Marked
<1>7. Unmade'
  BY <1>1 DEF IInv, Unmade, TypeOK, Paths, Victim, RequiresExisting
<1>8. LabelsLeft'
  BY <1>1 DEF IInv, LabelsLeft, TypeOK, Paths, Said, Victim, Fresh, There, Marked
<1>9. LeftSoFar'
  BY <1>1 DEF IInv, LeftSoFar, Kept, TypeOK, Paths, Said, Victim, Open, Fresh, There,
              RequiresExisting, HasClaim
<1> QED
  BY <1>2, <1>3, <1>4, <1>5, <1>6, <1>7, <1>8, <1>9 DEF IInv
LEMMA IntrudeListStep == IInv /\ IntrudeList => IInv'
<1> SUFFICES ASSUME IInv, IntrudeList
             PROVE  IInv'
  OBVIOUS
<1>1. /\ pc = "attempt" /\ phase = "cross" /\ target = "test" /\ pc' = "cleanup"
      /\ op \in {"Get", "List"} /\ (op = "List" => ~RequiresExisting(kind))
      /\ took' \in BOOLEAN /\ ok' \in BOOLEAN /\ result' \in Finding
      /\ result'.isolation \in {"None", "Soft", "Hard"}
      /\ took' <=> result'.isolation = "None"
      /\ UNCHANGED <<kind, op, shared, phase, target, object, copy, claim, real, marks, saved,
                     trigger, polls, moved, outcome, blind, denied, woes, litter>>
  BY IntrudeReadEffect DEF IntrudeList, IInv, TypeOK
<1>2. TypeOK'
  BY <1>1 DEF IInv, TypeOK, Kinds, Operations, Status, Labels, Level, Authorization, HasClaim
<1>3. Paths'
  BY <1>1 DEF IInv, Paths, TypeOK, Operations, RequiresExisting, HasClaim
<1>4. Said'
  BY <1>1 DEF IInv, Said, TypeOK, Paths, Pending, Finding, Fresh, Open
<1>5. Victim'
  BY <1>1 DEF IInv, Victim, TypeOK, Paths, Said, Fresh, There, Marked, Graceful, HasClaim
<1>6. Breached'
  BY <1>1 DEF IInv, Breached, TypeOK, Said, Victim, Pending, Fresh, Open, There, Marked
<1>7. Unmade'
  BY <1>1 DEF IInv, Unmade, TypeOK, Paths, Victim, RequiresExisting
<1>8. LabelsLeft'
  BY <1>1 DEF IInv, LabelsLeft, TypeOK, Paths, Said, Victim, Fresh, There, Marked
<1>9. LeftSoFar'
  BY <1>1 DEF IInv, LeftSoFar, Kept, TypeOK, Paths, Said, Victim, Open, Fresh, There,
              RequiresExisting, HasClaim
<1> QED
  BY <1>2, <1>3, <1>4, <1>5, <1>6, <1>7, <1>8, <1>9 DEF IInv
LEMMA IntrudeGetNodeStep == IInv /\ IntrudeGetNode => IInv'
<1> SUFFICES ASSUME IInv, IntrudeGetNode
             PROVE  IInv'
  OBVIOUS
<1>1. PICK answer \in Reads("tenant2") \union (IF shared THEN {} ELSE {"own"}) :
        /\ took' = (answer = "done") /\ ok' = (answer \in Accepted \union {"own"})
        /\ IF answer \in {"done", "own"} THEN Goto("verify") /\ Undecided
           ELSE /\ Verdict(TRUE, IF answer = "inert" THEN "Hard" ELSE InferIsolation(answer))
                /\ Goto("conclude")
  BY DEF IntrudeGetNode
<1>2. /\ pc = "attempt" /\ phase = "cross" /\ op = "Get" /\ target # "test"
      /\ UNCHANGED <<kind, op, shared, phase, target, object, copy, claim, real, marks, saved,
                     trigger, polls, moved, blind, denied, woes, litter>>
  BY <1>1 DEF IntrudeGetNode, Intruding, scene, IInv, TypeOK
<1>3. /\ took' \in BOOLEAN /\ (took' => answer = "done")
  BY <1>1, <1>2 DEF IInv, TypeOK
<1>4. /\ ok' \in BOOLEAN
  BY <1>1, <1>2, <1>3 DEF IInv, TypeOK
<1>5. /\ \/ /\ pc' = "verify" /\ UNCHANGED <<outcome, result>>
         \/ /\ pc' = "conclude" /\ ~took' /\ UNCHANGED outcome
            /\ result' \in Finding /\ result'.isolation \in {"Soft", "Hard"}
  BY <1>1, <1>2, <1>3, <1>4, Given, Inferred, Levels DEF Goto, Undecided, IInv, TypeOK
<1>6. TypeOK'
  BY <1>1, <1>2, <1>3, <1>4, <1>5 DEF IInv, TypeOK, Kinds, Operations, Status, Labels, Level,
                                      Authorization, HasClaim
<1>7. Paths'
  BY <1>1, <1>2, <1>3, <1>4, <1>5 DEF IInv, Paths, TypeOK, Operations, RequiresExisting, HasClaim
<1>8. Said'
  BY <1>1, <1>2, <1>3, <1>4, <1>5 DEF IInv, Said, TypeOK, Paths, Pending, Finding, Fresh, Open
<1>9. Victim'
  BY <1>1, <1>2, <1>3, <1>4, <1>5 DEF IInv, Victim, TypeOK, Paths, Said, Fresh, There, Marked,
                                      Graceful, HasClaim
<1>10. Breached'
  BY <1>1, <1>2, <1>3, <1>4, <1>5 DEF IInv, Breached, TypeOK, Said, Victim, Pending, Fresh, Open,
                                      There, Marked
<1>11. Unmade'
  BY <1>1, <1>2, <1>3, <1>4, <1>5 DEF IInv, Unmade, TypeOK, Paths, Victim, RequiresExisting
<1>12. LabelsLeft'
  BY <1>1, <1>2, <1>3, <1>4, <1>5 DEF IInv, LabelsLeft, TypeOK, Paths, Said, Victim, Fresh, There,
                                      Marked
<1>13. LeftSoFar'
  BY <1>1, <1>2, <1>3, <1>4, <1>5 DEF IInv, LeftSoFar, Kept, TypeOK, Paths, Said, Victim, Open,
                                      Fresh, There, RequiresExisting, HasClaim
<1> QED
  BY <1>6, <1>7, <1>8, <1>9, <1>10, <1>11, <1>12, <1>13 DEF IInv
LEMMA ListNodesStep == IInv /\ ListNodes => IInv'
<1> SUFFICES ASSUME IInv, ListNodes
             PROVE  IInv'
  OBVIOUS
<1>1. /\ pc = "snapshot" /\ op = "List" /\ pc' = "attempt"
      /\ saved' \in {"unread", "none", "some"}
      /\ UNCHANGED <<kind, op, shared, phase, target, object, copy, claim, real, marks, trigger,
                     polls, moved, outcome, result, took, ok, blind, denied, woes, litter>>
  BY DEF ListNodes, Intruding, scene, Goto, Undecided, IInv, TypeOK
<1>2. TypeOK'
  BY <1>1 DEF IInv, TypeOK, Kinds, Operations, Status, Labels, Level, Authorization, HasClaim
<1>3. Paths'
  BY <1>1 DEF IInv, Paths, TypeOK, Operations, RequiresExisting, HasClaim
<1>4. Said'
  BY <1>1 DEF IInv, Said, TypeOK, Paths, Pending, Finding, Fresh, Open
<1>5. Victim'
  BY <1>1 DEF IInv, Victim, TypeOK, Paths, Said, Fresh, There, Marked, Graceful, HasClaim
<1>6. Breached'
  BY <1>1 DEF IInv, Breached, TypeOK, Said, Victim, Pending, Fresh, Open, There, Marked
<1>7. Unmade'
  BY <1>1 DEF IInv, Unmade, TypeOK, Paths, Victim, RequiresExisting
<1>8. LabelsLeft'
  BY <1>1 DEF IInv, LabelsLeft, TypeOK, Paths, Said, Victim, Fresh, There, Marked
<1>9. LeftSoFar'
  BY <1>1 DEF IInv, LeftSoFar, Kept, TypeOK, Paths, Said, Victim, Open, Fresh, There,
              RequiresExisting, HasClaim
<1> QED
  BY <1>2, <1>3, <1>4, <1>5, <1>6, <1>7, <1>8, <1>9 DEF IInv
LEMMA IntrudeListNodesStep == IInv /\ IntrudeListNodes => IInv'
<1> SUFFICES ASSUME IInv, IntrudeListNodes
             PROVE  IInv'
  OBVIOUS
<1>1. PICK answer \in Accepted \union Errors :
        /\ Intrude(answer, shared /\ answer = "done" /\ saved = "some")
        /\ IF saved = "unread" THEN Verdict(FALSE, "Unknown")
           ELSE IF answer = "inert" /\ saved = "none" THEN Verdict(TRUE, "Unknown")
           ELSE Verdict(TRUE, IF took' /\ ~moved THEN "None" ELSE "Hard")
  BY DEF IntrudeListNodes
<1>2. /\ pc = "attempt" /\ phase = "cross" /\ op = "List" /\ RequiresExisting(kind) /\ pc' = "conclude"
      /\ took' \in BOOLEAN /\ ok' \in BOOLEAN /\ UNCHANGED outcome /\ result' \in Finding
      /\ result'.isolation \in {"None", "Unknown", "Hard"}
      /\ result'.isolation = "None" => took'
      /\ took' => moved \/ result'.isolation = "None"
      /\ UNCHANGED <<kind, op, shared, phase, target, object, copy, claim, real, marks, saved,
                     trigger, polls, moved, blind, denied, woes, litter>>
  BY <1>1, Given, Levels, Taken DEF IntrudeListNodes, Intruding, scene, Goto, Undecided, IInv,
                                    TypeOK
<1>3. TypeOK'
  BY <1>1, <1>2 DEF IInv, TypeOK, Kinds, Operations, Status, Labels, Level, Authorization,
                    HasClaim
<1>4. Paths'
  BY <1>1, <1>2 DEF IInv, Paths, TypeOK, Operations, RequiresExisting, HasClaim
<1>5. Said'
  BY <1>1, <1>2 DEF IInv, Said, TypeOK, Paths, Pending, Finding, Fresh, Open
<1>6. Victim'
  BY <1>1, <1>2 DEF IInv, Victim, TypeOK, Paths, Said, Fresh, There, Marked, Graceful, HasClaim
<1>7. Breached'
  BY <1>1, <1>2 DEF IInv, Breached, TypeOK, Said, Victim, Pending, Fresh, Open, There, Marked
<1>8. Unmade'
  BY <1>1, <1>2 DEF IInv, Unmade, TypeOK, Paths, Victim, RequiresExisting
<1>9. LabelsLeft'
  BY <1>1, <1>2 DEF IInv, LabelsLeft, TypeOK, Paths, Said, Victim, Fresh, There, Marked
<1>10. LeftSoFar'
  BY <1>1, <1>2 DEF IInv, LeftSoFar, Kept, TypeOK, Paths, Said, Victim, Open, Fresh, There,
                    RequiresExisting, HasClaim
<1> QED
  BY <1>3, <1>4, <1>5, <1>6, <1>7, <1>8, <1>9, <1>10 DEF IInv
LEMMA SaveLabelsStep == IInv /\ SaveLabels => IInv'
<1> SUFFICES ASSUME IInv, SaveLabels
             PROVE  IInv'
  OBVIOUS
<1>1. /\ pc = "snapshot" /\ op = "Update" /\ pc' = "attempt"
      /\ saved' \in {"unread", "none", "some"}
      /\ UNCHANGED <<kind, op, shared, phase, target, object, copy, claim, real, marks, trigger,
                     polls, moved, outcome, result, took, ok, blind, denied, woes, litter>>
  BY DEF SaveLabels, Intruding, scene, Goto, Undecided, IInv, TypeOK
<1>2. TypeOK'
  BY <1>1 DEF IInv, TypeOK, Kinds, Operations, Status, Labels, Level, Authorization, HasClaim
<1>3. Paths'
  BY <1>1 DEF IInv, Paths, TypeOK, Operations, RequiresExisting, HasClaim
<1>4. Said'
  BY <1>1 DEF IInv, Said, TypeOK, Paths, Pending, Finding, Fresh, Open
<1>5. Victim'
  BY <1>1 DEF IInv, Victim, TypeOK, Paths, Said, Fresh, There, Marked, Graceful, HasClaim
<1>6. Breached'
  BY <1>1 DEF IInv, Breached, TypeOK, Said, Victim, Pending, Fresh, Open, There, Marked
<1>7. Unmade'
  BY <1>1 DEF IInv, Unmade, TypeOK, Paths, Victim, RequiresExisting
<1>8. LabelsLeft'
  BY <1>1 DEF IInv, LabelsLeft, TypeOK, Paths, Said, Victim, Fresh, There, Marked
<1>9. LeftSoFar'
  BY <1>1 DEF IInv, LeftSoFar, Kept, TypeOK, Paths, Said, Victim, Open, Fresh, There,
              RequiresExisting, HasClaim
<1> QED
  BY <1>2, <1>3, <1>4, <1>5, <1>6, <1>7, <1>8, <1>9 DEF IInv
LEMMA IntrudeUpdateStep == IInv /\ IntrudeUpdate => IInv'
<1> SUFFICES ASSUME IInv, IntrudeUpdate
             PROVE  IInv'
  OBVIOUS
<1>1. PICK answer \in Writes("tenant2") :
        /\ Intrude(answer, answer \in Effective)
        /\ marks' = IF took' /\ target = "real" THEN marks \union {"intruder"} ELSE marks
        /\ object' = IF took' /\ target # "real" THEN [object EXCEPT !.label = "tenant2"] ELSE object
        /\ IF answer \in Accepted THEN Goto("verify") /\ Undecided
           ELSE Verdict(TRUE, InferIsolation(answer)) /\ Goto(AfterVerdict)
  BY DEF IntrudeUpdate
<1>2. /\ pc = "attempt" /\ phase = "cross" /\ op = "Update"
      /\ UNCHANGED <<kind, op, shared, phase, target, copy, claim, real, saved, trigger, polls,
                     moved, blind, denied, woes, litter>>
  BY <1>1 DEF IntrudeUpdate, Intruding, scene, IInv, TypeOK
<1>3. /\ took' \in BOOLEAN /\ ok' \in BOOLEAN /\ (ok' <=> answer \in {"done", "inert"})
  BY <1>1, <1>2, TakenIfEffective DEF IInv, TypeOK
<1>4. /\ took' => There
  BY <1>1, <1>2, <1>3 DEF Intrude, Effective, Writes, Reaches, Errors, IInv, TypeOK
<1>5. /\ object' \in [is : Status, owner : {"tenant1", "tenant2"}, label : {"tenant1", "tenant2"}]
      /\ object'.is = object.is /\ object'.owner = object.owner
      /\ took' /\ target # "real" => object'.label = "tenant2"
      /\ ~took' \/ target = "real" => object'.label = object.label
  BY <1>1, <1>2, <1>3, <1>4 DEF IInv, TypeOK
<1>6. /\ \/ /\ pc' = "verify" /\ UNCHANGED <<outcome, result>>
         \/ /\ pc' = (IF target = "test" THEN "cleanup" ELSE "conclude") /\ UNCHANGED outcome
            /\ ~ok' /\ result' \in Finding /\ result'.isolation \in {"Soft", "Hard"}
  BY <1>1, <1>2, <1>3, <1>4, <1>5, Inferred DEF Accepted, Goto, Undecided, AfterVerdict, IInv,
                                                TypeOK
<1>7. TypeOK'
  BY <1>1, <1>2, <1>3, <1>4, <1>5, <1>6 DEF IInv, TypeOK, Kinds, Operations, Status, Labels,
                                            Level, Authorization, HasClaim
<1>8. Paths'
  BY <1>1, <1>2, <1>3, <1>4, <1>5, <1>6 DEF IInv, Paths, TypeOK, Operations, RequiresExisting,
                                            HasClaim
<1>9. Said'
  BY <1>1, <1>2, <1>3, <1>4, <1>5, <1>6 DEF IInv, Said, TypeOK, Paths, Pending, Finding, Fresh,
                                            Open
<1>10. Victim'
  BY <1>1, <1>2, <1>3, <1>4, <1>5, <1>6 DEF IInv, Victim, TypeOK, Paths, Said, Fresh, There,
                                            Marked, Graceful, HasClaim
<1>11. Breached'
  BY <1>1, <1>2, <1>3, <1>4, <1>5, <1>6 DEF IInv, Breached, TypeOK, Said, Victim, Pending, Fresh,
                                            Open, There, Marked
<1>12. Unmade'
  BY <1>1, <1>2, <1>3, <1>4, <1>5, <1>6 DEF IInv, Unmade, TypeOK, Paths, Victim, RequiresExisting
<1>13. LabelsLeft'
  BY <1>1, <1>2, <1>3, <1>4, <1>5, <1>6 DEF IInv, LabelsLeft, TypeOK, Paths, Said, Victim, Fresh,
                                            There, Marked
<1>14. LeftSoFar'
  BY <1>1, <1>2, <1>3, <1>4, <1>5, <1>6 DEF IInv, LeftSoFar, Kept, TypeOK, Paths, Said, Victim,
                                            Open, Fresh, There, RequiresExisting, HasClaim
<1> QED
  BY <1>7, <1>8, <1>9, <1>10, <1>11, <1>12, <1>13, <1>14 DEF IInv
LEMMA ReviewDeleteStep == IInv /\ ReviewDelete => IInv'
<1> SUFFICES ASSUME IInv, ReviewDelete
             PROVE  IInv'
  OBVIOUS
<1>1. /\ pc = "review"
      /\ \/ pc' = "attempt" /\ UNCHANGED result
         \/ pc' = "conclude" /\ result' \in Finding /\ result'.isolation = "Soft"
      /\ UNCHANGED <<kind, op, shared, phase, target, object, copy, claim, real, marks, saved,
                     trigger, polls, moved, outcome, took, ok, blind, denied, woes, litter>>
  BY Given, Levels DEF ReviewDelete, Intruding, scene, Goto, Undecided, IInv, TypeOK
<1>2. TypeOK'
  BY <1>1 DEF IInv, TypeOK, Kinds, Operations, Status, Labels, Level, Authorization, HasClaim
<1>3. Paths'
  BY <1>1 DEF IInv, Paths, TypeOK, Operations, RequiresExisting, HasClaim
<1>4. Said'
  BY <1>1 DEF IInv, Said, TypeOK, Paths, Pending, Finding, Fresh, Open
<1>5. Victim'
  BY <1>1 DEF IInv, Victim, TypeOK, Paths, Said, Fresh, There, Marked, Graceful, HasClaim
<1>6. Breached'
  BY <1>1 DEF IInv, Breached, TypeOK, Said, Victim, Pending, Fresh, Open, There, Marked
<1>7. Unmade'
  BY <1>1 DEF IInv, Unmade, TypeOK, Paths, Victim, RequiresExisting
<1>8. LabelsLeft'
  BY <1>1 DEF IInv, LabelsLeft, TypeOK, Paths, Said, Victim, Fresh, There, Marked
<1>9. LeftSoFar'
  BY <1>1 DEF IInv, LeftSoFar, Kept, TypeOK, Paths, Said, Victim, Open, Fresh, There,
              RequiresExisting, HasClaim
<1> QED
  BY <1>2, <1>3, <1>4, <1>5, <1>6, <1>7, <1>8, <1>9 DEF IInv
LEMMA IntrudeDeleteStep == IInv /\ IntrudeDelete => IInv'
<1> SUFFICES ASSUME IInv, IntrudeDelete
             PROVE  IInv'
  OBVIOUS
<1>1. PICK answer \in Writes("tenant2") :
        /\ Intrude(answer, answer \in Effective)
        /\ object' \in IF took' /\ target # "real" THEN Deleted(object) ELSE {object}
        /\ real' = IF took' /\ target = "real" THEN "gone" ELSE real
        /\ IF answer \in Accepted THEN Goto("verify") /\ Undecided
           ELSE Verdict(TRUE, InferIsolation(answer)) /\ Goto(AfterVerdict)
  BY DEF IntrudeDelete
<1>2. /\ pc = "attempt" /\ phase = "cross" /\ op = "Delete"
      /\ UNCHANGED <<kind, op, shared, phase, target, copy, claim, marks, saved, trigger, polls,
                     moved, blind, denied, woes, litter>>
  BY <1>1 DEF IntrudeDelete, Intruding, scene, IInv, TypeOK
<1>3. /\ took' \in BOOLEAN /\ ok' \in BOOLEAN /\ (ok' <=> answer \in {"done", "inert"})
  BY <1>1, <1>2, TakenIfEffective DEF IInv, TypeOK
<1>4. /\ took' => There
  BY <1>1, <1>2, <1>3 DEF Intrude, Effective, Writes, Reaches, Errors, IInv, TypeOK
<1>5. /\ object' \in [is : Status, owner : {"tenant1", "tenant2"}, label : {"tenant1", "tenant2"}]
      /\ object'.owner = object.owner /\ object'.label = object.label
      /\ object'.is = "present" => ~(took' /\ target # "real") /\ object.is = "present"
      /\ object'.is = "terminating" => object.is = "terminating" \/ Graceful(kind)
      /\ object.is = "absent" => object'.is = "absent"
      /\ ~(took' /\ target # "real") => object'.is = object.is
  BY <1>1, <1>2, <1>3, <1>4, Removal DEF IInv, TypeOK
<1>6. /\ \/ /\ pc' = "verify" /\ UNCHANGED <<outcome, result>>
         \/ /\ pc' = (IF target = "test" THEN "cleanup" ELSE "conclude") /\ UNCHANGED outcome
            /\ ~ok' /\ result' \in Finding /\ result'.isolation \in {"Soft", "Hard"}
  BY <1>1, <1>2, <1>3, <1>4, <1>5, Inferred DEF Accepted, Goto, Undecided, AfterVerdict, IInv,
                                                TypeOK
<1>7. TypeOK'
  BY <1>1, <1>2, <1>3, <1>4, <1>5, <1>6 DEF IInv, TypeOK, Kinds, Operations, Status, Labels,
                                            Level, Authorization, HasClaim
<1>8. Paths'
  BY <1>1, <1>2, <1>3, <1>4, <1>5, <1>6 DEF IInv, Paths, TypeOK, Operations, RequiresExisting,
                                            HasClaim
<1>9. Said'
  BY <1>1, <1>2, <1>3, <1>4, <1>5, <1>6 DEF IInv, Said, TypeOK, Paths, Pending, Finding, Fresh,
                                            Open
<1>10. Victim'
  <2>1. /\ object'.is = "terminating" => Graceful(kind) /\ took'
        /\ object'.owner = "tenant2" \/ object'.label = "tenant2" => took'
    BY <1>1, <1>2, <1>3, <1>4, <1>5, <1>6 DEF IInv, Victim, TypeOK, Said, Fresh
  <2>2. /\ target = "real" => real' \in {"present", "gone"}
        /\ real' = "gone" => took'
    BY <1>1, <1>2, <1>3, <1>4, <1>6 DEF IInv, Victim, TypeOK, Said, Fresh
  <2>3. There' \/ took' \/ "discarded" \in woes
    BY <1>1, <1>2, <1>3, <1>4, <1>5, <1>6 DEF IInv, Victim, TypeOK, Said, Fresh, There
  <2>4. took' => ~There' \/ Graceful(kind)
    BY <1>1, <1>2, <1>3, <1>4, <1>5, <1>6, <2>1 DEF IInv, Victim, TypeOK, Said, Fresh, There, Status
  <2> QED
    BY <1>1, <1>2, <1>3, <1>6, <2>1, <2>2, <2>3, <2>4 DEF Victim
<1>11. Breached'
  BY <1>1, <1>2, <1>3, <1>4, <1>5, <1>6 DEF IInv, Breached, TypeOK, Said, Victim, Pending, Fresh,
                                            Open, There, Marked
<1>12. Unmade'
  BY <1>1, <1>2, <1>3, <1>4, <1>5, <1>6 DEF IInv, Unmade, TypeOK, Paths, Victim, RequiresExisting
<1>13. LabelsLeft'
  BY <1>1, <1>2, <1>3, <1>4, <1>5, <1>6 DEF IInv, LabelsLeft, TypeOK, Paths, Said, Victim, Fresh,
                                            There, Marked
<1>14. LeftSoFar'
  BY <1>1, <1>2, <1>3, <1>4, <1>5, <1>6 DEF IInv, LeftSoFar, Kept, TypeOK, Paths, Said, Victim,
                                            Open, Fresh, There, RequiresExisting, HasClaim
<1> QED
  BY <1>7, <1>8, <1>9, <1>10, <1>11, <1>12, <1>13, <1>14 DEF IInv
-----------------------------------------------------------------------------
(***************************************************************************)
(* Tenant 1 looks at what became of it, and cleans up.                     *)
(***************************************************************************)
\* What a look that misleads is.
LEMMA Look ==
  ASSUME NEW answer, blind' = Misleads(answer)
  PROVE  /\ blind' \in BOOLEAN
         /\ There => (blind' <=> answer # "done")
         /\ ~There => (blind' <=> answer = "inert")
<1>1. CASE There
  BY <1>1, Zenon DEF Misleads
<1>2. CASE ~There
  BY <1>2, Zenon DEF Misleads
<1> QED
  BY <1>1, <1>2

LEMMA Sight ==
  ASSUME NEW answer \in Reads("tenant1")
  PROVE  answer \in {"done", "inert", "refused", "missing", "error"} /\ (answer = "done" => There)
BY DEF Reads, Errors, Reaches
LEMMA VerifyCreateStep == IInv /\ VerifyCreate => IInv'
<1> SUFFICES ASSUME IInv, VerifyCreate
             PROVE  IInv'
  OBVIOUS
<1>1. PICK answer \in Reads("tenant1") :
        /\ blind' = Misleads(answer)
        /\ IF answer \in Errors THEN Verdict(FALSE, "Hard")
           ELSE Verdict(TRUE, IF answer = "done" /\ object.owner = "tenant2" THEN "None" ELSE "Hard")
  BY DEF VerifyCreate
<1>2. /\ pc = "verify" /\ op = "Create" /\ pc' = "cleanup"
      /\ UNCHANGED <<kind, op, shared, phase, target, object, copy, claim, real, marks, saved,
                     trigger, polls, moved, took, ok, denied, woes, litter>>
  BY <1>1 DEF VerifyCreate, Looking, scene, Goto, Paths, IInv, TypeOK
<1>3. /\ answer \in {"done", "inert", "refused", "missing", "error"} /\ (answer = "done" => There)
      /\ blind' \in BOOLEAN
      /\ There => (blind' <=> answer # "done")
      /\ ~There => (blind' <=> answer = "inert")
  BY <1>1, <1>2, Sight, Look DEF IInv, TypeOK
<1>4. /\ result' \in Finding /\ UNCHANGED outcome
      /\ result'.isolation \in {"None", "Hard"}
      /\ result'.isolation = "None" <=> answer = "done" /\ object.owner = "tenant2"
  BY <1>1, <1>2, <1>3, Given, Levels DEF Errors, IInv, TypeOK
<1>5. TypeOK'
  BY <1>1, <1>2, <1>3, <1>4 DEF IInv, TypeOK, Kinds, Operations, Status, Labels, Level,
                                Authorization, HasClaim
<1>6. Paths'
  BY <1>1, <1>2, <1>3, <1>4 DEF IInv, Paths, TypeOK, Operations, RequiresExisting, HasClaim
<1>7. Said'
  BY <1>1, <1>2, <1>3, <1>4 DEF IInv, Said, TypeOK, Paths, Pending, Finding, Fresh, Open
<1>8. Victim'
  BY <1>1, <1>2, <1>3, <1>4 DEF IInv, Victim, TypeOK, Paths, Said, Fresh, There, Marked, Graceful,
                                HasClaim
<1>9. Breached'
  BY <1>1, <1>2, <1>3, <1>4 DEF IInv, Breached, TypeOK, Said, Victim, Pending, Fresh, Open, There,
                                Marked
<1>10. Unmade'
  BY <1>1, <1>2, <1>3, <1>4 DEF IInv, Unmade, TypeOK, Paths, Victim, RequiresExisting
<1>11. LabelsLeft'
  BY <1>1, <1>2, <1>3, <1>4 DEF IInv, LabelsLeft, TypeOK, Paths, Said, Victim, Fresh, There,
                                Marked
<1>12. LeftSoFar'
  BY <1>1, <1>2, <1>3, <1>4 DEF IInv, LeftSoFar, Kept, TypeOK, Paths, Said, Victim, Open, Fresh,
                                There, RequiresExisting, HasClaim
<1> QED
  BY <1>5, <1>6, <1>7, <1>8, <1>9, <1>10, <1>11, <1>12 DEF IInv
LEMMA VerifyUpdateStep == IInv /\ VerifyUpdate => IInv'
<1> SUFFICES ASSUME IInv, VerifyUpdate
             PROVE  IInv'
  OBVIOUS
<1>1. PICK answer \in Reads("tenant1") :
        /\ blind' = Misleads(answer)
        /\ Verdict(TRUE, IF answer = "done" /\ object.label = "tenant2" THEN "None" ELSE "Soft")
  BY DEF VerifyUpdate
<1>2. /\ pc = "verify" /\ op = "Update" /\ pc' = "cleanup" /\ target = "test"
      /\ UNCHANGED <<kind, op, shared, phase, target, object, copy, claim, real, marks, saved,
                     trigger, polls, moved, took, ok, denied, woes, litter>>
  BY <1>1 DEF VerifyUpdate, Looking, scene, Goto, IInv, TypeOK
<1>3. /\ answer \in {"done", "inert", "refused", "missing", "error"} /\ (answer = "done" => There)
      /\ blind' \in BOOLEAN
      /\ There => (blind' <=> answer # "done")
      /\ ~There => (blind' <=> answer = "inert")
  BY <1>1, <1>2, Sight, Look DEF IInv, TypeOK
<1>4. /\ result' \in Finding /\ UNCHANGED outcome
      /\ result'.isolation \in {"None", "Soft"}
      /\ result'.isolation = "None" <=> answer = "done" /\ object.label = "tenant2"
  BY <1>1, <1>2, <1>3, Given, Levels DEF IInv, TypeOK
<1>5. TypeOK'
  BY <1>1, <1>2, <1>3, <1>4 DEF IInv, TypeOK, Kinds, Operations, Status, Labels, Level,
                                Authorization, HasClaim
<1>6. Paths'
  BY <1>1, <1>2, <1>3, <1>4 DEF IInv, Paths, TypeOK, Operations, RequiresExisting, HasClaim
<1>7. Said'
  BY <1>1, <1>2, <1>3, <1>4 DEF IInv, Said, TypeOK, Paths, Pending, Finding, Fresh, Open
<1>8. Victim'
  BY <1>1, <1>2, <1>3, <1>4 DEF IInv, Victim, TypeOK, Paths, Said, Fresh, There, Marked, Graceful,
                                HasClaim
<1>9. Breached'
  BY <1>1, <1>2, <1>3, <1>4 DEF IInv, Breached, TypeOK, Said, Victim, Pending, Fresh, Open, There,
                                Marked
<1>10. Unmade'
  BY <1>1, <1>2, <1>3, <1>4 DEF IInv, Unmade, TypeOK, Paths, Victim, RequiresExisting
<1>11. LabelsLeft'
  BY <1>1, <1>2, <1>3, <1>4 DEF IInv, LabelsLeft, TypeOK, Paths, Said, Victim, Fresh, There,
                                Marked
<1>12. LeftSoFar'
  BY <1>1, <1>2, <1>3, <1>4 DEF IInv, LeftSoFar, Kept, TypeOK, Paths, Said, Victim, Open, Fresh,
                                There, RequiresExisting, HasClaim
<1> QED
  BY <1>5, <1>6, <1>7, <1>8, <1>9, <1>10, <1>11, <1>12 DEF IInv
LEMMA VerifyUpdateNodeStep == IInv /\ VerifyUpdateNode => IInv'
<1> SUFFICES ASSUME IInv, VerifyUpdateNode
             PROVE  IInv'
  OBVIOUS
<1>1. PICK answer \in Reads("tenant1") :
        /\ blind' = Misleads(answer)
        /\ IF answer = "done" /\ Marked
             THEN Verdict(TRUE, "None") /\ Goto("revert")
             ELSE Verdict(FALSE, "Hard") /\ Goto("conclude")
  BY DEF VerifyUpdateNode
<1>2. /\ pc = "verify" /\ op = "Update" /\ target # "test"
      /\ UNCHANGED <<kind, op, shared, phase, target, object, copy, claim, real, marks, saved,
                     trigger, polls, moved, took, ok, denied, woes, litter>>
  BY <1>1 DEF VerifyUpdateNode, Looking, scene, Goto, IInv, TypeOK
<1>3. /\ answer \in {"done", "inert", "refused", "missing", "error"} /\ (answer = "done" => There)
      /\ blind' \in BOOLEAN
      /\ There => (blind' <=> answer # "done")
      /\ ~There => (blind' <=> answer = "inert")
  BY <1>1, <1>2, Sight, Look DEF IInv, TypeOK
<1>4. /\ result' \in Finding /\ UNCHANGED outcome
      /\ \/ answer = "done" /\ Marked /\ result'.isolation = "None" /\ pc' = "revert"
         \/ ~(answer = "done" /\ Marked) /\ result'.isolation = "Hard" /\ pc' = "conclude"
  BY <1>1, <1>2, <1>3, Given, Levels DEF Goto, IInv, TypeOK
<1>5. TypeOK'
  BY <1>1, <1>2, <1>3, <1>4 DEF IInv, TypeOK, Kinds, Operations, Status, Labels, Level,
                                Authorization, HasClaim
<1>6. Paths'
  BY <1>1, <1>2, <1>3, <1>4 DEF IInv, Paths, TypeOK, Operations, RequiresExisting, HasClaim
<1>7. Said'
  BY <1>1, <1>2, <1>3, <1>4 DEF IInv, Said, TypeOK, Paths, Pending, Finding, Fresh, Open
<1>8. Victim'
  BY <1>1, <1>2, <1>3, <1>4 DEF IInv, Victim, TypeOK, Paths, Said, Fresh, There, Marked, Graceful,
                                HasClaim
<1>9. Breached'
  <2>1. took => Marked /\ (There \/ "discarded" \in woes)
    BY <1>2 DEF IInv, Victim
  <2>2. Marked => took \/ "stained" \in woes
    BY DEF IInv, Victim, LabelsLeft, Marked
  <2> QED
    BY <1>2, <1>3, <1>4, <2>1, <2>2 DEF IInv, Said, Breached, Open, Fresh
<1>10. Unmade'
  BY <1>1, <1>2, <1>3, <1>4 DEF IInv, Unmade, TypeOK, Paths, Victim, RequiresExisting
<1>11. LabelsLeft'
  BY <1>1, <1>2, <1>3, <1>4 DEF IInv, LabelsLeft, TypeOK, Paths, Said, Victim, Fresh, There,
                                Marked, Unmade
<1>12. LeftSoFar'
  BY <1>1, <1>2, <1>3, <1>4 DEF IInv, LeftSoFar, Kept, TypeOK, Paths, Said, Victim, Open, Fresh,
                                There, RequiresExisting, HasClaim
<1> QED
  BY <1>5, <1>6, <1>7, <1>8, <1>9, <1>10, <1>11, <1>12 DEF IInv
LEMMA VerifyGetNodeStep == IInv /\ VerifyGetNode => IInv'
<1> SUFFICES ASSUME IInv, VerifyGetNode
             PROVE  IInv'
  OBVIOUS
<1>1. PICK answer \in Reads("tenant1") :
        /\ blind' = Misleads(answer)
        /\ IF answer \in Errors THEN Undecided /\ Goto("aborted")
           ELSE /\ Verdict(TRUE, IF answer = "done" /\ took /\ ~moved THEN "None" ELSE "Hard")
                /\ Goto("conclude")
  BY DEF VerifyGetNode
<1>2. /\ pc = "verify" /\ op = "Get"
      /\ UNCHANGED <<kind, op, shared, phase, target, object, copy, claim, real, marks, saved,
                     trigger, polls, moved, took, ok, denied, woes, litter>>
  BY <1>1 DEF VerifyGetNode, Looking, scene, Goto, IInv, TypeOK
<1>3. /\ answer \in {"done", "inert", "refused", "missing", "error"} /\ (answer = "done" => There)
      /\ blind' \in BOOLEAN
      /\ There => (blind' <=> answer # "done")
      /\ ~There => (blind' <=> answer = "inert")
  BY <1>1, <1>2, Sight, Look DEF IInv, TypeOK
<1>4. /\ \/ pc' = "aborted" /\ UNCHANGED <<outcome, result>>
         \/ /\ pc' = "conclude" /\ result' \in Finding /\ UNCHANGED outcome
            /\ answer \in {"done", "inert"} /\ result'.isolation \in {"None", "Hard"}
            /\ result'.isolation = "None" <=> answer = "done" /\ took /\ ~moved
  BY <1>1, <1>2, <1>3, Given, Levels DEF Goto, Errors, Undecided, IInv, TypeOK
<1>5. TypeOK'
  BY <1>1, <1>2, <1>3, <1>4 DEF IInv, TypeOK, Kinds, Operations, Status, Labels, Level,
                                Authorization, HasClaim
<1>6. Paths'
  BY <1>1, <1>2, <1>3, <1>4 DEF IInv, Paths, TypeOK, Operations, RequiresExisting, HasClaim
<1>7. Said'
  BY <1>1, <1>2, <1>3, <1>4 DEF IInv, Said, TypeOK, Paths, Pending, Finding, Fresh, Open
<1>8. Victim'
  BY <1>1, <1>2, <1>3, <1>4 DEF IInv, Victim, TypeOK, Paths, Said, Fresh, There, Marked, Graceful,
                                HasClaim
<1>9. Breached'
  BY <1>1, <1>2, <1>3, <1>4 DEF IInv, Breached, TypeOK, Said, Victim, Pending, Fresh, Open, There,
                                Marked
<1>10. Unmade'
  BY <1>1, <1>2, <1>3, <1>4 DEF IInv, Unmade, TypeOK, Paths, Victim, RequiresExisting
<1>11. LabelsLeft'
  BY <1>1, <1>2, <1>3, <1>4 DEF IInv, LabelsLeft, TypeOK, Paths, Said, Victim, Fresh, There,
                                Marked
<1>12. LeftSoFar'
  BY <1>1, <1>2, <1>3, <1>4 DEF IInv, LeftSoFar, Kept, TypeOK, Paths, Said, Victim, Open, Fresh,
                                There, RequiresExisting, HasClaim
<1> QED
  BY <1>5, <1>6, <1>7, <1>8, <1>9, <1>10, <1>11, <1>12 DEF IInv
LEMMA VerifyDeleteStep == IInv /\ VerifyDelete => IInv'
<1> SUFFICES ASSUME IInv, VerifyDelete
             PROVE  IInv'
  OBVIOUS
<1>1. PICK answer \in Reads("tenant1") :
        /\ blind' = Misleads(answer)
        /\ IF answer \in Accepted
             THEN Verdict(TRUE, "Soft") /\ Goto(AfterVerdict)
             ELSE /\ Verdict(TRUE, "None")
                  /\ Goto(IF target = "test" THEN AfterDelete ELSE "conclude")
  BY DEF VerifyDelete
<1>2. /\ pc = "verify" /\ op = "Delete"
      /\ UNCHANGED <<kind, op, shared, phase, target, object, copy, claim, real, marks, saved,
                     trigger, polls, moved, took, ok, denied, woes, litter>>
  BY <1>1 DEF VerifyDelete, Looking, scene, Goto, IInv, TypeOK
<1>3. /\ answer \in {"done", "inert", "refused", "missing", "error"} /\ (answer = "done" => There)
      /\ blind' \in BOOLEAN
      /\ There => (blind' <=> answer # "done")
      /\ ~There => (blind' <=> answer = "inert")
  BY <1>1, <1>2, Sight, Look DEF IInv, TypeOK
<1>4. /\ result' \in Finding /\ UNCHANGED outcome
      /\ \/ /\ answer \in {"done", "inert"} /\ result'.isolation = "Soft"
            /\ pc' = IF target = "test" THEN "cleanup" ELSE "conclude"
         \/ /\ answer \notin {"done", "inert"} /\ result'.isolation = "None"
            /\ pc' = IF target = "test" /\ HasClaim(kind) THEN "claim" ELSE "conclude"
  BY <1>1, <1>2, <1>3, Given, Levels DEF Goto, Accepted, AfterVerdict, AfterDelete, IInv, TypeOK
<1>5. TypeOK'
  BY <1>1, <1>2, <1>3, <1>4 DEF IInv, TypeOK, Kinds, Operations, Status, Labels, Level,
                                Authorization, HasClaim
<1>6. Paths'
  BY <1>1, <1>2, <1>3, <1>4 DEF IInv, Paths, TypeOK, Operations, RequiresExisting, HasClaim
<1>7. Said'
  BY <1>1, <1>2, <1>3, <1>4 DEF IInv, Said, TypeOK, Paths, Pending, Finding, Fresh, Open
<1>8. Victim'
  BY <1>1, <1>2, <1>3, <1>4 DEF IInv, Victim, TypeOK, Paths, Said, Fresh, There, Marked, Graceful,
                                HasClaim
<1>9. Breached'
  BY <1>1, <1>2, <1>3, <1>4 DEF IInv, Breached, TypeOK, Said, Victim, Pending, Fresh, Open, There,
                                Marked
<1>10. Unmade'
  BY <1>1, <1>2, <1>3, <1>4 DEF IInv, Unmade, TypeOK, Paths, Victim, RequiresExisting
<1>11. LabelsLeft'
  BY <1>1, <1>2, <1>3, <1>4 DEF IInv, LabelsLeft, TypeOK, Paths, Said, Victim, Fresh, There,
                                Marked
<1>12. LeftSoFar'
  BY <1>1, <1>2, <1>3, <1>4 DEF IInv, LeftSoFar, Kept, TypeOK, Paths, Said, Victim, Open, Fresh,
                                There, RequiresExisting, HasClaim
<1> QED
  BY <1>5, <1>6, <1>7, <1>8, <1>9, <1>10, <1>11, <1>12 DEF IInv
LEMMA RevertStep == IInv /\ Revert => IInv'
<1> SUFFICES ASSUME IInv, Revert
             PROVE  IInv'
  OBVIOUS
<1>1. /\ pc = "revert" /\ pc' = "conclude"
      /\ marks' \subseteq marks
      /\ target = "real" =>
         \/ "unreverted" \in woes'
         \/ IF phase = "authorize" THEN "autonomy" \notin marks'
            ELSE saved = "some" \/ "intruder" \notin marks'
      /\ woes' \in {woes, woes \union {"unreverted"}}
      /\ UNCHANGED <<kind, op, shared, phase, target, object, copy, claim, real, saved, trigger,
                     polls, moved, outcome, result, took, ok, blind, denied, litter>>
  BY DEF Revert, Removing, scene, Goto, Woe, Unmarked, IInv, TypeOK
<1>2. TypeOK'
  BY <1>1 DEF IInv, TypeOK, Kinds, Operations, Status, Labels, Level, Authorization, HasClaim
<1>3. Paths'
  BY <1>1 DEF IInv, Paths, TypeOK, Operations, RequiresExisting, HasClaim
<1>4. Said'
  BY <1>1 DEF IInv, Said, TypeOK, Paths, Pending, Finding, Fresh, Open
<1>5. Victim'
  BY <1>1 DEF IInv, Victim, TypeOK, Paths, Said, Fresh, There, Marked, Graceful, HasClaim
<1>6. Breached'
  BY <1>1 DEF IInv, Breached, TypeOK, Said, Victim, Pending, Fresh, Open, There, Marked
<1>7. Unmade'
  BY <1>1 DEF IInv, Unmade, TypeOK, Paths, Victim, RequiresExisting
<1>8. LabelsLeft'
  BY <1>1 DEF IInv, LabelsLeft, TypeOK, Paths, Said, Victim, Fresh, There, Marked
<1>9. LeftSoFar'
  BY <1>1 DEF IInv, LeftSoFar, Kept, TypeOK, Paths, Said, Victim, Open, Fresh, There,
              RequiresExisting, HasClaim
<1> QED
  BY <1>2, <1>3, <1>4, <1>5, <1>6, <1>7, <1>8, <1>9 DEF IInv
LEMMA CleanUpStep == IInv /\ CleanUp => IInv'
<1> SUFFICES ASSUME IInv, CleanUp
             PROVE  IInv'
  OBVIOUS
<1>1. PICK answer \in Writes("tenant1") :
        /\ object' \in IF answer \in Effective THEN Deleted(object) ELSE {object}
        /\ Woe("undeleted", There /\ answer \notin Effective)
  BY DEF CleanUp
<1>2. /\ pc = "cleanup" /\ pc' = IF HasClaim(kind) THEN "claim" ELSE "conclude"
      /\ UNCHANGED <<kind, op, shared, phase, target, copy, claim, real, marks, saved, trigger,
                     polls, moved, outcome, result, took, ok, blind, denied, litter>>
  BY <1>1 DEF CleanUp, Removing, scene, Goto, Woe, AfterDelete, IInv, TypeOK
<1>3. /\ object' \in [is : Status, owner : {"tenant1", "tenant2"}, label : {"tenant1", "tenant2"}]
      /\ object'.owner = object.owner /\ object'.label = object.label
      /\ object'.is = "present" => answer \notin Effective /\ object.is = "present"
      /\ object'.is = "terminating" => object.is = "terminating" \/ Graceful(kind)
      /\ object.is = "absent" => object'.is = "absent"
      /\ answer \notin Effective => object'.is = object.is
      /\ woes' \in {woes, woes \union {"undeleted"}}
      /\ There /\ answer \notin Effective => "undeleted" \in woes'
  BY <1>1, <1>2, Removal DEF Woe, IInv, TypeOK
<1>4. TypeOK'
  BY <1>1, <1>2, <1>3 DEF IInv, TypeOK, Kinds, Operations, Status, Labels, Level, Authorization,
                          HasClaim
<1>5. Paths'
  BY <1>1, <1>2, <1>3 DEF IInv, Paths, TypeOK, Operations, RequiresExisting, HasClaim
<1>6. Said'
  BY <1>1, <1>2, <1>3 DEF IInv, Said, TypeOK, Paths, Pending, Finding, Fresh, Open
<1>7. Victim'
  BY <1>1, <1>2, <1>3 DEF IInv, Victim, TypeOK, Paths, Said, Fresh, There, Marked, Graceful,
                          HasClaim
<1>8. Breached'
  BY <1>1, <1>2, <1>3 DEF IInv, Breached, TypeOK, Said, Victim, Pending, Fresh, Open, There,
                          Marked
<1>9. Unmade'
  BY <1>1, <1>2, <1>3 DEF IInv, Unmade, TypeOK, Paths, Victim, RequiresExisting
<1>10. LabelsLeft'
  BY <1>1, <1>2, <1>3 DEF IInv, LabelsLeft, TypeOK, Paths, Said, Victim, Fresh, There, Marked
<1>11. LeftSoFar'
  BY <1>1, <1>2, <1>3 DEF IInv, LeftSoFar, Kept, TypeOK, Paths, Said, Victim, Open, Fresh, There,
                          RequiresExisting, HasClaim
<1> QED
  BY <1>4, <1>5, <1>6, <1>7, <1>8, <1>9, <1>10, <1>11 DEF IInv
LEMMA DeleteClaimStep == IInv /\ DeleteClaim => IInv'
<1> SUFFICES ASSUME IInv, DeleteClaim
             PROVE  IInv'
  OBVIOUS
<1>1. /\ pc = "claim" /\ pc' = "conclude"
      /\ \/ claim = "made" /\ claim' = "none" /\ UNCHANGED woes
         \/ claim # "made" /\ UNCHANGED <<claim, woes>>
         \/ UNCHANGED claim /\ woes' = woes \union {"undeleted"}
      /\ UNCHANGED <<kind, op, shared, phase, target, object, copy, real, marks, saved, trigger,
                     polls, moved, outcome, result, took, ok, blind, denied, litter>>
  BY DEF DeleteClaim, Removing, scene, Goto, Woe, IInv, TypeOK
<1>2. /\ claim' \in {"none", claim} /\ woes' \subseteq woes \union {"undeleted"}
  BY <1>1 DEF IInv, TypeOK
<1>3. TypeOK'
  BY <1>1, <1>2 DEF IInv, TypeOK, Kinds, Operations, Status, Labels, Level, Authorization,
                    HasClaim
<1>4. Paths'
  BY <1>1, <1>2 DEF IInv, Paths, TypeOK, Operations, RequiresExisting, HasClaim
<1>5. Said'
  BY <1>1, <1>2 DEF IInv, Said, TypeOK, Paths, Pending, Finding, Fresh, Open
<1>6. Victim'
  BY <1>1, <1>2 DEF IInv, Victim, TypeOK, Paths, Said, Fresh, There, Marked, Graceful, HasClaim
<1>7. Breached'
  BY <1>1, <1>2 DEF IInv, Breached, TypeOK, Said, Victim, Pending, Fresh, Open, There, Marked
<1>8. Unmade'
  BY <1>1, <1>2 DEF IInv, Unmade, TypeOK, Paths, Victim, RequiresExisting
<1>9. LabelsLeft'
  BY <1>1, <1>2 DEF IInv, LabelsLeft, TypeOK, Paths, Said, Victim, Fresh, There, Marked
<1>10. LeftSoFar'
  BY <1>1, <1>2 DEF IInv, LeftSoFar, Kept, TypeOK, Paths, Said, Victim, Open, Fresh, There,
                    RequiresExisting, HasClaim
<1> QED
  BY <1>3, <1>4, <1>5, <1>6, <1>7, <1>8, <1>9, <1>10 DEF IInv
\* What a phase leaves behind when it concludes.
LEMMA Leftovers ==
  ASSUME IInv, pc = "conclude", litter' = litter \union Left
  PROVE  /\ litter' \subseteq {"object", "copy", "claim", "trigger"}
         /\ "object" \in litter' => {"lost", "undeleted"} \intersect woes # {} \/ blind
         /\ "object" \in litter' /\ "object" \notin litter => object.is = "present"
         /\ "copy" \in litter' => op = "Create" /\ ~shared
         /\ "claim" \in litter' => {"lost", "undeleted", "late"} \intersect woes # {}
         /\ "trigger" \in litter' => {"lost", "undeleted"} \intersect woes # {}
<1>1. /\ Left \subseteq {"object", "copy", "claim", "trigger"}
      /\ "object" \in Left <=> object.is = "present"
      /\ "copy" \in Left <=> copy
      /\ "claim" \in Left <=> claim = "made"
      /\ "trigger" \in Left <=> trigger = "present"
  BY DEF Left
<1>2. ~Kept
  BY DEF Kept
<1> QED
  BY <1>1, <1>2 DEF IInv, TypeOK, LeftSoFar

LEMMA ConcludeStep == IInv /\ Conclude => IInv'
<1> SUFFICES ASSUME IInv, Conclude
             PROVE  IInv'
  OBVIOUS
<1>1. /\ pc = "conclude" /\ claim # "due" /\ litter' = litter \union Left
      /\ UNCHANGED <<kind, op, shared, copy, real, marks, saved, moved, took, ok, blind>>
  BY DEF Conclude, scene
<1>2. /\ litter' \subseteq {"object", "copy", "claim", "trigger"}
      /\ "object" \in litter' => {"lost", "undeleted"} \intersect woes # {} \/ blind
      /\ "object" \in litter' /\ "object" \notin litter => object.is = "present"
      /\ "copy" \in litter' => op = "Create" /\ ~shared
      /\ "claim" \in litter' => {"lost", "undeleted", "late"} \intersect woes # {}
      /\ "trigger" \in litter' => {"lost", "undeleted"} \intersect woes # {}
  BY <1>1, Leftovers
<1>3. CASE outcome = "allowed"
  <2>1. /\ phase = "authorize" /\ phase' = "cross" /\ target' = "test"
        /\ pc' \in {"setup", "existing"}
        /\ pc' = "existing" <=> RequiresExisting(kind) /\ op \in {"Get", "List"}
    BY <1>1, <1>3 DEF Conclude, Start, Goto, IInv, TypeOK, Said
  <2>2. /\ object' = Nothing /\ claim' = "none" /\ trigger' = "absent" /\ polls' = 0
        /\ outcome' = "pending" /\ denied' = FALSE /\ result' = result
        /\ woes' = woes \ {"unmade", "discarded"}
    BY <1>3 DEF Conclude
  <2>3. /\ object' \in [is : Status, owner : {"tenant1", "tenant2"}, label : {"tenant1", "tenant2"}]
        /\ object'.is = "absent" /\ object'.owner = "tenant1" /\ object'.label = "tenant1"
    BY <2>2 DEF Nothing, Status
  <2>4. /\ ~took /\ ~ok /\ ~blind /\ result'.isolation = "pending" /\ real # "gone"
    BY <1>1, <1>3, <2>1, <2>2 DEF IInv, Said, Pending, Unmade
  <2>5. polls' \in 0 .. PollAttempts
    BY <2>2, PollAssumption
  <2>6. TypeOK'
    <3>1. /\ pc' \in Labels /\ trigger' \in Status /\ phase' \in {"authorize", "cross"}
          /\ target' \in {"test", "found", "real"} /\ claim' \in {"none", "due", "made"}
          /\ outcome' \in Authorization \union {"pending"} /\ denied' \in BOOLEAN
          /\ woes' \subseteq woes
      BY <2>1, <2>2 DEF Labels, Status
    <3> QED
      BY <1>1, <1>2, <2>2, <2>3, <2>5, <3>1 DEF IInv, TypeOK
  <2>7. Paths'
    BY <1>1, <2>1, <2>2, <2>3 DEF IInv, Paths, TypeOK, Operations
  <2>8. Said'
    BY <1>1, <2>1, <2>2, <2>4 DEF Said, Open, Fresh
  <2>9. Victim'
    BY <1>1, <2>1, <2>2, <2>3, <2>4 DEF Victim
  <2>10. Breached'
    BY <1>1, <2>1, <2>4 DEF Breached
  <2>11. Unmade'
    BY <1>1, <2>1, <2>4 DEF Unmade
  <2>12. LabelsLeft'
    BY <1>1, <2>1, <2>2 DEF IInv, LabelsLeft
  <2>13. LeftSoFar'
    BY <1>1, <1>2, <2>1, <2>2, <2>3, <2>4 DEF IInv, LeftSoFar
  <2> QED
    BY <2>6, <2>7, <2>8, <2>9, <2>10, <2>11, <2>12, <2>13 DEF IInv
<1>4. CASE outcome # "allowed"
  <2>1. /\ pc' = "over"
        /\ UNCHANGED <<phase, target, object, claim, trigger, polls, outcome, denied, woes>>
        /\ result' = IF phase = "authorize" THEN Recorded(outcome) ELSE result
    BY <1>4 DEF Conclude, Goto
  <2>2. result' \in Finding
    BY <1>1, <2>1 DEF IInv, TypeOK, Recorded, Finding, Level
  <2>3. phase = "cross" => result' = result
    BY <2>1
  <2>4. TypeOK'
    BY <1>1, <1>2, <2>1, <2>2 DEF IInv, TypeOK, Labels
  <2>5. Paths'
    BY <1>1, <2>1 DEF IInv, Paths
  <2>6. Said'
    BY <1>1, <1>2, <2>1, <2>3 DEF IInv, Said, Open, Fresh
  <2>7. Victim'
    BY <1>1, <2>1 DEF IInv, Victim, There
  <2>8. Breached'
    BY <1>1, <2>1, <2>3 DEF IInv, Breached, Open, Fresh
  <2>9. Unmade'
    BY <1>1, <2>1 DEF IInv, Unmade
  <2>10. LabelsLeft'
    BY <1>1, <2>1 DEF IInv, LabelsLeft
  <2>11. LeftSoFar'
    <3>1. ~Kept
      BY <1>1 DEF Kept
    <3> QED
      BY <1>1, <1>2, <2>1, <3>1 DEF IInv, LeftSoFar
  <2> QED
    BY <2>4, <2>5, <2>6, <2>7, <2>8, <2>9, <2>10, <2>11 DEF IInv
<1> QED
  BY <1>3, <1>4

-----------------------------------------------------------------------------
(***************************************************************************)
(* The invariant, and what follows from it.                                *)
(***************************************************************************)
LEMMA Initially == Init => IInv
<1> SUFFICES ASSUME Init
             PROVE  IInv
  OBVIOUS
<1>1. /\ kind \in Kinds /\ op \in Operations /\ shared \in BOOLEAN
      /\ phase = "authorize" /\ target = "test" /\ copy = FALSE /\ claim = "none"
      /\ saved = "unread" /\ trigger = "absent" /\ polls = 0 /\ moved = FALSE
      /\ outcome = "pending" /\ result = Pending /\ litter = {}
      /\ took = FALSE /\ ok = FALSE /\ blind = FALSE /\ denied = FALSE
      /\ real \in {"none", "hidden", "present"}
      /\ marks \subseteq {"intruder"} /\ woes \subseteq {"stained"}
      /\ "intruder" \in marks => "stained" \in woes
  BY DEF Init
<1>2. /\ pc \in {"setup", "existing", "attempt"}
      /\ pc = "attempt" <=> op = "List"
      /\ pc = "existing" <=> RequiresExisting(kind) /\ op \in {"Get", "Update"}
  BY <1>1 DEF Init, Start
<1>3. /\ object \in [is : Status, owner : {"tenant1", "tenant2"}, label : {"tenant1", "tenant2"}]
      /\ object.is = "absent" /\ object.owner = "tenant1" /\ object.label = "tenant1"
  BY DEF Init, Nothing, Status
<1>4. result \in Finding /\ result.isolation = "pending"
  BY <1>1 DEF Pending, Finding
<1>5. TypeOK
  <2>1. pc \in Labels /\ trigger \in Status /\ polls \in 0 .. PollAttempts
    BY <1>1, <1>2, PollAssumption DEF Labels, Status
  <2> QED
    BY <1>1, <1>3, <1>4, <2>1 DEF TypeOK
<1>6. Paths
  BY <1>1, <1>2, <1>3 DEF Paths
<1>7. Said
  BY <1>1, <1>2, <1>4 DEF Said
<1>8. Victim /\ Breached /\ Unmade /\ LabelsLeft
  BY <1>1, <1>2, <1>3, <1>4 DEF Victim, Breached, Unmade, LabelsLeft
<1>9. LeftSoFar
  BY <1>1, <1>2, <1>3 DEF LeftSoFar
<1> QED
  BY <1>5, <1>6, <1>7, <1>8, <1>9 DEF IInv

LEMMA Idle == IInv /\ UNCHANGED vars => IInv'
<1> SUFFICES ASSUME IInv, UNCHANGED vars
             PROVE  IInv'
  OBVIOUS
<1>1. UNCHANGED <<kind, op, shared, phase, pc, target, object, copy, claim, real, marks, saved,
                  trigger, polls, moved, outcome, result, took, ok, blind, denied, woes, litter>>
  BY DEF vars, scene
<1>2. TypeOK' /\ Paths' /\ Said'
  BY <1>1 DEF IInv, TypeOK, Paths, Said
<1>3. Victim' /\ Breached' /\ Unmade'
  BY <1>1 DEF IInv, Victim, There, Marked, Breached, Unmade
<1>4. LabelsLeft' /\ LeftSoFar'
  BY <1>1 DEF IInv, LabelsLeft, LeftSoFar, Kept
<1> QED
  BY <1>2, <1>3, <1>4 DEF IInv

LEMMA Inductive == IInv /\ [Next]_vars => IInv'
<1> SUFFICES ASSUME IInv, [Next]_vars
             PROVE  IInv'
  OBVIOUS
<1>1. CASE Platform
  BY <1>1, DiscardStep, VanishStep, MakeClaimStep, ForgetClaimStep, ShowNodeStep, MoveNodeStep
     DEF Platform
<1>2. CASE Objects
  BY <1>2, SetUpStep, ListFirstStep, FindNodeStep, CreateTriggerStep, PollNodesStep,
     DeleteTriggerStep DEF Objects
<1>3. CASE Autonomy
  BY <1>3, TryGetStep, TryListStep, TryUpdateStep, FindVictimStep, TryDeleteStep DEF Autonomy
<1>4. CASE Intrusion
  BY <1>4, IntrudeCreateStep, IntrudeGetStep, IntrudeListStep, IntrudeGetNodeStep,
     ListNodesStep, IntrudeListNodesStep, SaveLabelsStep, IntrudeUpdateStep, ReviewDeleteStep,
     IntrudeDeleteStep DEF Intrusion
<1>5. CASE Verification
  BY <1>5, VerifyCreateStep, VerifyUpdateStep, VerifyUpdateNodeStep, VerifyGetNodeStep,
     VerifyDeleteStep DEF Verification
<1>6. CASE Revert \/ CleanUp \/ DeleteClaim \/ Conclude
  BY <1>6, RevertStep, CleanUpStep, DeleteClaimStep, ConcludeStep
<1>7. CASE Ended \/ UNCHANGED vars
  BY <1>7, Idle DEF Ended
<1> QED
  BY <1>1, <1>2, <1>3, <1>4, <1>5, <1>6, <1>7 DEF Next, Probe

(***************************************************************************)
(* The inductive invariant holds of every behaviour.                       *)
(***************************************************************************)
THEOREM Invariant == Spec => []IInv
<1>1. Init => IInv
  BY Initially
<1>2. IInv /\ [Next]_vars => IInv'
  BY Inductive
<1> QED
  BY <1>1, <1>2, PTL DEF Spec

\* Every variable keeps its type, whatever the requests are answered.
THEOREM TypeCorrect == Spec => []TypeOK
<1>1. IInv => TypeOK
  BY DEF IInv
<1> QED
  BY <1>1, Invariant, PTL

\* A breach that is reported is one, but for what the code cannot know.
THEOREM BreachReal == Spec => []BreachIsReal
<1>1. IInv => BreachIsReal
  BY DEF IInv, Breached, BreachIsReal, Judged
<1> QED
  BY <1>1, Invariant, PTL

\* A breach that tenant 2 was told of is reported, but for what hid it.
THEOREM BreachSeen == Spec => []BreachIsSeen
<1>1. IInv => BreachIsSeen
  BY DEF IInv, Breached, BreachIsSeen, Judged, Open, Fresh
<1> QED
  BY <1>1, Invariant, PTL

\* What tenant 1's own DELETE answers is what became of its requests.
THEOREM DeleteAnswers == Spec => []DeleteAnswersForItself
<1>1. IInv => DeleteAnswersForItself
  BY DEF IInv, Said, DeleteAnswersForItself
<1> QED
  BY <1>1, Invariant, PTL

\* A real object is deleted, or keeps a label, only as explained.
THEOREM RealObjects == Spec => []RealObjectsAreExplained
<1>1. IInv => RealObjectsAreExplained
  BY DEF IInv, Unmade, LabelsLeft, RealObjectsAreExplained, Over
<1> QED
  BY <1>1, Invariant, PTL

\* What the two phases leave behind has its reason.
THEOREM Litter == Spec => []LitterIsExplained
<1>1. IInv => LitterIsExplained
  BY DEF IInv, LeftSoFar, LitterIsExplained
<1> QED
  BY <1>1, Invariant, PTL
=============================================================================
